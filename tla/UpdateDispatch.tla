--------------------------- MODULE UpdateDispatch ---------------------------
(***************************************************************************)
(* /update: start_update and handle_update_command (src/telegram.rs) on    *)
(* the leader, which signs one request per target and asks the targets one *)
(* after the other over each of their URLs, and schedule_update_request    *)
(* (src/cluster.rs) on the targets.                                        *)
(*                                                                         *)
(* An attempt the leader has given up may still reach its target, and its  *)
(* answer may have been lost.  Nodes stop and boot, run is started again,  *)
(* and the nodes' opinions of who leads change at any time.                *)
(***************************************************************************)
EXTENDS Integers, Sequences, FiniteSets

CONSTANTS
  Node,         \* the hosts of the cluster
  Hosts,        \* their ids as they sort; Config::validate lets no two be the same
  Command,      \* /update commands; each signs an operation id of its own
  Argument,     \* what may be asked for: All, or a sequence of hosts
  All,          \* no host named, or "all"
  Urls,         \* addresses of each peer
  None,         \* no node
  First,        \* the nodes that may lead at first
  MaxChanges    \* bound: new leaders, late attempts, restarts of run and processes

ASSUME HostsAssumption ==
  /\ Hosts \in Seq(Node)
  /\ \A n \in Node : \E i \in DOMAIN Hosts : Hosts[i] = n
  /\ \A i, j \in DOMAIN Hosts : Hosts[i] = Hosts[j] => i = j
  /\ None \notin Node /\ First \subseteq Node

ASSUME ArgumentAssumption ==
  /\ All \in Argument
  /\ \A arg \in Argument \ {All} : arg \in Seq(Node \cup {None})
  /\ Urls \in Nat \ {0}
  /\ MaxChanges \in Nat

VARIABLES
  view,       \* leader_id of each node
  running,    \* update_running of the TelegramRuntime each node uses
  task,       \* what was made of each command
  call,       \* the request of a command to a target, by URL
  seen,       \* operations each node has noted
  busy,       \* whether a node's cooldown lasts
  launches,   \* how often each node started its launcher for a command
  scheduled,  \* the commands whose launcher has succeeded, by node
  changes     \* changes of the environment so far

vars == <<view, running, task, call, seen, busy, launches, scheduled, changes>>

Url == 1 .. Urls

\* A command: the node whose leader handles it, where it is in its targets, and
\* what it will report.  "orphan" tasks belong to a runtime that run has replaced.
Stage == {"none", "refused", "begun", "asking", "waiting", "done", "dead"}

Task == [stage : Stage, at : Node \cup {None}, arg : Argument,
         targets : Seq(Node), next : Nat, url : Url,
         queued : SUBSET Node, failed : SUBSET Node, orphan : BOOLEAN]

CallStage == {"none", "sent", "launching", "yes", "no"}

Active(c) == task[c].stage \in {"begun", "asking", "waiting"}

Target(c) == task[c].targets[task[c].next]

\* The attempt on whose answer a command waits.
Awaited(c, n, u) ==
  task[c].stage = "waiting" /\ Target(c) = n /\ task[c].url = u

-----------------------------------------------------------------------------
\* What a sequence has at some of its indices, in their order.
Picked(s, I) ==
  [k \in 1 .. Cardinality(I) |->
     s[CHOOSE i \in I : Cardinality({j \in I : j =< i}) = k]]

\* The indices of what has not occurred before (resolve_update_targets' seen).
FirstNamed(s) == {i \in DOMAIN s : \A j \in DOMAIN s : j < i => s[j] # s[i]}

\* The indices of all hosts but this one.
Others(n) == {i \in DOMAIN Hosts : Hosts[i] # n}

\* Mutant of Targets: the hosts are sorted with this node among them.
TargetsSorted(n, arg) == IF arg = All THEN Hosts ELSE Picked(arg, FirstNamed(arg))

\* Mutant of Targets: a host is asked as often as it was named.
TargetsAsNamed(n, arg) == IF arg = All THEN Picked(Hosts, Others(n)) \o <<n>> ELSE arg

\* resolve_update_targets, for hosts it knows.
Targets(n, arg) ==
  IF arg = All THEN Picked(Hosts, Others(n)) \o <<n>> ELSE Picked(arg, FirstNamed(arg))

Known(arg) == arg # All => arg \in Seq(Node)

Init ==
  /\ \E l \in First : view = [n \in Node |-> l]   \* a settled cluster
  /\ running = [n \in Node |-> FALSE]
  /\ task = [c \in Command |-> [stage |-> "none", at |-> None, arg |-> All,
                               targets |-> <<>>, next |-> 1, url |-> 1,
                               queued |-> {}, failed |-> {}, orphan |-> FALSE]]
  /\ call = [c \in Command |-> [n \in Node |-> [u \in Url |-> "none"]]]
  /\ seen = [n \in Node |-> {}]
  /\ busy = [n \in Node |-> FALSE]
  /\ launches = [n \in Node |-> [c \in Command |-> 0]]
  /\ scheduled = [n \in Node |-> {}]
  /\ changes = 0

guards == <<seen, busy, launches, scheduled>>

-----------------------------------------------------------------------------
(* The leader.                                                             *)

Change == changes < MaxChanges /\ changes' = changes + 1

\* handle_message passes /update to start_update, which finds none running.
Begin(c, n, arg) ==
  /\ task[c].stage = "none" /\ view[n] = n /\ ~running[n]
  /\ running' = [running EXCEPT ![n] = TRUE]
  /\ task' = [task EXCEPT ![c].stage = "begun", ![c].at = n, ![c].arg = arg]
  /\ UNCHANGED <<view, call, guards, changes>>

\* "Update already running."
TurnDown(c, n) ==
  /\ task[c].stage = "none" /\ view[n] = n /\ running[n]
  /\ task' = [task EXCEPT ![c].stage = "refused"]
  /\ UNCHANGED <<view, running, call, guards, changes>>

\* The task is spawned and finds what to ask of whom.
Resolve(c) ==
  /\ task[c].stage = "begun"
  /\ view[task[c].at] = task[c].at
  /\ Known(task[c].arg)
  /\ task' = [task EXCEPT ![c].stage = "asking",
                          ![c].targets = Targets(task[c].at, task[c].arg)]
  /\ UNCHANGED <<view, running, call, guards, changes>>

\* update_running of the runtime that the task was given.
Released(c) == IF task[c].orphan THEN running
               ELSE [running EXCEPT ![task[c].at] = FALSE]

\* Mutant of TurnedAway: the flag stays.
TurnedAwayBusy(c) ==
  /\ task[c].stage = "begun"
  /\ view[task[c].at] # task[c].at \/ ~Known(task[c].arg)
  /\ task' = [task EXCEPT ![c].stage = "done"]
  /\ UNCHANGED <<view, running, call, guards, changes>>

\* The node has ceased to lead, or a host is not known.
TurnedAway(c) ==
  /\ task[c].stage = "begun"
  /\ view[task[c].at] # task[c].at \/ ~Known(task[c].arg)
  /\ task' = [task EXCEPT ![c].stage = "done"]
  /\ running' = Released(c)
  /\ UNCHANGED <<view, call, guards, changes>>

More(c) == task[c].stage = "asking" /\ task[c].next =< Len(task[c].targets)

\* update_for_host signs a request for the next target and asks at its first URL,
\* or calls schedule_update_request itself.
Ask(c) ==
  /\ More(c)
  /\ view[task[c].at] = task[c].at
  /\ task' = [task EXCEPT ![c].stage = "waiting", ![c].url = 1]
  /\ call' = [call EXCEPT ![c][Target(c)][1] = "sent"]
  /\ UNCHANGED <<view, running, guards, changes>>

\* signed_update_request: this node is not the active leader.
CannotSign(c) ==
  /\ More(c)
  /\ view[task[c].at] # task[c].at
  /\ task' = [task EXCEPT ![c].failed = @ \cup {Target(c)}, ![c].next = @ + 1]
  /\ UNCHANGED <<view, running, call, guards, changes>>

\* The outcome of the attempt on which the command waits.
Outcome(c) == call[c][Target(c)][task[c].url]

\* The calls of a command without the attempt it waited for.
Left(c) == [call[c] EXCEPT ![Target(c)][task[c].url] = "none"]

\* Mutant of Hears: a refusal as a duplicate is taken for a request well received.
HearsDuplicate(c) ==
  /\ task[c].stage = "waiting"
  /\ \/ Outcome(c) = "yes"
     \/ Outcome(c) = "no" /\ c \in seen[Target(c)]
  /\ task' = [task EXCEPT ![c].stage = "asking", ![c].next = @ + 1,
                          ![c].queued = @ \cup {Target(c)}]
  /\ call' = [call EXCEPT ![c] = Left(c)]
  /\ UNCHANGED <<view, running, guards, changes>>

\* The target answers that it has scheduled its update.
Hears(c) ==
  /\ task[c].stage = "waiting"
  /\ Outcome(c) = "yes"
  /\ task' = [task EXCEPT ![c].stage = "asking", ![c].next = @ + 1,
                          ![c].queued = @ \cup {Target(c)}]
  /\ call' = [call EXCEPT ![c] = Left(c)]
  /\ UNCHANGED <<view, running, guards, changes>>

\* The attempt came to nothing: an error was answered, or at any time the
\* connection or the client's timeout ended it.
CameToNothing(c) ==
  /\ task[c].stage = "waiting"
  /\ Outcome(c) = "no" \/ Target(c) # task[c].at

\* An attempt that is given up is lost or dropped with its connection, or goes on
\* at the target until that notices.
Leaves(c, calls) ==
  \/ calls = Left(c) /\ UNCHANGED changes
  \/ calls = call[c] /\ Outcome(c) \in {"sent", "launching"} /\ Change

\* The next URL.  A call to schedule_update_request itself has none.
TryNextUrl(c) ==
  /\ CameToNothing(c)
  /\ Target(c) # task[c].at /\ task[c].url < Urls
  /\ task' = [task EXCEPT ![c].url = @ + 1]
  /\ \E calls \in {Left(c), call[c]} :
       /\ Leaves(c, calls)
       /\ call' = [call EXCEPT ![c] = [calls EXCEPT ![Target(c)][task[c].url + 1] = "sent"]]
  /\ UNCHANGED <<view, running, guards>>

\* The target has failed, and the next is asked.
GiveUp(c) ==
  /\ CameToNothing(c)
  /\ Target(c) = task[c].at \/ task[c].url = Urls
  /\ task' = [task EXCEPT ![c].stage = "asking", ![c].next = @ + 1,
                          ![c].failed = @ \cup {Target(c)}]
  /\ \E calls \in {Left(c), call[c]} :
       Leaves(c, calls) /\ call' = [call EXCEPT ![c] = calls]
  /\ UNCHANGED <<view, running, guards>>

\* The report, and finish_operation.
Report(c) ==
  /\ task[c].stage = "asking" /\ task[c].next > Len(task[c].targets)
  /\ task' = [task EXCEPT ![c].stage = "done"]
  /\ running' = Released(c)
  /\ UNCHANGED <<view, call, guards, changes>>

-----------------------------------------------------------------------------
(* The targets.  What happens inside a reservation and around the file is  *)
(* UpdateGuard's.                                                          *)

\* The calls once an attempt is answered, to a leader that waits for it or to no one.
Answered(c, n, u, answer) ==
  [call EXCEPT ![c][n][u] = IF Awaited(c, n, u) THEN answer ELSE "none"]

\* Mutant of Refuses: operations seen before are not looked up.
RefusesBusy(n, c) == view[n] # task[c].at \/ busy[n]

\* validate_update_request, or the check of the reservation.
Refuses(n, c) == view[n] # task[c].at \/ c \in seen[n] \/ busy[n]

\* Refused by these, or as a leader without a successor.
Refuse(c, n, u) ==
  /\ call[c][n][u] = "sent"
  /\ Refuses(n, c) \/ view[n] = n
  /\ call' = Answered(c, n, u, "no")
  /\ UNCHANGED <<view, running, task, guards, changes>>

Accept(c, n, u) ==
  /\ call[c][n][u] = "sent" /\ ~Refuses(n, c)
  /\ call' = [call EXCEPT ![c][n][u] = "launching"]
  /\ seen' = [seen EXCEPT ![n] = @ \cup {c}]
  /\ busy' = [busy EXCEPT ![n] = TRUE]
  /\ launches' = [launches EXCEPT ![n][c] = @ + 1]
  /\ UNCHANGED <<view, running, task, scheduled, changes>>

\* The reservation is not saved: an error, but memory keeps it.
SaveFails(c, n, u) ==
  /\ call[c][n][u] = "sent" /\ ~Refuses(n, c)
  /\ call' = Answered(c, n, u, "no")
  /\ seen' = [seen EXCEPT ![n] = @ \cup {c}]
  /\ busy' = [busy EXCEPT ![n] = TRUE]
  /\ UNCHANGED <<view, running, task, launches, scheduled, changes>>

LauncherEnds(c, n, u) ==
  /\ call[c][n][u] = "launching"
  /\ call' = Answered(c, n, u, "yes")
  /\ scheduled' = [scheduled EXCEPT ![n] = @ \cup {c}]
  /\ UNCHANGED <<view, running, task, seen, busy, launches, changes>>

\* Updates are disabled, or the launcher fails or times out.
LauncherFails(c, n, u) ==
  /\ call[c][n][u] = "launching"
  /\ call' = Answered(c, n, u, "no")
  /\ busy' = [busy EXCEPT ![n] = FALSE]
  /\ UNCHANGED <<view, running, task, seen, launches, scheduled, changes>>

\* The target notices that its client has gone: handler and launcher are dropped.
Drop(c, n, u) ==
  /\ call[c][n][u] = "launching"
  /\ n # task[c].at /\ ~Awaited(c, n, u)
  /\ call' = Answered(c, n, u, "no")
  /\ UNCHANGED <<view, running, task, guards, changes>>

\* The cooldown outlasts the launcher.
CooldownEnds(n) ==
  /\ busy[n]
  /\ \A c \in Command, u \in Url : call[c][n][u] # "launching"
  /\ busy' = [busy EXCEPT ![n] = FALSE]
  /\ UNCHANGED <<view, running, task, call, seen, launches, scheduled, changes>>

-----------------------------------------------------------------------------
(* What changes around them.                                               *)

\* A node takes another, or no one, for the leader.
LeaderMoves(n) ==
  /\ Change
  /\ \E l \in (Node \cup {None}) \ {view[n]} : view' = [view EXCEPT ![n] = l]
  /\ UNCHANGED <<running, task, call, guards>>

\* run ends with an error and is started again, with a new TelegramRuntime.
RunRestarts(n) ==
  /\ Change
  /\ running' = [running EXCEPT ![n] = FALSE]
  /\ task' = [c \in Command |->
                IF Active(c) /\ task[c].at = n
                THEN [task[c] EXCEPT !.orphan = TRUE] ELSE task[c]]
  /\ UNCHANGED <<view, call, guards>>

\* The process of a node ends, by its update or otherwise, and boots.  An operation
\* whose launcher was started had been saved before, the others may be forgotten.
Restart(n) ==
  /\ Change
  /\ view' = [view EXCEPT ![n] = None]
  /\ running' = [running EXCEPT ![n] = FALSE]
  /\ task' = [c \in Command |->
                IF Active(c) /\ task[c].at = n
                THEN [task[c] EXCEPT !.stage = "dead"] ELSE task[c]]
  /\ call' = [c \in Command |-> [call[c] EXCEPT ![n] =
                [u \in Url |-> IF call[c][n][u] \in {"sent", "launching"}
                               THEN "no" ELSE call[c][n][u]]]]
  /\ \E kept \in SUBSET seen[n] :
       /\ {c \in Command : launches[n][c] > 0} \subseteq kept
       /\ seen' = [seen EXCEPT ![n] = kept]
  /\ UNCHANGED <<busy, launches, scheduled>>

TaskStep(c) ==
  \/ Resolve(c) \/ TurnedAway(c)
  \/ Ask(c) \/ CannotSign(c)
  \/ Hears(c) \/ TryNextUrl(c) \/ GiveUp(c)
  \/ Report(c)

CallStep(c, n, u) ==
  \/ Refuse(c, n, u) \/ Accept(c, n, u) \/ SaveFails(c, n, u)
  \/ LauncherEnds(c, n, u) \/ LauncherFails(c, n, u) \/ Drop(c, n, u)

Next ==
  \/ \E c \in Command : TaskStep(c)
  \/ \E c \in Command, n \in Node : TurnDown(c, n) \/ \E arg \in Argument : Begin(c, n, arg)
  \/ \E c \in Command, n \in Node, u \in Url : CallStep(c, n, u)
  \/ \E n \in Node : CooldownEnds(n) \/ LeaderMoves(n) \/ RunRestarts(n) \/ Restart(n)

\* The task goes on, every request to a peer ends by the client's timeout, and a
\* call that a node makes to itself by the launcher's.
Fairness ==
  /\ \A c \in Command : WF_vars(TaskStep(c))
  /\ \A c \in Command, n \in Node : WF_vars(task[c].at = n /\ CallStep(c, n, 1))

Spec == Init /\ [][Next]_vars /\ Fairness

-----------------------------------------------------------------------------
(* Properties.                                                             *)

TypeOK ==
  /\ view \in [Node -> Node \cup {None}]
  /\ running \in [Node -> BOOLEAN]
  /\ task \in [Command -> Task]
  /\ call \in [Command -> [Node -> [Url -> CallStage]]]
  /\ seen \in [Node -> SUBSET Command]
  /\ busy \in [Node -> BOOLEAN]
  /\ launches \in [Node -> [Command -> Nat]]
  /\ scheduled \in [Node -> SUBSET Command]
  /\ changes \in Nat

\* The commands whose launcher is at work on node n.
AtWork(n) == {c \in Command : \E u \in Url : call[c][n][u] = "launching"}

Updater(n) == INSTANCE UpdateLauncher
                WITH Op <- Command, launches <- launches[n], running <- AtWork(n)

\* Of every node the commands make an updater that is launched once for each and
\* never beside another, although the leader tries one URL after another, attempts
\* it has given up arrive late, an error lifts the cooldown, and nodes restart.
LaunchesOnce ==
  /\ \A n \in Node : Updater(n)!Init
  /\ [][\A n \in Node : [Updater(n)!Next]_(Updater(n)!vars)]_vars

\* A command starts the launcher of a node once at most.
LaunchedOnce == \A n \in Node, c \in Command : launches[n][c] =< 1

\* "Queued:" names a host only if its launcher has succeeded for this command.
QueuedIsScheduled ==
  \A c \in Command : \A n \in task[c].queued : c \in scheduled[n]

Settled(c) == {task[c].targets[i] : i \in 1 .. (task[c].next - 1)}

\* A report names each target once, as queued or as failed.
EveryTargetTold ==
  \A c \in Command :
    /\ task[c].queued \cap task[c].failed = {}
    /\ task[c].stage = "done" =>
         task[c].queued \cup task[c].failed =
           {task[c].targets[i] : i \in DOMAIN task[c].targets}

\* One dispatch at a time for each TelegramRuntime.
OneDispatch ==
  \A c, d \in Command :
    /\ Active(c) /\ ~task[c].orphan
    /\ Active(d) /\ ~task[d].orphan
    /\ task[c].at = task[d].at
    => c = d

AskedBeforeLeader(c) ==
  task[c].at # None /\ launches[task[c].at][c] > 0 =>
    \A i \in DOMAIN task[c].targets :
      task[c].targets[i] # task[c].at => task[c].targets[i] \in Settled(c)

\* "Peers are updated before the current leader so the leader does not restart before
\* sending requests to the rest of the cluster": /update and /update all.
LeaderLastOfAll == \A c \in Command : task[c].arg = All => AskedBeforeLeader(c)

\* "Update already running." does not last: the flag is lowered again and again.
FlagReturns == \A n \in Node : running[n] ~> ~running[n]
=============================================================================
