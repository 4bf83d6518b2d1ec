---------------------------- MODULE HostCommands ----------------------------
(***************************************************************************)
(* /screenshot, /off and /on of one host: the leader's side                *)
(* (src/telegram.rs, fetch_peer_screenshot of src/cluster.rs), the host's  *)
(* endpoints (src/http.rs), the programs it tries (src/screenshot.rs) and  *)
(* its power (src/power.rs).                                               *)
(*                                                                         *)
(* A request the leader has given up goes on until the host notices.  A    *)
(* program whose time is up, or whose request is gone, is not killed: it   *)
(* may still draw while the next one draws, in the same file, or while     *)
(* another request takes its own screenshot.                               *)
(***************************************************************************)
EXTENDS Integers, FiniteSets

CONSTANTS
  Node,         \* the nodes that may lead, one after the other or at a time
  Host,         \* the host that is asked, one of them
  Commands,     \* commands that name it, numbered as they are taken up
  Urls,         \* its addresses
  Programs,     \* the programs that take screenshots, as they are tried
  None,         \* no node or picture
  Gone,         \* no directory
  MaxLeft,      \* bound: programs nobody waits for that go on; others end at once
  MaxChanges    \* bound: restarts of run and of processes

ASSUME HostAssumption ==
  /\ Host \in Node
  /\ Commands \in Nat /\ Urls \in Nat \ {0} /\ Programs \in Nat \ {0}
  /\ MaxLeft \in Nat /\ MaxChanges \in Nat

VARIABLES
  running,    \* screenshot_running of the TelegramRuntime of each node
  task,       \* what became of each command
  call,       \* the request of a command to the host, by URL
  permit,     \* the request that holds the permit of screenshot_limiter
  file,       \* capture.png in the directory of each request
  left,       \* programs that nobody waits for
  power,      \* whether the host is up, going down or down
  accepted,   \* the commands whose shutdown program has succeeded
  changes     \* changes of the environment so far

vars == <<running, task, call, permit, file, left, power, accepted, changes>>

Command == 1 .. Commands
Url == 1 .. Urls
Program == 1 .. Programs
Request == Command \X Url

\* A file: who drew it, with which of its programs, and whether to its end.
Picture == [by : Request, prog : Program, whole : BOOLEAN]

\* The content of a directory without a picture, and no directory.
Content == Picture \cup {None, Gone}

ASSUME ValueAssumption ==
  /\ None \notin Request \cup Node \cup Picture
  /\ Gone \notin Picture \cup {None}

\* An /off that was carried out ends with success.
Task == [stage : {"none", "begun", "waiting", "sending", "ordering", "done"},
         at : Node \cup {None}, url : Url, success : BOOLEAN, orphan : BOOLEAN]

NoTask == [stage |-> "none", at |-> None, url |-> 1, success |-> FALSE, orphan |-> FALSE]

\* prog is the program that runs or, once one has succeeded, that program.
Call == [stage : {"none", "asked", "ordered", "capturing", "reading", "yes", "no"},
         client : Node \cup {None}, prog : 0 .. Programs + 1, picture : Picture \cup {None}]

NoCall == [stage |-> "none", client |-> None, prog |-> 0, picture |-> None]

AtHost == {"asked", "ordered", "capturing", "reading"}

Active(c) == task[c].stage \in {"begun", "waiting", "sending", "ordering"}

Waiting(c) == task[c].stage \in {"waiting", "ordering"}

Remote(c) == task[c].at # Host

\* The leader waits for this request.
Awaited(c, u) == Waiting(c) /\ task[c].url = u

\* handle_message carries out /off before it returns to the poll loop.
Polling(n) == \A c \in Command : ~(task[c].stage = "ordering" /\ task[c].at = n)

\* Mutant of PathOf: one path for all.
SharedPath(r) == CHOOSE s \in Request : TRUE

\* Every capture has a temporary directory of its own.
PathOf(r) == r

Init ==
  /\ running = [n \in Node |-> FALSE]
  /\ task = [c \in Command |-> NoTask]
  /\ call = [c \in Command |-> [u \in Url |-> NoCall]]
  /\ permit = None
  /\ file = [r \in Request |-> Gone]
  /\ left = {}
  /\ power = "up"
  /\ accepted = {}
  /\ changes = 0

Change == changes < MaxChanges /\ changes' = changes + 1

host == <<permit, file, left, power, accepted>>

-----------------------------------------------------------------------------
(* The leader.                                                             *)

\* A command that handle_message takes up on n, which is the leader in its own eyes.
Takes(c, n) ==
  /\ task[c].stage = "none" /\ \A d \in 1 .. c - 1 : task[d].stage # "none"
  /\ Polling(n) /\ (n = Host => power # "down")

Done(success) == [NoTask EXCEPT !.stage = "done", !.success = success]

\* The request n sends to the host.
Message(n, stage) == [NoCall EXCEPT !.stage = stage, !.client = n]

\* start_screenshot finds none running.
Begin(c, n) ==
  /\ Takes(c, n) /\ ~running[n]
  /\ running' = [running EXCEPT ![n] = TRUE]
  /\ task' = [task EXCEPT ![c].stage = "begun", ![c].at = n]
  /\ UNCHANGED <<call, host, changes>>

\* "Screenshot already running."
TurnDown(c, n) ==
  /\ Takes(c, n) /\ running[n]
  /\ task' = [task EXCEPT ![c] = Done(FALSE)]
  /\ UNCHANGED <<running, call, host, changes>>

\* shutdown_host, which finds the host and its entry's permission.
Order(c, n) ==
  /\ Takes(c, n)
  /\ task' = [task EXCEPT ![c].stage = "ordering", ![c].at = n]
  /\ call' = [call EXCEPT ![c][1] = Message(n, "ordered")]
  /\ UNCHANGED <<running, host, changes>>

\* wake_host sends its packet into the network, which may wake the host.
Wake(c, n) ==
  /\ Takes(c, n)
  /\ task' = [task EXCEPT ![c] = Done(FALSE)]
  /\ power' \in {power, IF power = "down" THEN "up" ELSE power}
  /\ UNCHANGED <<running, call, permit, file, left, accepted, changes>>

\* screenshot_running of the runtime that the task was given.
Released(c) == IF task[c].orphan \/ task[c].stage = "ordering" THEN running
               ELSE [running EXCEPT ![task[c].at] = FALSE]

Finish(c, success) ==
  /\ task' = [task EXCEPT ![c] = Done(success)]
  /\ running' = Released(c)

\* The task of start_screenshot: the node has ceased to lead, or the screenshot of
\* this host is not allowed.
StandAside(c) ==
  /\ task[c].stage = "begun"
  /\ Finish(c, FALSE)
  /\ UNCHANGED <<call, host, changes>>

\* screenshot_for_host: the first URL, or this node itself.
Ask(c) ==
  /\ task[c].stage = "begun"
  /\ task' = [task EXCEPT ![c].stage = "waiting"]
  /\ call' = [call EXCEPT ![c][1] = Message(task[c].at, "asked")]
  /\ UNCHANGED <<running, host, changes>>

Outcome(c) == call[c][task[c].url].stage

\* The command is over, and its request with it.
Close(c, success) == Finish(c, success) /\ call' = [call EXCEPT ![c][task[c].url] = NoCall]

\* Mutant of Ordered: the status of the answer is not looked at.
OrderedAnyhow(c) ==
  /\ task[c].stage = "ordering" /\ Outcome(c) \in {"yes", "no"}
  /\ Close(c, TRUE)
  /\ UNCHANGED <<host, changes>>

\* "Shutdown requested": the host has called its shutdown program.
Ordered(c) ==
  /\ task[c].stage = "ordering" /\ Outcome(c) = "yes"
  /\ Close(c, TRUE)
  /\ UNCHANGED <<host, changes>>

\* The picture has come.
Hears(c) ==
  /\ task[c].stage = "waiting" /\ Outcome(c) = "yes"
  /\ task' = [task EXCEPT ![c].stage = "sending"]
  /\ UNCHANGED <<running, call, host, changes>>

\* The document is sent to the chat, or is not.
Sends(c) ==
  /\ task[c].stage = "sending"
  /\ Close(c, FALSE)
  /\ UNCHANGED <<host, changes>>

\* The attempt came to nothing: an error was answered, or at any time the connection
\* or the client's timeout ended it.  What the host has not yet answered goes on.
CameToNothing(c) ==
  /\ Waiting(c)
  /\ Outcome(c) = "no" \/ Remote(c)

Without(c) == IF Outcome(c) \in {"yes", "no"}
              THEN [call[c] EXCEPT ![task[c].url] = NoCall] ELSE call[c]

TryNextUrl(c) ==
  /\ CameToNothing(c)
  /\ Remote(c) /\ task[c].url < Urls
  /\ task' = [task EXCEPT ![c].url = @ + 1]
  /\ call' = [call EXCEPT ![c] = [Without(c) EXCEPT ![task[c].url + 1] =
        Message(task[c].at, IF task[c].stage = "ordering" THEN "ordered" ELSE "asked")]]
  /\ UNCHANGED <<running, host, changes>>

\* Mutant of GiveUp: the flag is forgotten.
GiveUpBusy(c) ==
  /\ CameToNothing(c)
  /\ ~Remote(c) \/ task[c].url = Urls
  /\ task' = [task EXCEPT ![c] = Done(FALSE)]
  /\ call' = [call EXCEPT ![c] = Without(c)]
  /\ UNCHANGED <<running, host, changes>>

\* "Screenshot failed", "Shutdown failed"
GiveUp(c) ==
  /\ CameToNothing(c)
  /\ ~Remote(c) \/ task[c].url = Urls
  /\ Finish(c, FALSE)
  /\ call' = [call EXCEPT ![c] = Without(c)]
  /\ UNCHANGED <<host, changes>>

-----------------------------------------------------------------------------
(* The host.                                                               *)

\* An answer, to a leader that waits for it or to no one.
Answered(c, u, answer) ==
  [call EXCEPT ![c][u] =
     IF Awaited(c, u) THEN [answer EXCEPT !.client = call[c][u].client] ELSE NoCall]

Yes == [NoCall EXCEPT !.stage = "yes"]
No == [NoCall EXCEPT !.stage = "no"]

Arrives(c, u) == call[c][u].stage \in {"asked", "ordered"}

Arrived(c, u) == Arrives(c, u) /\ power # "down"

\* screenshot_endpoint, or screenshot_for_host on the host itself: try_acquire, and
\* the directory of the capture.
Admit(c, u) ==
  /\ Arrived(c, u) /\ call[c][u].stage = "asked" /\ permit = None
  /\ permit' = <<c, u>>
  /\ call' = [call EXCEPT ![c][u].stage = "capturing", ![c][u].prog = 1]
  /\ file' = [file EXCEPT ![PathOf(<<c, u>>)] = None]
  /\ UNCHANGED <<running, task, left, power, accepted, changes>>

\* The screenshot, or the shutdown, is not allowed; one is being taken already; the
\* host leads and has no successor; the shutdown program fails.
Refuse(c, u) ==
  /\ Arrived(c, u)
  /\ call' = Answered(c, u, No)
  /\ UNCHANGED <<running, task, host, changes>>

\* The shutdown endpoint, or shutdown_host on the host itself: shutdown_local.
Accept(c, u) ==
  /\ Arrived(c, u) /\ call[c][u].stage = "ordered"
  /\ power' = "stopping"
  /\ accepted' = accepted \cup {c}
  /\ call' = Answered(c, u, Yes)
  /\ UNCHANGED <<running, task, permit, file, left, changes>>

\* capture_to_path waits for a program.
Runs(c, u) == call[c][u].stage = "capturing" /\ call[c][u].prog =< Programs

Drawing(c, u, i, whole) == [by |-> <<c, u>>, prog |-> i, whole |-> whole]

\* The files once the program of the request has drawn as far as it came, or not at all.
Drawn(c, u, whole) ==
  {file, [file EXCEPT ![PathOf(<<c, u>>)] = Drawing(c, u, call[c][u].prog, whole)]}

NextProgram(c, u) == call' = [call EXCEPT ![c][u].prog = @ + 1]

\* It exits with success, after its picture or without one; path.exists() also finds
\* what an earlier program has drawn.
Succeeds(c, u) ==
  /\ Runs(c, u)
  /\ file' \in Drawn(c, u, TRUE)
  /\ IF file'[PathOf(<<c, u>>)] \in Picture
     THEN call' = [call EXCEPT ![c][u].stage = "reading"]
     ELSE NextProgram(c, u)
  /\ UNCHANGED <<running, task, permit, left, power, accepted, changes>>

\* Mutant of Fails: a file is enough, whatever the exit status.
FailsUnseen(c, u) ==
  /\ Runs(c, u)
  /\ file' \in Drawn(c, u, FALSE)
  /\ IF file'[PathOf(<<c, u>>)] \in Picture
     THEN call' = [call EXCEPT ![c][u].stage = "reading"]
     ELSE NextProgram(c, u)
  /\ UNCHANGED <<running, task, permit, left, power, accepted, changes>>

\* It is not installed, or exits with an error.
Fails(c, u) ==
  /\ Runs(c, u)
  /\ file' \in Drawn(c, u, FALSE)
  /\ NextProgram(c, u)
  /\ UNCHANGED <<running, task, permit, left, power, accepted, changes>>

\* The programs nobody waits for once the request's is one of them.
WithLeft(c, u) == IF Runs(c, u) /\ Cardinality(left) < MaxLeft
                  THEN left \cup {<<c, u, call[c][u].prog>>} ELSE left

\* Its ten seconds are over.
TimesOut(c, u) ==
  /\ Runs(c, u)
  /\ file' \in Drawn(c, u, FALSE)
  /\ left' = WithLeft(c, u)
  /\ NextProgram(c, u)
  /\ UNCHANGED <<running, task, permit, power, accepted, changes>>

\* A capture ends: its directory is removed, its permit returned.
Closed(c, u) ==
  /\ file' = [file EXCEPT ![PathOf(<<c, u>>)] = Gone]
  /\ permit' = None

\* "no Linux screenshot command succeeded"
Exhausted(c, u) ==
  /\ call[c][u].stage = "capturing" /\ call[c][u].prog > Programs
  /\ Closed(c, u)
  /\ call' = Answered(c, u, No)
  /\ UNCHANGED <<running, task, left, power, accepted, changes>>

\* capture reads the file, unless it is too large or the system refuses.
Reads(c, u) ==
  /\ call[c][u].stage = "reading"
  /\ Closed(c, u)
  /\ call' \in {Answered(c, u, [Yes EXCEPT !.picture = file[PathOf(<<c, u>>)],
                                           !.prog = call[c][u].prog]),
                Answered(c, u, No)}
  /\ UNCHANGED <<running, task, left, power, accepted, changes>>

\* The host still has a request whose client has gone.
Abandoned(c, u) ==
  call[c][u].stage \in AtHost /\ call[c][u].client # Host /\ ~Awaited(c, u)

\* Mutant of Drop: the permit goes on being held.
DropHolding(c, u) ==
  /\ Abandoned(c, u)
  /\ call' = [call EXCEPT ![c][u] = NoCall]
  /\ left' = WithLeft(c, u)
  /\ file' = [file EXCEPT ![PathOf(<<c, u>>)] = Gone]
  /\ UNCHANGED <<running, task, permit, power, accepted, changes>>

\* The host notices that its client has gone, and drops the request; or the request
\* is lost with its connection.
Drop(c, u) ==
  /\ Abandoned(c, u)
  /\ call' = [call EXCEPT ![c][u] = NoCall]
  /\ left' = WithLeft(c, u)
  /\ IF Arrives(c, u) THEN UNCHANGED <<file, permit>> ELSE Closed(c, u)
  /\ UNCHANGED <<running, task, power, accepted, changes>>

\* A program that nobody waits for draws a part into its directory, if that is there, or ends.
Lingers(x) ==
  /\ \/ /\ file[PathOf(<<x[1], x[2]>>)] # Gone
        /\ file' = [file EXCEPT ![PathOf(<<x[1], x[2]>>)] = Drawing(x[1], x[2], x[3], FALSE)]
        /\ UNCHANGED left
     \/ left' = left \ {x} /\ UNCHANGED file
  /\ UNCHANGED <<running, task, call, permit, power, accepted, changes>>

-----------------------------------------------------------------------------
(* What changes around them.                                               *)

\* The process of n ends with its tasks and, on the host, with its requests; nobody
\* looks into the directories they leave behind.
ProcessEnds(n) ==
  /\ running' = [running EXCEPT ![n] = FALSE]
  /\ task' = [c \in Command |-> IF Active(c) /\ task[c].at = n
                               THEN Done(FALSE) ELSE task[c]]
  /\ call' = [c \in Command |-> [u \in Url |->
       IF call[c][u].stage \in AtHost
       THEN IF n # Host THEN call[c][u]
            ELSE IF Awaited(c, u) /\ Remote(c) THEN [No EXCEPT !.client = task[c].at] ELSE NoCall
       ELSE IF call[c][u].client = n THEN NoCall ELSE call[c][u]]]
  /\ IF n = Host
     THEN /\ permit' = None
          /\ file' = [r \in Request |-> Gone]
     ELSE UNCHANGED <<permit, file>>

\* It is started again, by its update or otherwise; the programs may have gone on.
Restart(n) ==
  /\ Change
  /\ n = Host => power # "down"
  /\ ProcessEnds(n)
  /\ n = Host =>
       left' \in SUBSET (left \cup {<<r[1], r[2], call[r[1]][r[2]].prog>> :
                                    r \in {q \in Request : Runs(q[1], q[2])}})
  /\ n # Host => UNCHANGED left
  /\ UNCHANGED <<power, accepted>>

GoesDown ==
  /\ power = "stopping"
  /\ power' = "down"
  /\ ProcessEnds(Host)
  /\ left' = {}
  /\ UNCHANGED <<accepted, changes>>

\* run ends with an error and is started again, with a new TelegramRuntime.
RunRestarts(n) ==
  /\ Change /\ Polling(n)
  /\ running' = [running EXCEPT ![n] = FALSE]
  /\ task' = [c \in Command |->
                IF Active(c) /\ task[c].at = n
                THEN [task[c] EXCEPT !.orphan = TRUE] ELSE task[c]]
  /\ UNCHANGED <<call, host>>

TaskStep(c) ==
  \/ StandAside(c) \/ Ask(c) \/ Ordered(c) \/ Hears(c) \/ Sends(c) \/ TryNextUrl(c) \/ GiveUp(c)

CaptureStep(c, u) ==
  \/ Succeeds(c, u) \/ Fails(c, u) \/ TimesOut(c, u) \/ Exhausted(c, u) \/ Reads(c, u)

CallStep(c, u) ==
  Admit(c, u) \/ Refuse(c, u) \/ Accept(c, u) \/ CaptureStep(c, u) \/ Drop(c, u)

Next ==
  \/ \E c \in Command, n \in Node :
       Begin(c, n) \/ TurnDown(c, n) \/ Order(c, n) \/ Wake(c, n)
  \/ \E c \in Command : TaskStep(c)
  \/ \E c \in Command, u \in Url : CallStep(c, u)
  \/ \E x \in left : Lingers(x)
  \/ \E n \in Node : Restart(n) \/ RunRestarts(n)
  \/ GoesDown

\* Tasks go on, requests end by the client's timeout, the programs of the one capture
\* by theirs, and a call a node makes to itself is answered.
Fairness ==
  /\ WF_vars(\E c \in Command : TaskStep(c))
  /\ WF_vars(\E c \in Command, u \in Url : CaptureStep(c, u))
  /\ WF_vars(\E c \in Command : call[c][1].client = Host /\ CallStep(c, 1))

Spec == Init /\ [][Next]_vars /\ Fairness

-----------------------------------------------------------------------------
(* Properties.                                                             *)

TypeOK ==
  /\ running \in [Node -> BOOLEAN]
  /\ task \in [Command -> Task]
  /\ call \in [Command -> [Url -> Call]]
  /\ permit \in Request \cup {None}
  /\ file \in [Request -> Content]
  /\ left \subseteq Command \X Url \X Program
  /\ power \in {"up", "stopping", "down"}
  /\ accepted \subseteq Command
  /\ changes \in Nat

\* "capture a fresh screenshot": the picture a leader gets was drawn by a program that
\* was started for the very request that answers, although programs of requests that
\* were given up go on drawing.
FreshPicture ==
  \A c \in Command, u \in Url :
    call[c][u].picture # None => call[c][u].picture.by = <<c, u>>

\* The picture is whole, unless it is another program's than the one that succeeded:
\* one that failed or timed out has left it, or has drawn over the picture since.
WholePicture ==
  \A c \in Command, u \in Url :
    call[c][u].picture # None =>
      call[c][u].picture.whole \/ call[c][u].picture.prog # call[c][u].prog

\* "screenshot already running on this node" is said only while a capture is at work:
\* the permit is one capture's, and no capture works without it.
PermitIsCapture ==
  \A c \in Command, u \in Url :
    permit = <<c, u>> <=> call[c][u].stage \in {"capturing", "reading"}

\* "Shutdown requested" is reported only of a host whose shutdown program has taken
\* this command's request.
OffHonest ==
  \A c \in Command : task[c].success => c \in accepted

\* "Screenshot already running." does not last, nor does the host's permit.
CaptureReturns ==
  /\ \A n \in Node : running[n] ~> ~running[n]
  /\ permit # None ~> permit = None
=============================================================================
