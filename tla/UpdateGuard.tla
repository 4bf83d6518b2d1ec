---------------------------- MODULE UpdateGuard ----------------------------
(***************************************************************************)
(* How one node schedules its updater: schedule_update_request and all it  *)
(* calls (src/cluster.rs, src/updater.rs), run by concurrent requests.     *)
(*                                                                         *)
(* A signed request may be delivered any number of times.  Operations that *)
(* were accepted and the cooldown are kept in memory and in a file that is *)
(* rewritten in place under a mutex; the process may crash anywhere, also  *)
(* between the truncation of the file and the end of the write.  When its  *)
(* client goes away a request is dropped where it awaits, and a write it   *)
(* has begun goes on without it and without the mutex.                     *)
(***************************************************************************)
EXTENDS Integers, FiniteSets

CONSTANTS
  Op,            \* operation ids the leaders sign for this node
  Handler,       \* requests being handled at the same time
  TTL,           \* UPDATE_SIGNATURE_TTL_SECONDS, in ticks
  History,       \* UPDATE_OPERATION_HISTORY_SECONDS
  HistoryLimit,  \* UPDATE_OPERATION_HISTORY_LIMIT
  MinCooldown,   \* UPDATE_SCHEDULE_COOLDOWN_SECONDS
  Timeout,       \* update.timeout_seconds
  MaxSkew,       \* bound: how far the leader's clock is from this node's
  MaxDelay,      \* bound: time a request spends before and after the launcher
  MaxLaunches,   \* bound: launches after which an operation is not delivered again
  MaxFaults,     \* bound: crashes of the process and clients that go away
  MaxClock,      \* bound: the end of time
  None,          \* no time recorded
  Torn           \* a file that was truncated and not written

ASSUME TimeAssumption ==
  /\ TTL \in Nat /\ History \in Nat /\ MinCooldown \in Nat /\ Timeout \in Nat
  /\ MaxSkew \in Nat /\ MaxDelay \in Nat
  /\ MaxLaunches \in Nat /\ MaxFaults \in Nat /\ MaxClock \in Nat
  /\ None \notin Int

ASSUME HistoryAssumption ==
  /\ IsFiniteSet(Op)
  /\ HistoryLimit \in Nat

Time == Int \cup {None}

\* UpdateRuntime, and the content of update-operations.json.
Guard == [seen : [Op -> Time], busy_until : Time]

ASSUME TornAssumption == Torn \notin Guard

VARIABLES
  clock,       \* Utc::now() of this node
  issued,      \* issued_at of the signed request of each operation
  mem,         \* UpdateRuntime
  file,        \* update-operations.json
  req,         \* the requests being handled
  launches,    \* how often the launcher was started for each operation
  until,       \* the end of the last launch's cooldown, None once it is lifted
  forgotten,   \* the operations whose note was cut off or overwritten
  faults       \* crashes and dropped requests so far

\* What the program does not keep: the history the properties speak of.
history == <<launches, until, forgotten>>

vars == <<clock, issued, mem, file, req, history, faults>>

-----------------------------------------------------------------------------
Cooldown == IF MinCooldown > Timeout THEN MinCooldown ELSE Timeout

EmptyGuard == [seen |-> [o \in Op |-> None], busy_until |-> None]

Within(seen_at, t) == seen_at # None /\ t - seen_at =< History

StillBusy(busy_until, t) == IF busy_until # None /\ busy_until > t THEN busy_until ELSE None

LaterOf(x, y) == IF x = None THEN y
                 ELSE IF y = None THEN x
                 ELSE IF x >= y THEN x ELSE y

\* Mutant of Loaded: only the cooldown is read back.
LoadedCooldown(content, t) ==
  [seen |-> EmptyGuard.seen, busy_until |-> StillBusy(content.busy_until, t)]

\* load_update_state at time t, of a file that parses.
Loaded(content, t) ==
  [seen |-> [o \in Op |-> IF Within(content.seen[o], t) THEN content.seen[o] ELSE None],
   busy_until |-> StillBusy(content.busy_until, t)]

\* Mutant of Merged: the cooldown of the file is left there.
MergedSeen(guard, stored) ==
  [guard EXCEPT !.seen = [o \in Op |-> LaterOf(guard.seen[o], stored.seen[o])]]

\* merge_stored
Merged(guard, stored) ==
  [seen |-> [o \in Op |-> LaterOf(guard.seen[o], stored.seen[o])],
   busy_until |-> LaterOf(guard.busy_until, stored.busy_until)]

\* Mutant of Kept: the limit is one less.
KeptFewer(guard, t) ==
  LET live == {o \in Op : Within(guard.seen[o], t)}
  IN  IF Cardinality(live) < HistoryLimit THEN {live}
      ELSE {k \in SUBSET live : /\ Cardinality(k) = HistoryLimit - 1
                                /\ \A o \in k, e \in live \ k : guard.seen[e] =< guard.seen[o]}

\* The operations prune may keep at time t: those in the history window or, when
\* they are too many, the HistoryLimit latest of them.
Kept(guard, t) ==
  LET live == {o \in Op : Within(guard.seen[o], t)}
  IN  IF Cardinality(live) =< HistoryLimit THEN {live}
      ELSE {k \in SUBSET live :
              /\ Cardinality(k) = HistoryLimit
              /\ \A o \in k, e \in live \ k : guard.seen[e] =< guard.seen[o]}

\* prune
Pruned(guard, t) ==
  {[seen |-> [o \in Op |-> IF o \in k THEN guard.seen[o] ELSE None],
    busy_until |-> StillBusy(guard.busy_until, t)] : k \in Kept(guard, t)}

\* The operations in the history window that prune has cut off.
CutOff(guard, pruned, t) ==
  {o \in Op : Within(guard.seen[o], t) /\ pruned.seen[o] = None}

\* Mutant of Reserved: the operation replaces those noted before.
ReservedAlone(guard, o, t) ==
  [seen |-> [EmptyGuard.seen EXCEPT ![o] = t], busy_until |-> t + Cooldown]

Reserved(guard, o, t) ==
  [seen |-> [guard.seen EXCEPT ![o] = t], busy_until |-> t + Cooldown]

\* A request: where it is, the operation it asks for, when that stage began,
\* reserve_update_operation's now, and the content it is writing to the file.
Stage == {"idle", "checked", "locking", "saving", "launching", "failed",
          "clearing", "dropped"}

Request == [stage : Stage, op : Op \cup {None}, since : Nat, now : Nat, write : Guard]

NoRequest == [stage |-> "idle", op |-> None, since |-> 0, now |-> 0, write |-> EmptyGuard]

\* The mutex around UpdateRuntime is held while the file is written.
Locked == \E h \in Handler : req[h].stage \in {"saving", "clearing"}

Init ==
  /\ clock = 0
  /\ issued = [o \in Op |-> None]
  /\ mem = EmptyGuard
  /\ file = EmptyGuard          \* a missing file loads as an empty one
  /\ req = [h \in Handler |-> NoRequest]
  /\ launches = [o \in Op |-> 0]
  /\ until = None
  /\ forgotten = {}
  /\ faults = 0

-----------------------------------------------------------------------------
\* The leader signs a request with the time of its own clock.
Issue(o) ==
  /\ issued[o] = None
  /\ \E t \in (clock - MaxSkew) .. (clock + MaxSkew) :
       issued' = [issued EXCEPT ![o] = t]
  /\ UNCHANGED <<clock, mem, file, req, history, faults>>

\* A request is delivered, for the first time or again, and passes
\* validate_update_request and ensure_restart_allowed.
Deliver(h, o) ==
  /\ req[h].stage = "idle"
  /\ issued[o] # None
  /\ clock - issued[o] =< TTL /\ issued[o] - clock =< TTL
  /\ launches[o] < MaxLaunches
  /\ req' = [req EXCEPT ![h] = [NoRequest EXCEPT !.stage = "checked", !.op = o,
                                                 !.since = clock]]
  /\ UNCHANGED <<clock, issued, mem, file, history, faults>>

\* reserve_update_operation reads the clock before it asks for the mutex.
TakeNow(h) ==
  /\ req[h].stage = "checked"
  /\ req' = [req EXCEPT ![h].stage = "locking", ![h].now = clock]
  /\ UNCHANGED <<clock, issued, mem, file, history, faults>>

\* Under the mutex: load, merge, prune, check, and either refuse or reserve the
\* operation and begin to save.
Reserve(h) ==
  /\ req[h].stage = "locking" /\ ~Locked
  /\ file # Torn
  /\ LET merged == Merged(mem, Loaded(file, req[h].now)) IN
     \E g \in Pruned(merged, req[h].now) :
       /\ forgotten' = forgotten \cup CutOff(merged, g, req[h].now)
       /\ IF g.seen[req[h].op] # None \/ g.busy_until # None
          THEN /\ mem' = g
               /\ req' = [req EXCEPT ![h] = NoRequest]
          ELSE /\ mem' = Reserved(g, req[h].op, req[h].now)
               /\ req' = [req EXCEPT ![h].stage = "saving", ![h].write = mem']
  /\ UNCHANGED <<clock, issued, file, launches, until, faults>>

\* load_update_state fails on a file that does not parse.
LoadFails(h) ==
  /\ req[h].stage = "locking" /\ ~Locked
  /\ file = Torn
  /\ req' = [req EXCEPT ![h] = NoRequest]
  /\ UNCHANGED <<clock, issued, mem, file, history, faults>>

Writing(h) == req[h].stage \in {"saving", "clearing", "dropped"}

\* tokio::fs::write truncates the file ...
Truncate(h) ==
  /\ Writing(h)
  /\ file' = Torn
  /\ UNCHANGED <<clock, issued, mem, req, history, faults>>

Noted(guard, o) == guard.seen[o] # None

\* The operations launched that memory notes and the write under way does not.
Overwritten(h) ==
  {o \in Op : launches[o] > 0 /\ Noted(mem, o) /\ ~Noted(req[h].write, o)}

Carries(guard) == guard.busy_until # None /\ guard.busy_until >= until

\* ... and fills it.  A reservation that is saved starts the launcher; a write that
\* nobody waits for lands on whatever was written meanwhile.
SaveEnds(h) ==
  /\ Writing(h)
  /\ file' = req[h].write
  /\ \/ /\ req[h].stage = "saving"
        /\ req' = [req EXCEPT ![h].stage = "launching", ![h].since = clock,
                              ![h].now = 0, ![h].write = EmptyGuard]
        /\ launches' = [launches EXCEPT ![req[h].op] = @ + 1]
        /\ until' = req[h].write.busy_until
        /\ UNCHANGED forgotten
     \/ /\ req[h].stage = "clearing"
        /\ req' = [req EXCEPT ![h] = NoRequest]
        /\ UNCHANGED history
     \/ /\ req[h].stage = "dropped"
        /\ req' = [req EXCEPT ![h] = NoRequest]
        /\ forgotten' = forgotten \cup Overwritten(h)
        /\ until' = IF until # None /\ Carries(req[h].write) THEN until ELSE None
        /\ UNCHANGED launches
  /\ UNCHANGED <<clock, issued, mem, faults>>

\* The write fails, before or after the truncation; the request ends with an
\* error and memory keeps what was reserved.
SaveFails(h) ==
  /\ Writing(h)
  /\ req' = [req EXCEPT ![h] = NoRequest]
  /\ UNCHANGED <<clock, issued, mem, file, history, faults>>

\* updater::schedule returns within the timeout.
LauncherEnds(h) ==
  /\ req[h].stage = "launching"
  /\ req' = [req EXCEPT ![h] = NoRequest]
  /\ UNCHANGED <<clock, issued, mem, file, history, faults>>

\* It cannot start, fails or times out.
LauncherFails(h) ==
  /\ req[h].stage = "launching"
  /\ req' = [req EXCEPT ![h].stage = "failed", ![h].since = clock]
  /\ UNCHANGED <<clock, issued, mem, file, history, faults>>

\* The error path of schedule_local_update takes the mutex and drops the cooldown.
ClearBusy(h) ==
  /\ req[h].stage = "failed" /\ ~Locked
  /\ mem' = [mem EXCEPT !.busy_until = None]
  /\ req' = [req EXCEPT ![h].stage = "clearing", ![h].write = mem']
  /\ until' = None
  /\ UNCHANGED <<clock, issued, file, launches, forgotten, faults>>

\* The connection closes and the request's future is dropped; the launcher it
\* may have started is killed, the write it may have begun goes on.
Disconnect(h) ==
  /\ req[h].stage \notin {"idle", "dropped"}
  /\ req' = [req EXCEPT ![h] = IF Writing(h)
                              THEN [NoRequest EXCEPT !.stage = "dropped", !.write = req[h].write]
                              ELSE NoRequest]
  /\ faults < MaxFaults
  /\ faults' = faults + 1
  /\ UNCHANGED <<clock, issued, mem, file, history>>

\* The process dies and starts again.
Crash ==
  /\ faults < MaxFaults
  /\ faults' = faults + 1
  /\ mem' = EmptyGuard
  /\ req' = [h \in Handler |-> NoRequest]
  /\ UNCHANGED <<clock, issued, file, history>>

\* The time by which a request leaves its stage: what this node does around the
\* launcher takes no more than MaxDelay, the launcher no more than its timeout.
Deadline(r) ==
  CASE r.stage \in {"checked", "locking", "saving", "failed", "clearing"} -> r.since + MaxDelay
    [] r.stage = "launching" -> r.since + Timeout
    [] OTHER -> MaxClock

Tick ==
  /\ clock < MaxClock
  /\ \A h \in Handler : clock < Deadline(req[h])
  /\ clock' = clock + 1
  /\ UNCHANGED <<issued, mem, file, req, history, faults>>

HandlerStep(h) ==
  \/ \E o \in Op : Deliver(h, o)
  \/ TakeNow(h) \/ Reserve(h) \/ LoadFails(h)
  \/ Truncate(h) \/ SaveEnds(h) \/ SaveFails(h)
  \/ LauncherEnds(h) \/ LauncherFails(h) \/ ClearBusy(h)
  \/ Disconnect(h)

Next ==
  \/ \E o \in Op : Issue(o)
  \/ \E h \in Handler : HandlerStep(h)
  \/ Crash
  \/ Tick

Spec == Init /\ [][Next]_vars

-----------------------------------------------------------------------------
(* Properties.                                                             *)

TypeOK ==
  /\ clock \in Nat
  /\ issued \in [Op -> Time]
  /\ mem \in Guard
  /\ file \in Guard \cup {Torn}
  /\ req \in [Handler -> Request]
  /\ launches \in [Op -> Nat]
  /\ until \in Time
  /\ forgotten \subseteq Op
  /\ faults \in Nat

Ledger == INSTANCE UpdateLedger

\* "Recent operation IDs and update cooldown state are persisted ..., so replay
\* protection survives service restarts": what concurrent requests, however often
\* delivered, dropped or cut short by a crash, make of this node is an updater that is
\* launched once for an operation and no sooner than the cooldown after the last
\* launch.  It may be launched again for an operation that was forgotten: one the limit
\* of the history cut off, or one whose note the write of a dropped request
\* overwrote.  A cooldown no longer counts once a launcher that failed has lifted one,
\* be it another's, or such a write has overwritten it.
LaunchesOnce == Ledger!Spec

\* "Nodes reject stale, duplicate, mistargeted, or non-leader update requests", and a
\* restart changes nothing about it: the launcher of an operation starts at most once.
NoReplay == \A o \in Op : launches[o] =< 1

Replayable(o) == launches[o] > 0 /\ clock =< issued[o] + TTL + MaxDelay

\* An operation whose launcher was started is remembered while its request could
\* still be accepted: whatever a request that comes now reads from memory and from
\* the file, and prunes, has the operation in it.  Excepted are the operations that
\* the limit of the history cut off, now or before, and those the write of a dropped
\* request overwrote.
LaunchedIsRemembered ==
  \A o \in Op \ forgotten : Replayable(o) /\ file # Torn =>
    LET merged == Merged(mem, Loaded(file, clock)) IN
    \A g \in Pruned(merged, clock) : Noted(g, o) \/ o \in CutOff(merged, g, clock)

\* What it takes to forget an operation: more operations noted than the history holds,
\* when a request prunes it (UPDATE_OPERATION_HISTORY_LIMIT), or the end of a write
\* whose request was dropped, over the note of an operation that was launched.  No
\* crash, torn file, failed launcher or replay does.
ForgetsForCause ==
  [][forgotten' # forgotten =>
       \/ Cardinality({o \in Op : Noted(mem, o) \/ (file # Torn /\ Noted(file, o))})
            > HistoryLimit
       \/ \E h \in Handler : req[h].stage = "dropped" /\ file' = req[h].write]_vars

\* "Update cooldown state" is persisted: a cooldown that has not run out, and was not
\* lifted by a launcher that failed nor overwritten by the write of a dropped request,
\* meets every request that comes now, also the first after a restart.
CooldownRemembered ==
  until # None /\ until > clock /\ file # Torn =>
    \A g \in Pruned(Merged(mem, Loaded(file, clock)), clock) : Carries(g)
=============================================================================
