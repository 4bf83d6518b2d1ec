------------------------- MODULE UpdateGuardProofs -------------------------
(***************************************************************************)
(* That a node launches its updater once for each operation that it has    *)
(* not forgotten, and no sooner than a cooldown after the last launch, for *)
(* any number of operations, requests at a time, crashes, dropped requests *)
(* and failed writes; and what it takes to forget.                         *)
(***************************************************************************)
EXTENDS UpdateGuard, FiniteSetTheorems, TLAPS

-----------------------------------------------------------------------------
(* The operators on the two copies of the guard.                           *)

LEMMA LaterOfType ==
  ASSUME NEW x \in Time, NEW y \in Time
  PROVE  /\ LaterOf(x, y) \in {x, y}
         /\ LaterOf(x, y) = None <=> x = None /\ y = None
         /\ y # None => LaterOf(x, y) >= y
BY TimeAssumption DEF LaterOf, Time

LEMMA LoadedType ==
  ASSUME NEW G \in Guard, NEW t \in Nat
  PROVE  /\ Loaded(G, t) \in Guard
         /\ \A o \in Op : Loaded(G, t).seen[o] \in {None, G.seen[o]}
         /\ \A o \in Op : Within(G.seen[o], t) => Loaded(G, t).seen[o] = G.seen[o]
<1>1. None \in Time
  BY DEF Time
<1> QED BY <1>1 DEF Loaded, StillBusy, Guard

LEMMA MergedType ==
  ASSUME NEW G \in Guard, NEW H \in Guard
  PROVE  /\ Merged(G, H) \in Guard
         /\ \A o \in Op : Merged(G, H).seen[o] = LaterOf(G.seen[o], H.seen[o])
<1>1. \A x, y \in Time : LaterOf(x, y) \in Time
  BY LaterOfType
<1> QED BY <1>1 DEF Merged, Guard

LEMMA PrunedType ==
  ASSUME NEW G \in Guard, NEW t \in Nat, NEW P \in Pruned(G, t)
  PROVE  /\ P \in Guard
         /\ \A o \in Op : P.seen[o] \in {None, G.seen[o]}
<1>1. None \in Time
  BY DEF Time
<1>2. PICK k \in Kept(G, t) :
        P = [seen |-> [o \in Op |-> IF o \in k THEN G.seen[o] ELSE None],
             busy_until |-> StillBusy(G.busy_until, t)]
  BY DEF Pruned
<1> QED BY <1>1, <1>2 DEF StillBusy, Guard

\* What is in the history window and was not cut off is still there.
LEMMA PrunedKeeps ==
  ASSUME NEW G \in Guard, NEW t \in Nat, NEW P \in Pruned(G, t),
         NEW o \in Op, Within(G.seen[o], t), o \notin CutOff(G, P, t)
  PROVE  P.seen[o] = G.seen[o]
BY PrunedType DEF CutOff

\* Nothing is cut off unless there are more operations than the history holds.
LEMMA CutOffWhenFull ==
  ASSUME NEW G \in Guard, NEW t \in Nat, NEW P \in Pruned(G, t), CutOff(G, P, t) # {}
  PROVE  Cardinality({o \in Op : Noted(G, o)}) > HistoryLimit
<1> DEFINE live == {o \in Op : Within(G.seen[o], t)}
           noted == {o \in Op : Noted(G, o)}
<1>1. live \subseteq noted /\ IsFiniteSet(noted) /\ IsFiniteSet(live)
  <2>1. live \subseteq noted /\ noted \subseteq Op
    BY DEF Within, Noted
  <2> HIDE DEF live, noted
  <2> QED BY <2>1, HistoryAssumption, FS_Subset
<1>2. Cardinality(live) \in Nat /\ Cardinality(noted) \in Nat
      /\ Cardinality(live) =< Cardinality(noted)
  <2> HIDE DEF live, noted
  <2> QED BY <1>1, FS_Subset, FS_CardinalityType
<1>3. CASE Cardinality(live) =< HistoryLimit
  <2>1. Kept(G, t) = {live}
    BY <1>3 DEF Kept
  <2>2. \A o \in live : P.seen[o] = G.seen[o]
    BY <2>1 DEF Pruned
  <2> QED BY <2>2 DEF CutOff, Within
<1>4. CASE Cardinality(live) > HistoryLimit
  <2> HIDE DEF live, noted
  <2> QED BY <1>2, <1>4, HistoryAssumption DEF noted
<1> HIDE DEF live
<1> QED BY <1>2, <1>3, <1>4, HistoryAssumption

-----------------------------------------------------------------------------
(* Type correctness.                                                       *)

LEMMA EmptyGuardType == EmptyGuard \in Guard
BY DEF EmptyGuard, Guard, Time

LEMMA NoRequestType == NoRequest \in Request
BY EmptyGuardType DEF NoRequest, Request, Stage

LEMMA ReservedType ==
  ASSUME NEW G \in Guard, NEW o \in Op, NEW t \in Nat
  PROVE  Reserved(G, o, t) \in Guard
<1>1. t + Cooldown \in Int
  BY TimeAssumption DEF Cooldown
<1> QED BY <1>1 DEF Reserved, Guard, Time

\* What the guard looks like when a request reads it under the mutex.
LEMMA ReadType ==
  ASSUME TypeOK, NEW h \in Handler, file # Torn,
         NEW g \in Pruned(Merged(mem, Loaded(file, req[h].now)), req[h].now)
  PROVE  g \in Guard
BY LoadedType, MergedType, PrunedType DEF TypeOK, Request

LEMMA InitTypeOK == Init => TypeOK
BY EmptyGuardType, NoRequestType, TimeAssumption DEF Init, TypeOK, Time

LEMMA NextTypeOK ==
  ASSUME TypeOK, [Next]_vars,
         \A h \in Handler : req[h].stage \notin {"idle", "dropped"} => req[h].op \in Op
  PROVE  TypeOK'
<1> USE DEF TypeOK, history
<1>1. ASSUME NEW o \in Op, Issue(o) PROVE TypeOK'
  BY <1>1, TimeAssumption DEF Issue, Time
<1>2. ASSUME NEW h \in Handler, NEW o \in Op, Deliver(h, o) PROVE TypeOK'
  <2>1. [NoRequest EXCEPT !.stage = "checked", !.op = o, !.since = clock] \in Request
    BY NoRequestType DEF Request, Stage
  <2> QED BY <1>2, <2>1 DEF Deliver
<1>3. ASSUME NEW h \in Handler, TakeNow(h) PROVE TypeOK'
  <2>1. [req[h] EXCEPT !.stage = "locking", !.now = clock] \in Request
    BY DEF Request, Stage
  <2>2. req' \in [Handler -> Request]
    BY <1>3, <2>1 DEF TakeNow
  <2> QED BY <1>3, <2>2 DEF TakeNow
<1>4. ASSUME NEW h \in Handler, Reserve(h) PROVE TypeOK'
  <2>1. PICK g \in Pruned(Merged(mem, Loaded(file, req[h].now)), req[h].now) :
          /\ forgotten' = forgotten \cup
               CutOff(Merged(mem, Loaded(file, req[h].now)), g, req[h].now)
          /\ \/ /\ mem' = g
                /\ req' = [req EXCEPT ![h] = NoRequest]
             \/ /\ mem' = Reserved(g, req[h].op, req[h].now)
                /\ req' = [req EXCEPT ![h].stage = "saving", ![h].write = mem']
    BY <1>4 DEF Reserve
  <2>2. g \in Guard
    BY <1>4, ReadType DEF Reserve
  <2>3. req[h].op \in Op /\ req[h].now \in Nat
    BY <1>4 DEF Reserve, Request
  <2>4. mem' \in Guard
    BY <2>1, <2>2, <2>3, ReservedType
  <2>5. req' \in [Handler -> Request]
    BY <2>1, <2>4, NoRequestType DEF Request, Stage
  <2>6. forgotten' \subseteq Op
    BY <2>1 DEF CutOff
  <2> QED BY <1>4, <2>4, <2>5, <2>6 DEF Reserve
<1>5. ASSUME NEW h \in Handler, LoadFails(h) PROVE TypeOK'
  BY <1>5, NoRequestType DEF LoadFails
<1>6. ASSUME NEW h \in Handler, Truncate(h) PROVE TypeOK'
  BY <1>6 DEF Truncate
<1>7. ASSUME NEW h \in Handler, SaveEnds(h) PROVE TypeOK'
  <2>1. file' \in Guard
    BY <1>7 DEF SaveEnds, Request
  <2>2. req' \in [Handler -> Request]
    BY <1>7, NoRequestType, EmptyGuardType DEF SaveEnds, Request, Stage
  <2>3. launches' \in [Op -> Nat] /\ forgotten' \subseteq Op
    BY <1>7 DEF SaveEnds, Overwritten
  <2>4. until' \in Time
    BY <1>7 DEF SaveEnds, Request, Guard, Time
  <2> QED BY <1>7, <2>1, <2>2, <2>3, <2>4 DEF SaveEnds
<1>8. ASSUME NEW h \in Handler, SaveFails(h) \/ LauncherEnds(h) PROVE TypeOK'
  BY <1>8, NoRequestType DEF SaveFails, LauncherEnds
<1>9. ASSUME NEW h \in Handler, LauncherFails(h) PROVE TypeOK'
  <2>1. [req[h] EXCEPT !.stage = "failed", !.since = clock] \in Request
    BY DEF Request, Stage
  <2>2. req' \in [Handler -> Request]
    BY <1>9, <2>1 DEF LauncherFails
  <2> QED BY <1>9, <2>2 DEF LauncherFails
<1>10. ASSUME NEW h \in Handler, ClearBusy(h) PROVE TypeOK'
  <2>1. mem' \in Guard
    BY <1>10 DEF ClearBusy, Guard, Time
  <2>2. [req[h] EXCEPT !.stage = "clearing", !.write = mem'] \in Request
    BY <2>1 DEF Request, Stage
  <2>3. req' \in [Handler -> Request]
    BY <1>10, <2>2 DEF ClearBusy
  <2> QED BY <1>10, <2>1, <2>3 DEF ClearBusy, Time
<1>11. ASSUME NEW h \in Handler, Disconnect(h) PROVE TypeOK'
  <2>1. [NoRequest EXCEPT !.stage = "dropped", !.write = req[h].write] \in Request
    BY NoRequestType DEF Request, Stage
  <2>2. req' \in [Handler -> Request]
    BY <1>11, <2>1, NoRequestType DEF Disconnect
  <2> QED BY <1>11, <2>2 DEF Disconnect
<1>12. CASE Crash
  BY <1>12, EmptyGuardType, NoRequestType DEF Crash
<1>13. CASE Tick
  BY <1>13 DEF Tick
<1>14. CASE UNCHANGED vars
  BY <1>14 DEF vars
<1> QED
  BY <1>1, <1>2, <1>3, <1>4, <1>5, <1>6, <1>7, <1>8, <1>9, <1>10, <1>11, <1>12,
     <1>13, <1>14 DEF Next, HandlerStep

\* A dropped request is gone but for the write it had begun.
LEMMA Disconnected ==
  ASSUME TypeOK, NEW h \in Handler, Disconnect(h)
  PROVE  /\ \A k \in Handler \ {h} : req'[k] = req[k]
         /\ \/ req'[h].stage = "idle"
            \/ Writing(h) /\ req'[h].stage = "dropped" /\ req'[h].write = req[h].write
<1>1. req' = [req EXCEPT ![h] = IF Writing(h)
                              THEN [NoRequest EXCEPT !.stage = "dropped", !.write = req[h].write]
                              ELSE NoRequest]
  BY DEF Disconnect
<1>2. CASE Writing(h)
  <2>1. req'[h] = [NoRequest EXCEPT !.stage = "dropped", !.write = req[h].write]
    BY <1>1, <1>2 DEF TypeOK
  <2> QED BY <1>1, <1>2, <2>1 DEF TypeOK, NoRequest
<1>3. CASE ~Writing(h)
  BY <1>1, <1>3 DEF TypeOK, NoRequest
<1> QED BY <1>2, <1>3

\* A request that is being handled names an operation that was issued.
OpInv ==
  \A h \in Handler : req[h].stage \notin {"idle", "dropped"} =>
    /\ req[h].op \in Op
    /\ issued[req[h].op] # None

LEMMA OpInvStep == TypeOK /\ OpInv /\ [Next]_vars => OpInv'
<1> SUFFICES ASSUME TypeOK, OpInv, [Next]_vars PROVE OpInv'
  OBVIOUS
<1> USE DEF OpInv, TypeOK
<1>0. NoRequest.stage = "idle"
  BY DEF NoRequest
<1>1. ASSUME NEW o \in Op, Issue(o) PROVE OpInv'
  BY <1>1, TimeAssumption DEF Issue
<1>2. ASSUME NEW h \in Handler, NEW o \in Op, Deliver(h, o) PROVE OpInv'
  BY <1>2 DEF Deliver, NoRequest
<1>3. ASSUME NEW h \in Handler,
             UNCHANGED issued,
             \A k \in Handler \ {h} : req'[k] = req[k],
             \/ req'[h].stage \in {"idle", "dropped"}
             \/ req[h].stage \notin {"idle", "dropped"} /\ req'[h].op = req[h].op
      PROVE  OpInv'
  BY <1>3
<1>4. ASSUME NEW h \in Handler,
             \/ TakeNow(h) \/ Reserve(h) \/ LoadFails(h) \/ SaveEnds(h)
             \/ SaveFails(h) \/ LauncherEnds(h) \/ LauncherFails(h)
             \/ ClearBusy(h) \/ Disconnect(h)
      PROVE  OpInv'
  <2>1. /\ UNCHANGED issued
        /\ \A k \in Handler \ {h} : req'[k] = req[k]
    BY <1>4 DEF TakeNow, Reserve, LoadFails, SaveEnds, SaveFails, LauncherEnds,
       LauncherFails, ClearBusy, Disconnect
  <2>2. \/ req'[h].stage \in {"idle", "dropped"}
        \/ req[h].stage \notin {"idle", "dropped"} /\ req'[h].op = req[h].op
    BY <1>0, <1>4, Disconnected DEF TakeNow, Reserve, LoadFails, SaveEnds, SaveFails,
       LauncherEnds, LauncherFails, ClearBusy, Writing, Request
  <2> QED BY <1>3, <2>1, <2>2
<1>5. CASE Crash
  BY <1>0, <1>5 DEF Crash
<1>6. CASE UNCHANGED <<issued, req>>
  BY <1>6
<1> QED
  BY <1>1, <1>2, <1>4, <1>5, <1>6 DEF Next, HandlerStep, Truncate, Tick, vars

\* Every variable keeps its type.
THEOREM TypeCorrect == Spec => [](TypeOK /\ OpInv)
<1>1. Init => TypeOK /\ OpInv
  BY InitTypeOK DEF Init, OpInv, NoRequest
<1>2. TypeOK /\ OpInv /\ [Next]_vars => (TypeOK /\ OpInv)'
  BY NextTypeOK, OpInvStep DEF OpInv
<1> QED BY <1>1, <1>2, PTL DEF Spec

-----------------------------------------------------------------------------
(* The inductive invariant of what is remembered.                          *)

\* A request that is not yet launched is young: its signature was checked no
\* longer than MaxDelay ago.  One that is saving is the first of its operation, or
\* the operation was forgotten, and it is noted in memory and in the content it writes.
StageInv ==
  \A h \in Handler :
    LET r == req[h] IN
    /\ r.stage \in {"checked", "locking", "saving"} =>
         /\ issued[r.op] - TTL =< r.since
         /\ r.since =< issued[r.op] + TTL
         /\ r.since =< clock
         /\ clock =< r.since + MaxDelay
    /\ r.stage \in {"locking", "saving"} => r.since =< r.now /\ r.now =< clock
    /\ r.stage = "saving" =>
         /\ launches[r.op] = 0 \/ r.op \in forgotten
         /\ Noted(mem, r.op) /\ Noted(r.write, r.op)

MutexInv ==
  \A g, h \in Handler :
    req[g].stage \in {"saving", "clearing"} /\ req[h].stage \in {"saving", "clearing"}
      => g = h

\* A recorded time is one at which the operation's request could be accepted.
Sound(guard) ==
  \A o \in Op : Noted(guard, o) =>
    /\ issued[o] # None
    /\ issued[o] - TTL =< guard.seen[o]
    /\ guard.seen[o] =< clock

SoundInv ==
  /\ Sound(mem)
  /\ file # Torn => Sound(file)
  /\ \A h \in Handler : Writing(h) => Sound(req[h].write)

LaunchInv ==
  \A o \in Op : /\ launches[o] =< 1 \/ o \in forgotten
                /\ launches[o] > 0 => issued[o] # None

\* An operation that could be replayed is in the file, in the content the holder of
\* the mutex writes and, once a request has been reserved since the start, in memory.
\* It need not be in a content that is written for nobody any more.
NotedEverywhere ==
  \A o \in Op \ forgotten : Replayable(o) =>
    /\ file # Torn => Noted(file, o)
    /\ \A h \in Handler : req[h].stage \in {"saving", "clearing"} => Noted(req[h].write, o)
    /\ (\E h \in Handler :
         req[h].stage \in {"saving", "launching", "failed", "clearing", "dropped"})
         => Noted(mem, o)

ReplayInv ==
  StageInv /\ MutexInv /\ SoundInv /\ LaunchInv /\ NotedEverywhere

\* What a request that took t as its now finds under the mutex: every operation that
\* could be replayed, but for those forgotten and those cut off now.
LEMMA ReadRemembers ==
  ASSUME TypeOK, OpInv, ReplayInv, 2 * TTL + MaxDelay =< History,
         NEW t \in Nat, t =< clock, file # Torn,
         NEW g \in Pruned(Merged(mem, Loaded(file, t)), t)
  PROVE  /\ g \in Guard
         /\ Sound(g)
         /\ \A o \in Op : /\ Replayable(o)
                          /\ o \notin forgotten \cup CutOff(Merged(mem, Loaded(file, t)), g, t)
                          => Noted(g, o)
<1> DEFINE L == Loaded(file, t)
           M == Merged(mem, L)
<1>1. t \in Nat /\ t =< clock /\ file \in Guard /\ mem \in Guard
  BY DEF TypeOK
<1>2. L \in Guard /\ M \in Guard
  BY <1>1, LoadedType, MergedType
<1>3. g \in Guard /\ \A o \in Op : g.seen[o] \in {None, M.seen[o]}
  <2> HIDE DEF M, L
  <2> QED BY <1>1, <1>2, PrunedType DEF M, L
<1>4. \A o \in Op : /\ L.seen[o] \in {None, file.seen[o]}
                    /\ Within(file.seen[o], t) => L.seen[o] = file.seen[o]
                    /\ M.seen[o] = LaterOf(mem.seen[o], L.seen[o])
  BY <1>1, <1>2, LoadedType, MergedType
<1>5. \A o \in Op : mem.seen[o] \in Time /\ L.seen[o] \in Time /\ file.seen[o] \in Time
  BY <1>1, <1>2 DEF Guard
<1>6. Sound(g)
  <2>1. ASSUME NEW o \in Op, Noted(g, o)
        PROVE  g.seen[o] \in {mem.seen[o], file.seen[o]}
    <3> HIDE DEF L, M
    <3> QED BY <1>3, <1>4, <1>5, <2>1, LaterOfType DEF Noted
  <2> QED BY <2>1 DEF ReplayInv, SoundInv, Sound, Noted
<1>7. ASSUME NEW o \in Op, Replayable(o), o \notin forgotten, o \notin CutOff(M, g, t)
      PROVE  Noted(g, o)
  <2>1. /\ Noted(file, o)
        /\ issued[o] # None
        /\ issued[o] - TTL =< file.seen[o]
    BY <1>7 DEF ReplayInv, NotedEverywhere, SoundInv, Sound
  <2>2. /\ file.seen[o] \in Int /\ issued[o] \in Int /\ clock \in Nat
        /\ clock =< issued[o] + TTL + MaxDelay
    BY <1>5, <1>7, <2>1 DEF Noted, Time, Replayable, TypeOK
  <2>3. t - file.seen[o] =< History
    BY <1>1, <2>1, <2>2, TimeAssumption
  <2>4. L.seen[o] = file.seen[o]
    BY <1>4, <2>1, <2>3 DEF Within, Noted
  <2>5. M.seen[o] # None /\ M.seen[o] \in Int /\ M.seen[o] >= file.seen[o]
    <3> HIDE DEF L, M
    <3>1. file.seen[o] # None
      BY <2>1 DEF Noted
    <3>2. M.seen[o] = LaterOf(mem.seen[o], file.seen[o])
      BY <1>4, <2>4
    <3>3. M.seen[o] \in Time
      BY <1>5, <3>2, LaterOfType
    <3> QED BY <1>5, <3>1, <3>2, <3>3, LaterOfType DEF Time
  <2>6. Within(M.seen[o], t)
    <3> HIDE DEF M
    <3> QED BY <1>1, <2>2, <2>3, <2>5, TimeAssumption DEF Within
  <2>7. g.seen[o] = M.seen[o]
    <3> HIDE DEF M, L
    <3> QED BY <1>1, <1>2, <1>7, <2>6, PrunedKeeps DEF M, L
  <2> QED BY <2>5, <2>7 DEF Noted
<1> QED BY <1>3, <1>6, <1>7

\* A request that ends, or leaves the stages before the launcher, disturbs nothing.
LEMMA LeavesRequest ==
  ASSUME TypeOK, ReplayInv, NEW h \in Handler,
         UNCHANGED <<clock, issued, mem, file, launches, forgotten>>,
         \A k \in Handler \ {h} : req'[k] = req[k],
         \/ req'[h].stage = "idle"
         \/ req[h].stage = "launching" /\ req'[h].stage = "failed"
         \/ Writing(h) /\ req'[h].stage = "dropped" /\ req'[h].write = req[h].write
  PROVE  ReplayInv'
<1>1. StageInv'
  BY DEF ReplayInv, StageInv, Noted
<1>2. MutexInv'
  BY DEF ReplayInv, MutexInv
<1>3. SoundInv'
  BY DEF ReplayInv, SoundInv, Sound, Noted, Writing
<1>4. LaunchInv'
  BY DEF ReplayInv, LaunchInv
<1>5. NotedEverywhere'
  BY DEF ReplayInv, NotedEverywhere, Replayable, Noted, Writing
<1> QED BY <1>1, <1>2, <1>3, <1>4, <1>5 DEF ReplayInv

LEMMA IssueStep ==
  ASSUME TypeOK, OpInv, ReplayInv, NEW o \in Op, Issue(o)
  PROVE  ReplayInv'
<1>1. /\ issued[o] = None
      /\ \A e \in Op \ {o} : issued'[e] = issued[e]
      /\ UNCHANGED <<clock, mem, file, req, launches, forgotten>>
  BY DEF Issue, TypeOK, history
<1>2. issued'[o] # None
  BY TimeAssumption DEF Issue, TypeOK
<1>3. StageInv'
  BY <1>1 DEF ReplayInv, StageInv, Noted, OpInv
<1>4. MutexInv'
  BY <1>1 DEF ReplayInv, MutexInv
<1>5. SoundInv'
  BY <1>1 DEF ReplayInv, SoundInv, Sound, Noted, Writing
<1>6. LaunchInv'
  BY <1>1 DEF ReplayInv, LaunchInv
<1>7. \A e \in Op : Replayable(e)' => Replayable(e)
  BY <1>1 DEF Replayable, ReplayInv, LaunchInv
<1>8. NotedEverywhere'
  BY <1>1, <1>7 DEF ReplayInv, NotedEverywhere, Noted, Writing
<1> QED BY <1>3, <1>4, <1>5, <1>6, <1>8 DEF ReplayInv

LEMMA DeliverStep ==
  ASSUME TypeOK, OpInv, ReplayInv, NEW h \in Handler, NEW o \in Op, Deliver(h, o)
  PROVE  ReplayInv'
<1>1. /\ req'[h].stage = "checked" /\ req'[h].op = o /\ req'[h].since = clock
      /\ \A k \in Handler \ {h} : req'[k] = req[k]
      /\ UNCHANGED <<clock, issued, mem, file, launches, forgotten>>
  BY DEF Deliver, TypeOK, NoRequest, history
<1>2. issued[o] \in Int /\ clock \in Int
  BY DEF Deliver, TypeOK, Time
<1>3. StageInv'
  BY <1>1, <1>2, TimeAssumption DEF Deliver, ReplayInv, StageInv, Noted
<1>4. MutexInv'
  BY <1>1 DEF ReplayInv, MutexInv
<1>5. SoundInv'
  BY <1>1 DEF ReplayInv, SoundInv, Sound, Noted, Writing
<1>6. LaunchInv'
  BY <1>1 DEF ReplayInv, LaunchInv
<1>7. NotedEverywhere'
  BY <1>1 DEF ReplayInv, NotedEverywhere, Replayable, Noted, Writing
<1> QED BY <1>3, <1>4, <1>5, <1>6, <1>7 DEF ReplayInv

LEMMA TakeNowStep ==
  ASSUME TypeOK, OpInv, ReplayInv, NEW h \in Handler, TakeNow(h)
  PROVE  ReplayInv'
<1>1. /\ req[h].stage = "checked" /\ req'[h].stage = "locking"
      /\ req'[h].op = req[h].op /\ req'[h].since = req[h].since
      /\ req'[h].now = clock
      /\ \A k \in Handler \ {h} : req'[k] = req[k]
      /\ UNCHANGED <<clock, issued, mem, file, launches, forgotten>>
  BY DEF TakeNow, TypeOK, Request, history
<1>2. clock \in Int
  BY DEF TypeOK
<1>3. StageInv'
  BY <1>1, <1>2 DEF ReplayInv, StageInv, Noted
<1>4. MutexInv'
  BY <1>1 DEF ReplayInv, MutexInv
<1>5. SoundInv'
  BY <1>1 DEF ReplayInv, SoundInv, Sound, Noted, Writing
<1>6. LaunchInv'
  BY <1>1 DEF ReplayInv, LaunchInv
<1>7. NotedEverywhere'
  BY <1>1 DEF ReplayInv, NotedEverywhere, Replayable, Noted, Writing
<1> QED BY <1>3, <1>4, <1>5, <1>6, <1>7 DEF ReplayInv

\* The step the horizon is for: an operation that is reserved was not launched, for
\* a launched one would still be replayable and so be found under the mutex.
LEMMA ReserveStep ==
  ASSUME TypeOK, OpInv, ReplayInv, 2 * TTL + MaxDelay =< History,
         NEW h \in Handler, Reserve(h)
  PROVE  ReplayInv'
<1> DEFINE r == req[h]
           merged == Merged(mem, Loaded(file, r.now))
<1>1. PICK g \in Pruned(merged, r.now) :
        /\ forgotten' = forgotten \cup CutOff(merged, g, r.now)
        /\ IF g.seen[r.op] # None \/ g.busy_until # None
           THEN /\ mem' = g
                /\ req' = [req EXCEPT ![h] = NoRequest]
           ELSE /\ mem' = Reserved(g, r.op, r.now)
                /\ req' = [req EXCEPT ![h].stage = "saving", ![h].write = mem']
  BY DEF Reserve
<1>2. /\ r.stage = "locking" /\ ~Locked /\ file # Torn
      /\ UNCHANGED <<clock, issued, file, launches>>
  BY DEF Reserve
<1>3. /\ r.op \in Op /\ issued[r.op] \in Int
      /\ r.since \in Nat /\ r.now \in Nat /\ clock \in Nat
      /\ issued[r.op] - TTL =< r.since /\ r.since =< issued[r.op] + TTL
      /\ clock =< r.since + MaxDelay
      /\ r.since =< r.now /\ r.now =< clock
  BY <1>2 DEF OpInv, ReplayInv, StageInv, TypeOK, Time, Request
<1>4. /\ g \in Guard
      /\ Sound(g)
      /\ \A o \in Op \ forgotten' : Replayable(o) => Noted(g, o)
  BY <1>1, <1>2, <1>3, ReadRemembers
<1>5. \A k \in Handler : k # h => req'[k] = req[k]
  BY <1>1 DEF TypeOK
<1>6. \A k \in Handler : ~(req[k].stage \in {"saving", "clearing"})
  BY <1>2 DEF Locked
<1>7. forgotten \subseteq forgotten'
  BY <1>1
<1>8. LaunchInv'
  BY <1>2, <1>7 DEF ReplayInv, LaunchInv
<1>9. \A o \in Op : Replayable(o)' <=> Replayable(o)
  BY <1>2 DEF Replayable
<1>10. \A o \in Op \ forgotten' : Replayable(o)' /\ file # Torn => Noted(file, o)
  BY <1>7, <1>9 DEF ReplayInv, NotedEverywhere
<1>11. CASE g.seen[r.op] # None \/ g.busy_until # None
  <2>1. mem' = g /\ req'[h].stage = "idle"
    BY <1>1, <1>11 DEF NoRequest, TypeOK
  <2>2. StageInv'
    BY <1>2, <1>5, <1>6, <2>1 DEF ReplayInv, StageInv, Noted
  <2>3. MutexInv'
    BY <1>5, <1>6, <2>1 DEF MutexInv
  <2>4. SoundInv'
    BY <1>2, <1>4, <1>5, <2>1 DEF ReplayInv, SoundInv, Sound, Noted, Writing
  <2>5. NotedEverywhere'
    BY <1>2, <1>4, <1>5, <1>6, <1>9, <1>10, <2>1 DEF NotedEverywhere, Noted
  <2> QED BY <1>8, <2>2, <2>3, <2>4, <2>5 DEF ReplayInv
<1>12. CASE ~(g.seen[r.op] # None \/ g.busy_until # None)
  <2>1. /\ mem' = Reserved(g, r.op, r.now)
        /\ req'[h].stage = "saving" /\ req'[h].write = mem'
        /\ req'[h].op = r.op /\ req'[h].since = r.since /\ req'[h].now = r.now
    BY <1>1, <1>12 DEF TypeOK, Request
  <2>2. launches[r.op] = 0 \/ r.op \in forgotten'
    <3>1. Replayable(r.op) => r.op \in forgotten'
      BY <1>4, <1>3, <1>12 DEF Noted
    <3>2. clock =< issued[r.op] + TTL + MaxDelay
      BY <1>3, TimeAssumption
    <3> QED BY <1>3, <3>1, <3>2 DEF Replayable, TypeOK
  <2>3. /\ mem'.seen[r.op] = r.now
        /\ \A o \in Op : o # r.op => mem'.seen[o] = g.seen[o]
    BY <1>4, <1>3, <2>1 DEF Reserved, Guard
  <2>4. r.now # None
    BY <1>3, TimeAssumption
  <2>5. StageInv'
    BY <1>2, <1>3, <1>5, <1>6, <2>1, <2>2, <2>3, <2>4 DEF ReplayInv, StageInv, Noted
  <2>6. MutexInv'
    BY <1>5, <1>6, <2>1 DEF MutexInv
  <2>7. Sound(mem)'
    <3>1. issued[r.op] - TTL =< r.now
      BY <1>3, TimeAssumption
    <3> QED BY <1>2, <1>4, <1>3, <2>3, <3>1, TimeAssumption DEF Sound, Noted
  <2>8. SoundInv'
    BY <1>2, <1>5, <2>1, <2>7 DEF ReplayInv, SoundInv, Sound, Noted, Writing
  <2>9. \A o \in Op \ forgotten' : Replayable(o) => mem'.seen[o] # None
    BY <1>4, <2>3, <2>4 DEF Noted
  <2>10. NotedEverywhere'
    BY <1>2, <1>5, <1>6, <1>9, <1>10, <2>1, <2>9 DEF NotedEverywhere, Noted
  <2> QED BY <1>8, <2>5, <2>6, <2>8, <2>10 DEF ReplayInv
<1> QED BY <1>11, <1>12

LEMMA TruncateStep ==
  ASSUME TypeOK, OpInv, ReplayInv, NEW h \in Handler, Truncate(h)
  PROVE  ReplayInv'
<1>1. file' = Torn /\ UNCHANGED <<clock, issued, mem, req, launches, forgotten>>
  BY DEF Truncate, history
<1>2. StageInv' /\ MutexInv' /\ LaunchInv'
  BY <1>1 DEF ReplayInv, StageInv, MutexInv, LaunchInv, Noted
<1>3. SoundInv'
  BY <1>1 DEF ReplayInv, SoundInv, Sound, Noted, Writing
<1>4. NotedEverywhere'
  BY <1>1 DEF ReplayInv, NotedEverywhere, Replayable, Noted, Writing
<1> QED BY <1>2, <1>3, <1>4 DEF ReplayInv

\* The launch: the content that reaches the file notes the operation and every other
\* one that could be replayed, and no other request holds the mutex.
LEMMA SaveLaunchStep ==
  ASSUME TypeOK, OpInv, ReplayInv, NEW h \in Handler, SaveEnds(h), req[h].stage = "saving"
  PROVE  ReplayInv'
<1> DEFINE r == req[h]
<1>1. /\ file' = r.write
      /\ UNCHANGED <<clock, issued, mem, forgotten>>
      /\ \A k \in Handler : k # h => req'[k] = req[k]
  BY DEF SaveEnds, TypeOK
<1>2. \A k \in Handler : k # h => req[k].stage \notin {"saving", "clearing"}
  BY DEF ReplayInv, MutexInv
<1>3. Sound(r.write)
  BY DEF ReplayInv, SoundInv, Writing
<1>4. \A o \in Op \ forgotten : Replayable(o) => Noted(r.write, o) /\ Noted(mem, o)
  BY DEF ReplayInv, NotedEverywhere
<1>5. /\ req'[h].stage = "launching"
      /\ launches' = [launches EXCEPT ![r.op] = @ + 1]
  BY DEF SaveEnds, TypeOK, Request
<1>6. /\ r.op \in Op /\ issued[r.op] # None
      /\ launches[r.op] = 0 \/ r.op \in forgotten
      /\ Noted(mem, r.op) /\ Noted(r.write, r.op)
  BY DEF OpInv, ReplayInv, StageInv
<1>7. /\ launches'[r.op] = 1 \/ r.op \in forgotten
      /\ \A o \in Op : o # r.op => launches'[o] = launches[o]
  BY <1>5, <1>6 DEF TypeOK
<1>8. \A k \in Handler : req'[k].stage \notin {"saving", "clearing"}
  BY <1>1, <1>2, <1>5
<1>9. StageInv'
  BY <1>1, <1>5, <1>8 DEF ReplayInv, StageInv, Noted
<1>10. MutexInv'
  BY <1>8 DEF MutexInv
<1>11. SoundInv'
  BY <1>1, <1>3, <1>5 DEF ReplayInv, SoundInv, Sound, Noted, Writing
<1>12. LaunchInv'
  BY <1>1, <1>6, <1>7 DEF ReplayInv, LaunchInv
<1>13. \A o \in Op : Replayable(o)' => o = r.op \/ Replayable(o)
  BY <1>1, <1>7 DEF Replayable
<1>14. NotedEverywhere'
  BY <1>1, <1>4, <1>6, <1>8, <1>13 DEF NotedEverywhere, Noted
<1> QED BY <1>9, <1>10, <1>11, <1>12, <1>14 DEF ReplayInv

\* The end of a failed launcher's save.
LEMMA SaveClearStep ==
  ASSUME TypeOK, OpInv, ReplayInv, NEW h \in Handler, SaveEnds(h), req[h].stage = "clearing"
  PROVE  ReplayInv'
<1> DEFINE r == req[h]
<1>1. /\ file' = r.write
      /\ UNCHANGED <<clock, issued, mem, launches, forgotten>>
      /\ req'[h].stage = "idle"
      /\ \A k \in Handler : k # h => req'[k] = req[k]
  BY DEF SaveEnds, TypeOK, NoRequest, history
<1>2. \A k \in Handler : k # h => req[k].stage \notin {"saving", "clearing"}
  BY DEF ReplayInv, MutexInv
<1>3. Sound(r.write)
  BY DEF ReplayInv, SoundInv, Writing
<1>4. \A o \in Op \ forgotten : Replayable(o) => Noted(r.write, o) /\ Noted(mem, o)
  BY DEF ReplayInv, NotedEverywhere
<1>5. StageInv'
  BY <1>1 DEF ReplayInv, StageInv, Noted
<1>6. MutexInv'
  BY <1>1, <1>2 DEF MutexInv
<1>7. SoundInv'
  BY <1>1, <1>3 DEF ReplayInv, SoundInv, Sound, Noted, Writing
<1>8. LaunchInv'
  BY <1>1 DEF ReplayInv, LaunchInv
<1>9. NotedEverywhere'
  BY <1>1, <1>2, <1>4 DEF NotedEverywhere, Replayable, Noted
<1> QED BY <1>5, <1>6, <1>7, <1>8, <1>9 DEF ReplayInv

\* The end of a write that nobody waits for: what it leaves out is forgotten.
LEMMA SaveLateStep ==
  ASSUME TypeOK, OpInv, ReplayInv, NEW h \in Handler, SaveEnds(h), req[h].stage = "dropped"
  PROVE  ReplayInv'
<1> DEFINE r == req[h]
<1>1. /\ file' = r.write
      /\ UNCHANGED <<clock, issued, mem, launches>>
      /\ forgotten' = forgotten \cup Overwritten(h)
      /\ req'[h].stage = "idle"
      /\ \A k \in Handler : k # h => req'[k] = req[k]
  BY DEF SaveEnds, TypeOK, NoRequest
<1>2. Sound(r.write)
  BY DEF ReplayInv, SoundInv, Writing
<1>3. \A o \in Op \ forgotten : Replayable(o) => Noted(mem, o)
  BY DEF ReplayInv, NotedEverywhere
<1>4. \A o \in Op \ forgotten' : Replayable(o) => Noted(r.write, o)
  BY <1>1, <1>3 DEF Overwritten, Replayable
<1>5. StageInv'
  BY <1>1 DEF ReplayInv, StageInv, Noted
<1>6. MutexInv'
  BY <1>1 DEF ReplayInv, MutexInv
<1>7. SoundInv'
  BY <1>1, <1>2 DEF ReplayInv, SoundInv, Sound, Noted, Writing
<1>8. LaunchInv'
  BY <1>1 DEF ReplayInv, LaunchInv
<1>9. NotedEverywhere'
  BY <1>1, <1>3, <1>4 DEF ReplayInv, NotedEverywhere, Replayable, Noted
<1> QED BY <1>5, <1>6, <1>7, <1>8, <1>9 DEF ReplayInv

LEMMA SaveEndsStep ==
  ASSUME TypeOK, OpInv, ReplayInv, NEW h \in Handler, SaveEnds(h)
  PROVE  ReplayInv'
BY SaveLaunchStep, SaveClearStep, SaveLateStep DEF SaveEnds, Writing

LEMMA ClearBusyStep ==
  ASSUME TypeOK, OpInv, ReplayInv, NEW h \in Handler, ClearBusy(h)
  PROVE  ReplayInv'
<1>1. /\ req[h].stage = "failed" /\ ~Locked
      /\ mem'.seen = mem.seen
      /\ req'[h].stage = "clearing" /\ req'[h].write = mem'
      /\ UNCHANGED <<clock, issued, file, launches, forgotten>>
      /\ \A k \in Handler : k # h => req'[k] = req[k]
  BY DEF ClearBusy, TypeOK, Request, Guard
<1>2. StageInv'
  BY <1>1 DEF ReplayInv, StageInv, Noted
<1>3. MutexInv'
  BY <1>1 DEF Locked, MutexInv
<1>4. SoundInv'
  BY <1>1 DEF ReplayInv, SoundInv, Sound, Noted, Writing
<1>5. LaunchInv'
  BY <1>1 DEF ReplayInv, LaunchInv
<1>6. NotedEverywhere'
  BY <1>1 DEF ReplayInv, NotedEverywhere, Replayable, Noted, Writing
<1> QED BY <1>2, <1>3, <1>4, <1>5, <1>6 DEF ReplayInv

LEMMA CrashStep ==
  ASSUME TypeOK, OpInv, ReplayInv, Crash
  PROVE  ReplayInv'
<1>1. /\ mem' = EmptyGuard
      /\ \A k \in Handler : req'[k].stage = "idle"
      /\ UNCHANGED <<clock, issued, file, launches, forgotten>>
  BY DEF Crash, NoRequest, history
<1>2. StageInv' /\ MutexInv'
  BY <1>1 DEF StageInv, MutexInv
<1>3. SoundInv'
  BY <1>1 DEF ReplayInv, SoundInv, Sound, Noted, Writing, EmptyGuard
<1>4. LaunchInv'
  BY <1>1 DEF ReplayInv, LaunchInv
<1>5. NotedEverywhere'
  BY <1>1 DEF ReplayInv, NotedEverywhere, Replayable, Noted, Writing
<1> QED BY <1>2, <1>3, <1>4, <1>5 DEF ReplayInv

LEMMA TickStep ==
  ASSUME TypeOK, OpInv, ReplayInv, Tick
  PROVE  ReplayInv'
<1>1. /\ clock' = clock + 1 /\ clock \in Nat
      /\ UNCHANGED <<issued, mem, file, req, launches, forgotten>>
      /\ \A h \in Handler : clock < Deadline(req[h])
  BY DEF Tick, TypeOK, history
<1>2. ASSUME NEW h \in Handler, req[h].stage \in {"checked", "locking", "saving"}
      PROVE  clock + 1 =< req[h].since + MaxDelay
  <2>1. Deadline(req[h]) = req[h].since + MaxDelay
    BY <1>2 DEF Deadline
  <2> QED BY <1>1, <2>1, TimeAssumption DEF TypeOK, Request
<1>3. StageInv'
  <2>1. \A h \in Handler : req[h].since \in Nat /\ req[h].now \in Nat
    BY DEF TypeOK, Request
  <2> QED BY <1>1, <1>2, <2>1 DEF ReplayInv, StageInv, Noted
<1>4. MutexInv' /\ LaunchInv'
  BY <1>1 DEF ReplayInv, MutexInv, LaunchInv
<1>5. ASSUME NEW G \in Guard, Sound(G) PROVE Sound(G)'
  BY <1>1, <1>5 DEF Sound, Noted, Guard, Time
<1>6. SoundInv'
  <2>1. Sound(mem)'
    BY <1>1, <1>5 DEF ReplayInv, SoundInv, TypeOK, Sound, Noted
  <2>2. file' # Torn => Sound(file)'
    BY <1>1, <1>5 DEF ReplayInv, SoundInv, TypeOK, Sound, Noted
  <2>3. \A h \in Handler : Writing(h)' => Sound(req[h].write)'
    BY <1>1, <1>5 DEF ReplayInv, SoundInv, TypeOK, Request, Writing, Sound, Noted
  <2> QED BY <2>1, <2>2, <2>3 DEF SoundInv
<1>7. \A o \in Op : Replayable(o)' => Replayable(o)
  BY <1>1, TimeAssumption DEF Replayable, TypeOK, Time, ReplayInv, LaunchInv
<1>8. NotedEverywhere'
  BY <1>1, <1>7 DEF ReplayInv, NotedEverywhere, Noted, Writing
<1> QED BY <1>3, <1>4, <1>6, <1>8 DEF ReplayInv

LEMMA ReplayInvStep ==
  ASSUME TypeOK, OpInv, ReplayInv, [Next]_vars, 2 * TTL + MaxDelay =< History
  PROVE  ReplayInv'
<1>1. ASSUME NEW h \in Handler,
             \/ LoadFails(h) \/ SaveFails(h) \/ LauncherEnds(h) \/ LauncherFails(h)
             \/ Disconnect(h)
      PROVE  ReplayInv'
  <2>1. /\ UNCHANGED <<clock, issued, mem, file, launches, forgotten>>
        /\ \A k \in Handler \ {h} : req'[k] = req[k]
    BY <1>1 DEF LoadFails, SaveFails, LauncherEnds, LauncherFails, Disconnect, TypeOK, history
  <2>2. \/ req'[h].stage = "idle"
        \/ req[h].stage = "launching" /\ req'[h].stage = "failed"
        \/ Writing(h) /\ req'[h].stage = "dropped" /\ req'[h].write = req[h].write
    BY <1>1, Disconnected DEF LoadFails, SaveFails, LauncherEnds, LauncherFails, TypeOK,
       Request, NoRequest
  <2> QED BY <2>1, <2>2, LeavesRequest
<1>2. CASE UNCHANGED vars
  <2>1. UNCHANGED <<clock, issued, mem, file, req, launches, forgotten>>
    BY <1>2 DEF vars, history
  <2> QED BY <2>1 DEF ReplayInv, StageInv, MutexInv, SoundInv, LaunchInv,
             NotedEverywhere, Replayable, Sound, Noted, Writing
<1> QED
  BY <1>1, <1>2, IssueStep, DeliverStep, TakeNowStep, ReserveStep, TruncateStep,
     SaveEndsStep, ClearBusyStep, CrashStep, TickStep DEF Next, HandlerStep

LEMMA ReplayInvariant ==
  ASSUME 2 * TTL + MaxDelay =< History
  PROVE  Spec => [](TypeOK /\ OpInv /\ ReplayInv)
<1>1. Init => ReplayInv
  BY TimeAssumption
  DEF Init, ReplayInv, StageInv, MutexInv, SoundInv, Sound, LaunchInv,
      NotedEverywhere, Replayable, Noted, Writing, NoRequest, EmptyGuard
<1>2. (TypeOK /\ OpInv) /\ ReplayInv /\ [Next]_vars => ReplayInv'
  BY ReplayInvStep
<1> QED BY <1>1, <1>2, TypeCorrect, PTL DEF Spec

\* Whatever a request reads while the request of a launched operation could still be
\* accepted has that operation in it, unless it was forgotten; through any crashes,
\* dropped requests and failed writes.  The code's history of 900 s outlives every copy
\* of a request, which is valid for 300 s before and after it was issued, as long as a
\* request is through within 300 s of its check.
THEOREM AlwaysRemembered ==
  ASSUME 2 * TTL + MaxDelay =< History
  PROVE  Spec => []LaunchedIsRemembered
<1>1. (TypeOK /\ OpInv /\ ReplayInv) => LaunchedIsRemembered
  <2> SUFFICES ASSUME TypeOK, OpInv, ReplayInv PROVE LaunchedIsRemembered
    OBVIOUS
  <2>1. clock \in Nat /\ clock =< clock
    BY DEF TypeOK
  <2> QED BY <2>1, ReadRemembers DEF LaunchedIsRemembered
<1> QED BY <1>1, ReplayInvariant, PTL

\* An operation is forgotten only when more operations are noted than the history
\* holds, or under the write of a request that was dropped.
THEOREM ForgottenForCause == Spec => ForgetsForCause
<1> DEFINE noted == {o \in Op : Noted(mem, o) \/ (file # Torn /\ Noted(file, o))}
           Step == forgotten' # forgotten =>
                     \/ Cardinality(noted) > HistoryLimit
                     \/ \E h \in Handler : req[h].stage = "dropped" /\ file' = req[h].write
<1>1. TypeOK /\ OpInv /\ [Next]_vars => [Step]_vars
  <2> SUFFICES ASSUME TypeOK, OpInv, Next, forgotten' # forgotten
               PROVE  \/ Cardinality(noted) > HistoryLimit
                      \/ \E h \in Handler : req[h].stage = "dropped" /\ file' = req[h].write
    BY DEF vars
  <2>1. ASSUME NEW h \in Handler, Reserve(h) PROVE Cardinality(noted) > HistoryLimit
    <3> DEFINE t == req[h].now
               L == Loaded(file, t)
               merged == Merged(mem, L)
               kept == {o \in Op : Noted(merged, o)}
    <3>1. PICK g \in Pruned(merged, t) : forgotten' = forgotten \cup CutOff(merged, g, t)
      BY <2>1 DEF Reserve
    <3>2. file # Torn /\ file \in Guard /\ mem \in Guard /\ t \in Nat
      BY <2>1 DEF Reserve, TypeOK, Request
    <3>3. L \in Guard /\ merged \in Guard
      BY <3>2, LoadedType, MergedType
    <3>4. CutOff(merged, g, t) # {}
      BY <3>1
    <3>5. Cardinality(kept) > HistoryLimit
      <4> HIDE DEF merged, t
      <4> QED BY <3>2, <3>3, <3>4, CutOffWhenFull
    <3>6. kept \subseteq noted
      <4>1. ASSUME NEW o \in Op, Noted(merged, o) PROVE Noted(mem, o) \/ Noted(file, o)
        <5>1. merged.seen[o] = LaterOf(mem.seen[o], L.seen[o])
          BY <3>2, <3>3, MergedType
        <5>2. L.seen[o] \in {None, file.seen[o]}
          BY <3>2, LoadedType
        <5>3. mem.seen[o] \in Time /\ L.seen[o] \in Time
          BY <3>2, <3>3 DEF Guard
        <5> HIDE DEF merged, L
        <5> QED BY <4>1, <5>1, <5>2, <5>3, LaterOfType DEF Noted
      <4> HIDE DEF merged
      <4> QED BY <3>2, <4>1
    <3>7. IsFiniteSet(noted)
      BY HistoryAssumption, FS_Subset
    <3>8. /\ Cardinality(kept) \in Nat /\ Cardinality(noted) \in Nat
          /\ Cardinality(kept) =< Cardinality(noted)
      <4> HIDE DEF kept, noted
      <4> QED BY <3>6, <3>7, FS_Subset, FS_CardinalityType
    <3> HIDE DEF kept, noted
    <3> QED BY <3>5, <3>8, HistoryAssumption
  <2>2. ASSUME NEW h \in Handler, SaveEnds(h)
        PROVE  req[h].stage = "dropped" /\ file' = req[h].write
    BY <2>2 DEF SaveEnds, Writing, history
  <2>3. CASE UNCHANGED forgotten
    BY <2>3
  <2> HIDE DEF noted
  <2> QED
    BY <2>1, <2>2, <2>3 DEF Next, HandlerStep, Issue, Deliver, TakeNow, LoadFails, Truncate,
       SaveFails, LauncherEnds, LauncherFails, ClearBusy, Disconnect, Crash, Tick, history
<1> QED BY <1>1, TypeCorrect, PTL DEF Spec, ForgetsForCause

-----------------------------------------------------------------------------
(* The cooldown.                                                           *)

\* The file carries the cooldown, whatever memory knows of it; a request that is
\* saving its reservation took its now when the cooldown had run out; one that is
\* saving what it lifted has lifted it.
UntilInv ==
  /\ file # Torn /\ until # None => Carries(file)
  /\ \A h \in Handler : req[h].stage = "saving" =>
       /\ req[h].write.busy_until = req[h].now + Cooldown
       /\ until # None => until =< req[h].now
  /\ \A h \in Handler : req[h].stage = "clearing" => until = None

LEMMA CooldownType == Cooldown \in Nat
BY TimeAssumption DEF Cooldown

\* What a request that took t as its now finds under the mutex: a cooldown that has not
\* run out.
LEMMA ReadBusy ==
  ASSUME TypeOK, UntilInv, NEW t \in Nat, file # Torn, until # None, until > t,
         NEW g \in Pruned(Merged(mem, Loaded(file, t)), t)
  PROVE  Carries(g)
<1> DEFINE L == Loaded(file, t)
           M == Merged(mem, L)
<1>1. file \in Guard /\ mem.busy_until \in Time /\ until \in Int
  BY DEF TypeOK, Guard, Time
<1>2. file.busy_until \in Int /\ file.busy_until >= until
  BY <1>1 DEF UntilInv, Carries, Guard, Time
<1>3. L.busy_until = file.busy_until
  BY <1>1, <1>2, TimeAssumption DEF Loaded, StillBusy
<1>4. M.busy_until = LaterOf(mem.busy_until, L.busy_until)
  BY DEF Merged
<1>5. M.busy_until \in Int /\ M.busy_until >= until
  <2> HIDE DEF L, M
  <2> QED BY <1>1, <1>2, <1>3, <1>4, TimeAssumption DEF LaterOf, Time
<1>6. g.busy_until = StillBusy(M.busy_until, t)
  <2> HIDE DEF M
  <2> QED BY DEF Pruned, M
<1> HIDE DEF M
<1> QED BY <1>1, <1>5, <1>6, TimeAssumption DEF StillBusy, Carries

LEMMA ReserveUntil ==
  ASSUME TypeOK, OpInv, UntilInv, NEW h \in Handler, Reserve(h)
  PROVE  UntilInv'
<1> DEFINE r == req[h]
<1>1. PICK g \in Pruned(Merged(mem, Loaded(file, r.now)), r.now) :
        IF g.seen[r.op] # None \/ g.busy_until # None
        THEN req' = [req EXCEPT ![h] = NoRequest]
        ELSE /\ mem' = Reserved(g, r.op, r.now)
             /\ req' = [req EXCEPT ![h].stage = "saving", ![h].write = mem']
  BY DEF Reserve
<1>2. file # Torn /\ UNCHANGED <<file, until>> /\ r.now \in Nat
  BY DEF Reserve, TypeOK, Request
<1>3. \A k \in Handler : k # h => req'[k] = req[k]
  BY <1>1 DEF TypeOK
<1>4. CASE g.seen[r.op] # None \/ g.busy_until # None
  <2>1. req'[h].stage = "idle"
    BY <1>1, <1>4 DEF NoRequest, TypeOK
  <2> QED BY <1>2, <1>3, <2>1 DEF UntilInv, Carries
<1>5. CASE ~(g.seen[r.op] # None \/ g.busy_until # None)
  <2>1. req'[h].write = Reserved(g, r.op, r.now) /\ req'[h].now = r.now
    BY <1>1, <1>5 DEF TypeOK, Request
  <2>2. req'[h].write.busy_until = req'[h].now + Cooldown
    BY <2>1 DEF Reserved
  <2>3. until # None => until =< r.now
    BY <1>2, <1>5, ReadBusy DEF Carries, TypeOK, Time
  <2>4. \A k \in Handler : req'[k].stage = "clearing" => k # h /\ req'[k] = req[k]
    BY <1>1, <1>3, <1>5 DEF TypeOK, Request
  <2> QED BY <1>2, <1>3, <2>1, <2>2, <2>3, <2>4 DEF UntilInv, Carries
<1> QED BY <1>4, <1>5

LEMMA SaveEndsUntil ==
  ASSUME TypeOK, UntilInv, MutexInv, NEW h \in Handler, SaveEnds(h)
  PROVE  UntilInv'
<1>1. file' = req[h].write /\ \A k \in Handler : k # h => req'[k] = req[k]
  BY DEF SaveEnds, TypeOK
<1>2. CASE req[h].stage = "saving"
  <2>1. until' = req[h].write.busy_until /\ req'[h].stage = "launching"
    BY <1>2 DEF SaveEnds, TypeOK, Request
  <2>2. \A k \in Handler : req'[k].stage \notin {"saving", "clearing"}
    BY <1>1, <1>2, <2>1 DEF MutexInv
  <2>3. until' \in Int
    BY <1>2, <2>1, CooldownType DEF UntilInv, TypeOK, Request
  <2> QED BY <1>1, <2>1, <2>2, <2>3, TimeAssumption DEF UntilInv, Carries
<1>3. CASE req[h].stage = "clearing"
  <2>1. until' = until /\ req'[h].stage = "idle"
    BY <1>3 DEF SaveEnds, TypeOK, NoRequest, history
  <2> QED BY <1>1, <1>3, <2>1 DEF UntilInv, Carries
<1>4. CASE req[h].stage = "dropped"
  <2>1. /\ until' = IF until # None /\ Carries(req[h].write) THEN until ELSE None
        /\ req'[h].stage = "idle"
    BY <1>4 DEF SaveEnds, TypeOK, NoRequest
  <2>2. \A k \in Handler : req'[k].stage \in {"saving", "clearing"} =>
          req'[k] = req[k]
    BY <1>1, <2>1
  <2> QED BY <1>1, <2>1, <2>2 DEF UntilInv, Carries
<1> QED BY <1>2, <1>3, <1>4 DEF SaveEnds, Writing

LEMMA UntilInvStep ==
  ASSUME TypeOK, OpInv, MutexInv, UntilInv, [Next]_vars
  PROVE  UntilInv'
<1>1. ASSUME UNCHANGED <<file, until>> \/ (file' = Torn /\ until' = until),
             \A h \in Handler : req'[h].stage \in {"saving", "clearing"} => req'[h] = req[h]
      PROVE  UntilInv'
  BY <1>1 DEF UntilInv, Carries
<1>2. ASSUME NEW h \in Handler,
             \/ \E o \in Op : Deliver(h, o)
             \/ TakeNow(h) \/ LoadFails(h) \/ SaveFails(h) \/ LauncherEnds(h)
             \/ LauncherFails(h) \/ Disconnect(h)
      PROVE  UntilInv'
  <2>1. /\ UNCHANGED <<file, until>>
        /\ \A k \in Handler \ {h} : req'[k] = req[k]
    BY <1>2 DEF Deliver, TakeNow, LoadFails, SaveFails, LauncherEnds, LauncherFails,
       Disconnect, TypeOK, history
  <2>2. req'[h].stage \notin {"saving", "clearing"}
    <3>1. ASSUME NEW o \in Op, Deliver(h, o) PROVE req'[h].stage = "checked"
      BY <3>1 DEF Deliver, TypeOK, NoRequest
    <3>2. CASE TakeNow(h) \/ LoadFails(h) \/ SaveFails(h) \/ LauncherEnds(h) \/ LauncherFails(h)
      BY <3>2 DEF TakeNow, LoadFails, SaveFails, LauncherEnds, LauncherFails, TypeOK,
         Request, NoRequest
    <3> QED BY <1>2, <3>1, <3>2, Disconnected
  <2> QED BY <1>1, <2>1, <2>2
<1>3. ASSUME NEW h \in Handler, ClearBusy(h) PROVE UntilInv'
  <2>1. /\ until' = None /\ UNCHANGED file
        /\ req'[h].stage = "clearing"
        /\ \A k \in Handler : k # h => req'[k] = req[k]
    BY <1>3 DEF ClearBusy, TypeOK, Request
  <2> QED BY <1>3, <2>1 DEF ClearBusy, Locked, UntilInv
<1>4. CASE Crash
  <2>1. UNCHANGED <<file, until>> /\ \A k \in Handler : req'[k].stage = "idle"
    BY <1>4 DEF Crash, NoRequest, history
  <2> QED BY <1>1, <2>1
<1>5. ASSUME NEW h \in Handler, Truncate(h) PROVE UntilInv'
  BY <1>1, <1>5 DEF Truncate, history
<1>6. ASSUME UNCHANGED <<file, until, req>> PROVE UntilInv'
  BY <1>1, <1>6
<1>7. ASSUME NEW o \in Op, Issue(o) PROVE UntilInv'
  BY <1>6, <1>7 DEF Issue, history
<1>8. CASE Tick
  BY <1>6, <1>8 DEF Tick, history
<1>9. CASE UNCHANGED vars
  BY <1>6, <1>9 DEF vars, history
<1> QED
  BY <1>2, <1>3, <1>4, <1>5, <1>7, <1>8, <1>9, ReserveUntil, SaveEndsUntil
  DEF Next, HandlerStep

LEMMA MutexInvStep ==
  ASSUME TypeOK, MutexInv, [Next]_vars
  PROVE  MutexInv'
<1> DEFINE Holds(k) == req[k].stage \in {"saving", "clearing"}
<1>1. ASSUME NEW h \in Handler, \A k \in Handler \ {h} : req'[k] = req[k],
             Holds(h)' => Holds(h) \/ ~Locked
      PROVE  MutexInv'
  BY <1>1 DEF MutexInv, Locked
<1>2. ASSUME NEW h \in Handler, HandlerStep(h) PROVE MutexInv'
  <2>1. \A k \in Handler \ {h} : req'[k] = req[k]
    BY <1>2, Disconnected DEF HandlerStep, Deliver, TakeNow, Reserve, LoadFails, Truncate,
       SaveEnds, SaveFails, LauncherEnds, LauncherFails, ClearBusy, TypeOK
  <2>2. Holds(h)' => Holds(h) \/ ~Locked
    <3>1. ASSUME NEW o \in Op, Deliver(h, o) PROVE ~Holds(h)'
      BY <3>1 DEF Deliver, TypeOK, NoRequest
    <3>2. CASE TakeNow(h) \/ LoadFails(h) \/ SaveFails(h) \/ LauncherEnds(h) \/ LauncherFails(h)
      BY <3>2 DEF TakeNow, LoadFails, SaveFails, LauncherEnds, LauncherFails, TypeOK,
         Request, NoRequest
    <3>3. CASE SaveEnds(h)
      BY <3>3 DEF SaveEnds, TypeOK, Request, NoRequest
    <3>4. CASE Reserve(h) \/ ClearBusy(h)
      BY <3>4 DEF Reserve, ClearBusy
    <3>5. CASE Truncate(h)
      BY <3>5 DEF Truncate
    <3> QED BY <1>2, <3>1, <3>2, <3>3, <3>4, <3>5, Disconnected DEF HandlerStep
  <2> QED BY <1>1, <2>1, <2>2
<1>3. CASE Crash
  BY <1>3 DEF Crash, NoRequest, MutexInv
<1>4. CASE UNCHANGED req
  BY <1>4 DEF MutexInv
<1> QED BY <1>2, <1>3, <1>4 DEF Next, Issue, Tick, vars

LEMMA CooldownInvariant == Spec => [](TypeOK /\ OpInv /\ MutexInv /\ UntilInv)
<1>1. Init => MutexInv /\ UntilInv
  BY DEF Init, MutexInv, UntilInv, NoRequest
<1>2. (TypeOK /\ OpInv) /\ MutexInv /\ UntilInv /\ [Next]_vars => (MutexInv /\ UntilInv)'
  BY MutexInvStep, UntilInvStep
<1> QED BY <1>1, <1>2, TypeCorrect, PTL DEF Spec

\* A cooldown that was neither lifted by a failed launcher nor overwritten for a dropped
\* request meets every request while it lasts, through crashes and failed writes.
THEOREM CooldownAlwaysRemembered == Spec => []CooldownRemembered
<1>1. TypeOK /\ OpInv /\ MutexInv /\ UntilInv => CooldownRemembered
  <2> SUFFICES ASSUME TypeOK, UntilInv PROVE CooldownRemembered
    OBVIOUS
  <2>1. clock \in Nat
    BY DEF TypeOK
  <2> QED BY <2>1, ReadBusy DEF CooldownRemembered
<1> QED BY <1>1, CooldownInvariant, PTL

-----------------------------------------------------------------------------
(* The updater the requests make of the node.                              *)

\* The end of a save is a launch: of an operation that was not launched or was
\* forgotten, reserved when the cooldown of the last launch had run out.
LEMMA SaveLaunches ==
  ASSUME TypeOK, OpInv, ReplayInv, UntilInv, NEW h \in Handler, SaveEnds(h),
         req[h].stage = "saving"
  PROVE  Ledger!Launch(req[h].op)
<1>1. launches[req[h].op] = 0 \/ req[h].op \in forgotten
  BY DEF ReplayInv, StageInv
<1>2. /\ launches' = [launches EXCEPT ![req[h].op] = @ + 1]
      /\ until' = req[h].write.busy_until /\ UNCHANGED forgotten
  BY DEF SaveEnds
<1>3. until' = req[h].now + Cooldown /\ req[h].now \in Int
  BY <1>2 DEF UntilInv, TypeOK, Request
<1>4. until # None => until \in Int /\ until =< req[h].now
  BY DEF UntilInv, TypeOK, Time
<1> QED BY <1>1, <1>2, <1>3, <1>4, CooldownType DEF Ledger!Launch

\* "Recent operation IDs and update cooldown state are persisted ..., so replay
\* protection survives service restarts": UpdateGuard implements UpdateLedger, for any
\* number of operations, requests, crashes, dropped requests and failed writes, any
\* timeout of the launcher and any limit of the history, which outlives every copy of a
\* request.
THEOREM GuardImplementsLedger ==
  ASSUME 2 * TTL + MaxDelay =< History
  PROVE  Spec => LaunchesOnce
<1>1. Init => Ledger!Init
  BY DEF Init, Ledger!Init
<1>2. TypeOK /\ OpInv /\ ReplayInv /\ UntilInv /\ [Next]_vars => [Ledger!Next]_(Ledger!vars)
  <2> SUFFICES ASSUME TypeOK, OpInv, ReplayInv, UntilInv, [Next]_vars
               PROVE  Ledger!Next \/ UNCHANGED <<launches, until, forgotten>>
    BY DEF Ledger!vars
  <2>1. ASSUME NEW h \in Handler, Reserve(h) PROVE Ledger!Next
    BY <2>1 DEF Reserve, Ledger!Next, Ledger!Lose
  <2>2. ASSUME NEW h \in Handler, SaveEnds(h) PROVE Ledger!Next \/ UNCHANGED history
    <3>1. CASE req[h].stage = "saving"
      BY <2>2, <3>1, SaveLaunches DEF OpInv, Ledger!Next
    <3>2. CASE req[h].stage = "clearing"
      BY <2>2, <3>2 DEF SaveEnds
    <3>3. CASE req[h].stage = "dropped"
      BY <2>2, <3>3 DEF SaveEnds, Ledger!Next, Ledger!Lose
    <3> QED BY <2>2, <3>1, <3>2, <3>3 DEF SaveEnds, Writing
  <2>3. ASSUME NEW h \in Handler, ClearBusy(h) PROVE Ledger!Next
    BY <2>3 DEF ClearBusy, Ledger!Next, Ledger!Lose
  <2>4. CASE UNCHANGED history
    BY <2>4 DEF history
  <2>5. CASE UNCHANGED vars
    BY <2>5 DEF vars, history
  <2> QED
    BY <2>1, <2>2, <2>3, <2>4, <2>5 DEF Next, HandlerStep, Issue, Deliver, TakeNow,
       LoadFails, Truncate, SaveFails, LauncherEnds, LauncherFails, Disconnect, Crash, Tick,
       history
<1> QED
  BY <1>1, <1>2, ReplayInvariant, CooldownInvariant, PTL DEF Spec, LaunchesOnce, Ledger!Spec
=============================================================================
