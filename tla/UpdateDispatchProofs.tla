------------------------ MODULE UpdateDispatchProofs ------------------------
(***************************************************************************)
(* What a report of /update can be relied on for, with any number of hosts,*)
(* addresses, commands, late attempts, restarts and changes of leader.     *)
(***************************************************************************)
EXTENDS UpdateDispatch, FiniteSetTheorems, TLAPS

-----------------------------------------------------------------------------
(* What resolve_update_targets makes of hosts.                             *)

Rank(I, i) == Cardinality({j \in I : j =< i})

\* The indices of a sequence are counted off in their order.
LEMMA RankCounts ==
  ASSUME NEW m \in Nat, NEW I \in SUBSET (1 .. m)
  PROVE  /\ IsFiniteSet(I) /\ Cardinality(I) \in Nat
         /\ \A i \in I : Rank(I, i) \in 1 .. Cardinality(I)
         /\ \A i, j \in I : i < j => Rank(I, i) < Rank(I, j)
         /\ \A k \in 1 .. Cardinality(I) : \E i \in I : Rank(I, i) = k
<1> DEFINE Upto(i) == {j \in I : j =< i}
           c == Cardinality(I)
           r == [i \in I |-> Cardinality(Upto(i))]
<1>1. IsFiniteSet(I) /\ c \in Nat
  <2>1. IsFiniteSet(1 .. m)
    BY FS_Interval
  <2> QED BY <2>1, FS_Subset, FS_CardinalityType
<1>2. ASSUME NEW i \in I PROVE IsFiniteSet(Upto(i)) /\ Cardinality(Upto(i)) \in 1 .. c
  <2>1. Upto(i) \in SUBSET I /\ i \in Upto(i)
    OBVIOUS
  <2>2. IsFiniteSet(Upto(i)) /\ Cardinality(Upto(i)) =< c
    BY <1>1, <2>1, FS_Subset
  <2>3. Cardinality(Upto(i)) \in Nat /\ Cardinality(Upto(i)) # 0
    BY <2>1, <2>2, FS_CardinalityType, FS_EmptySet
  <2> QED BY <1>1, <2>2, <2>3
<1>3. ASSUME NEW i \in I, NEW j \in I, i < j
      PROVE  Cardinality(Upto(i)) < Cardinality(Upto(j))
  <2>0. \A k \in I : k \in 1 .. m
    OBVIOUS
  <2>1. Upto(i) \in SUBSET Upto(j) /\ j \in Upto(j) /\ j \notin Upto(i)
    <3>1. i \in 1 .. m /\ j \in 1 .. m /\ i < j
      BY <1>3, <2>0
    <3>2. \A k \in I : k =< i => k =< j
      BY <2>0, <3>1
    <3>3. ~(j =< i) /\ j =< j
      BY <3>1
    <3> QED BY <3>2, <3>3
  <2>2. /\ Cardinality(Upto(i)) =< Cardinality(Upto(j))
        /\ Cardinality(Upto(i)) # Cardinality(Upto(j))
    BY <1>2, <2>1, FS_Subset
  <2> QED BY <1>1, <1>2, <2>2
<1>4. r \in Surjection(I, 1 .. c)
  <2>1. r \in [I -> 1 .. c]
    BY <1>2
  <2>2. \A i, j \in I : r[i] = r[j] => i = j
    <3> SUFFICES ASSUME NEW i \in I, NEW j \in I, r[i] = r[j], i # j PROVE FALSE
      OBVIOUS
    <3>1. i < j \/ j < i
      OBVIOUS
    <3> QED BY <1>1, <1>2, <1>3, <3>1
  <2>3. r \in Injection(I, 1 .. c)
    BY <2>1, <2>2 DEF Injection, IsInjective
  <2>4. IsFiniteSet(1 .. c) /\ Cardinality(1 .. c) = c
    BY <1>1, FS_Interval
  <2> QED BY <2>3, <2>4, FS_Injection
<1>5. \A k \in 1 .. c : \E i \in I : r[i] = k
  BY <1>4 DEF Surjection
<1> QED BY <1>1, <1>2, <1>3, <1>5 DEF Rank

\* The least of some indices.
LEMMA LeastIndex ==
  ASSUME NEW m \in Nat, NEW I \in SUBSET (1 .. m), I # {}
  PROVE  \E i \in I : \A j \in I : i =< j
<1>1. Cardinality(I) \in Nat /\ Cardinality(I) # 0
  BY RankCounts, FS_EmptySet
<1>2. PICK i \in I : Rank(I, i) = 1
  BY <1>1, RankCounts
<1>3. ASSUME NEW j \in I, j < i PROVE FALSE
  <2>1. Rank(I, j) < Rank(I, i) /\ Rank(I, j) \in 1 .. Cardinality(I)
    BY <1>3, RankCounts
  <2> QED BY <1>1, <1>2, <2>1
<1> QED BY <1>3

\* Picked yields a sequence of what stands at the indices, and of nothing else.
LEMMA PickedFacts ==
  ASSUME NEW S, NEW s \in Seq(S), NEW I \in SUBSET DOMAIN s
  PROVE  /\ Picked(s, I) \in Seq(S) /\ DOMAIN Picked(s, I) = 1 .. Cardinality(I)
         /\ \A k \in DOMAIN Picked(s, I) : \E i \in I : Rank(I, i) = k /\ Picked(s, I)[k] = s[i]
         /\ \A i \in I : Rank(I, i) \in DOMAIN Picked(s, I) /\ Picked(s, I)[Rank(I, i)] = s[i]
<1> DEFINE c == Cardinality(I)
           p == Picked(s, I)
           at(k) == CHOOSE i \in I : Rank(I, i) = k
<1>1. Len(s) \in Nat /\ I \in SUBSET (1 .. Len(s))
  OBVIOUS
<1>2. /\ c \in Nat
      /\ \A i \in I : Rank(I, i) \in 1 .. c
      /\ \A i, j \in I : i < j => Rank(I, i) < Rank(I, j)
      /\ \A k \in 1 .. c : \E i \in I : Rank(I, i) = k
  BY <1>1, RankCounts
<1>3. p = [k \in 1 .. c |-> s[at(k)]]
  BY DEF Picked, Rank
<1>4. \A k \in 1 .. c : at(k) \in I /\ Rank(I, at(k)) = k
  BY <1>2
<1>5. \A k \in 1 .. c : at(k) \in DOMAIN s /\ s[at(k)] \in S
  BY <1>1, <1>4
<1>6. p \in [1 .. c -> S]
  BY <1>3, <1>5
<1>7. p \in Seq(S) /\ DOMAIN p = 1 .. c
  BY <1>2, <1>6
<1>8. \A k \in 1 .. c : Rank(I, at(k)) = k /\ p[k] = s[at(k)]
  BY <1>3, <1>4
<1>9. ASSUME NEW i \in I PROVE Rank(I, i) \in 1 .. c /\ at(Rank(I, i)) = i
  <2> DEFINE j == at(Rank(I, i))
  <2>1. Rank(I, i) \in 1 .. c /\ j \in I /\ Rank(I, j) = Rank(I, i)
    BY <1>2, <1>4
  <2>2. i \in 1 .. Len(s) /\ j \in 1 .. Len(s)
    BY <1>1, <2>1
  <2>3. ~(i < j) /\ ~(j < i)
    BY <1>2, <2>1
  <2> QED BY <1>1, <2>1, <2>2, <2>3
<1> QED BY <1>3, <1>4, <1>7, <1>8, <1>9

Distinct(s) == \A i, j \in DOMAIN s : s[i] = s[j] => i = j

LEMMA PickedDistinct ==
  ASSUME NEW S, NEW s \in Seq(S), NEW I \in SUBSET DOMAIN s,
         \A i, j \in I : s[i] = s[j] => i = j
  PROVE  Distinct(Picked(s, I))
<1> SUFFICES ASSUME NEW k \in DOMAIN Picked(s, I), NEW l \in DOMAIN Picked(s, I),
                    Picked(s, I)[k] = Picked(s, I)[l]
             PROVE  k = l
  BY DEF Distinct
<1>1. PICK i \in I : Rank(I, i) = k /\ Picked(s, I)[k] = s[i]
  BY PickedFacts
<1>2. PICK j \in I : Rank(I, j) = l /\ Picked(s, I)[l] = s[j]
  BY PickedFacts
<1> QED BY <1>1, <1>2

Elements(s) == {s[i] : i \in DOMAIN s}

\* resolve_update_targets yields every host that was named, each once; of all hosts
\* the one that resolves is the last.
THEOREM TargetsResolved ==
  ASSUME NEW n \in Node, NEW arg \in Argument, Known(arg)
  PROVE  /\ Targets(n, arg) \in Seq(Node)
         /\ Distinct(Targets(n, arg))
         /\ Elements(Targets(n, arg)) = IF arg = All THEN Node ELSE Elements(arg)
         /\ arg = All => \A i \in DOMAIN Targets(n, arg) :
                           Targets(n, arg)[i] = n <=> i = Len(Targets(n, arg))
<1>1. CASE arg = All
  <2> DEFINE I == Others(n)
             p == Picked(Hosts, I)
  <2>0. Hosts \in Seq(Node) /\ I \in SUBSET DOMAIN Hosts
    BY HostsAssumption DEF Others
  <2>1. /\ p \in Seq(Node)
        /\ \A k \in DOMAIN p : \E i \in I : p[k] = Hosts[i]
        /\ \A i \in I : \E k \in DOMAIN p : p[k] = Hosts[i]
    BY <2>0, PickedFacts
  <2>2. Distinct(p)
    <3>1. \A i, j \in I : Hosts[i] = Hosts[j] => i = j
      BY <2>0, HostsAssumption
    <3> QED BY <2>0, <3>1, PickedDistinct
  <2>3. \A k \in DOMAIN p : p[k] # n
    BY <2>1 DEF Others
  <2>4. ASSUME NEW m \in Node, m # n PROVE \E k \in DOMAIN p : p[k] = m
    <3>1. PICK i \in DOMAIN Hosts : Hosts[i] = m
      BY HostsAssumption
    <3>2. i \in I
      BY <2>4, <3>1 DEF Others
    <3> QED BY <2>1, <3>1, <3>2
  <2> HIDE DEF p
  <2> DEFINE t == p \o <<n>>
  <2>5. /\ t \in Seq(Node) /\ Len(t) = Len(p) + 1 /\ t[Len(p) + 1] = n
        /\ \A k \in 1 .. Len(p) : t[k] = p[k]
        /\ DOMAIN t = 1 .. Len(p) + 1 /\ Len(p) \in Nat /\ DOMAIN p = 1 .. Len(p)
    BY <2>1
  <2> HIDE DEF t
  <2>6. \A i \in DOMAIN t : t[i] = n <=> i = Len(t)
    BY <2>3, <2>5
  <2>7. Distinct(t)
    <3> SUFFICES ASSUME NEW i \in DOMAIN t, NEW j \in DOMAIN t, t[i] = t[j] PROVE i = j
      BY DEF Distinct
    <3>1. CASE t[i] = n
      BY <2>6, <3>1
    <3>2. CASE t[i] # n
      <4>1. i \in DOMAIN p /\ j \in DOMAIN p /\ p[i] = p[j]
        BY <2>5, <2>6, <3>2
      <4> QED BY <2>2, <4>1 DEF Distinct
    <3> QED BY <3>1, <3>2
  <2>8. Elements(t) = Node
    <3>1. Elements(t) \subseteq Node
      BY <2>5 DEF Elements
    <3>2. ASSUME NEW m \in Node PROVE m \in Elements(t)
      <4>1. CASE m = n
        BY <2>5, <4>1 DEF Elements
      <4>2. CASE m # n
        BY <2>4, <2>5, <4>2 DEF Elements
      <4> QED BY <4>1, <4>2
    <3> QED BY <3>1, <3>2
  <2>9. Targets(n, arg) = t
    BY <1>1 DEF Targets, t, p
  <2> QED BY <1>1, <2>5, <2>6, <2>7, <2>8, <2>9
<1>2. CASE arg # All
  <2> DEFINE I == FirstNamed(arg)
  <2>1. arg \in Seq(Node) /\ I \in SUBSET DOMAIN arg /\ Len(arg) \in Nat
        /\ DOMAIN arg = 1 .. Len(arg)
    BY <1>2 DEF Known, FirstNamed
  <2>2. \A i, j \in I : arg[i] = arg[j] => i = j
    BY <2>1 DEF FirstNamed
  <2>3. Targets(n, arg) = Picked(arg, I)
    BY <1>2 DEF Targets
  <2>4. /\ Picked(arg, I) \in Seq(Node)
        /\ \A k \in DOMAIN Picked(arg, I) : \E i \in I : Picked(arg, I)[k] = arg[i]
        /\ \A i \in I : \E k \in DOMAIN Picked(arg, I) : Picked(arg, I)[k] = arg[i]
    BY <2>1, PickedFacts
  <2>5. Distinct(Picked(arg, I))
    BY <2>1, <2>2, PickedDistinct
  <2>6. ASSUME NEW i \in DOMAIN arg PROVE \E k \in I : arg[k] = arg[i]
    <3> DEFINE J == {j \in DOMAIN arg : arg[j] = arg[i]}
    <3>1. J \in SUBSET (1 .. Len(arg)) /\ J # {}
      BY <2>1
    <3>2. PICK k \in J : \A j \in J : k =< j
      BY <2>1, <3>1, LeastIndex
    <3>3. k \in I
      BY <2>1, <3>2 DEF FirstNamed
    <3> QED BY <3>2, <3>3
  <2>7. Elements(Picked(arg, I)) = Elements(arg)
    BY <2>1, <2>4, <2>6 DEF Elements
  <2> QED BY <1>2, <2>3, <2>4, <2>5, <2>7
<1> QED BY <1>1, <1>2

-----------------------------------------------------------------------------
(* Type correctness.                                                       *)

\* Where a task stands: a waiting one has a target.
Placed(t) ==
  /\ t.next >= 1
  /\ t.stage \in {"begun", "asking", "waiting"} => t.at \in Node
  /\ t.stage = "waiting" => t.next =< Len(t.targets)

PlaceInv == \A c \in Command : Placed(task[c])

Calls == [Node -> [Url -> CallStage]]

LEMMA TargetInNode ==
  ASSUME TypeOK, PlaceInv, NEW c \in Command,
         task[c].next =< Len(task[c].targets)
  PROVE  Target(c) \in Node
<1>1. task[c].targets \in Seq(Node) /\ task[c].next \in 1 .. Len(task[c].targets)
  BY DEF TypeOK, PlaceInv, Placed, Task
<1> QED BY <1>1 DEF Target

LEMMA TaskReplaced ==
  ASSUME task \in [Command -> Task], PlaceInv, NEW c \in Command,
         NEW t \in Task, Placed(t), task' = [task EXCEPT ![c] = t]
  PROVE  task' \in [Command -> Task] /\ PlaceInv'
<1>1. \A d \in Command : task'[d] = IF d = c THEN t ELSE task[d]
  OBVIOUS
<1>2. task' \in [Command -> Task]
  OBVIOUS
<1>3. \A d \in Command : Placed(task'[d])
  BY <1>1 DEF PlaceInv
<1> QED BY <1>2, <1>3 DEF PlaceInv

LEMMA InitType == Init => TypeOK /\ PlaceInv
BY HostsAssumption, ArgumentAssumption
   DEF Init, TypeOK, PlaceInv, Placed, Task, Stage, CallStage, Url

\* A command's next attempt, and the calls without one it gives up.
LEMMA CallSent ==
  ASSUME NEW K \in Calls, NEW n \in Node, NEW u \in Url
  PROVE  [K EXCEPT ![n][u] = "sent"] \in Calls /\ [K EXCEPT ![n][u] = "none"] \in Calls
BY DEF Calls, CallStage

\* The steps of a command keep types and places.
LEMMA TaskStepType ==
  ASSUME TypeOK, PlaceInv, NEW c \in Command, TaskStep(c)
  PROVE  TypeOK' /\ PlaceInv'
<1> USE DEF guards
<1>0. /\ task[c] \in Task /\ Placed(task[c]) /\ 1 \in Url
      /\ task \in [Command -> Task] /\ call \in [Command -> Calls]
      /\ call[c] \in Calls
  BY ArgumentAssumption DEF Url, TypeOK, PlaceInv, Calls
<1>1. CASE Resolve(c)
  <2> DEFINE t == [task[c] EXCEPT !.stage = "asking",
                                  !.targets = Targets(task[c].at, task[c].arg)]
  <2>1. Targets(task[c].at, task[c].arg) \in Seq(Node)
    BY <1>0, <1>1, TargetsResolved DEF Resolve, Placed, Task
  <2>2. t \in Task /\ Placed(t)
    BY <1>0, <1>1, <2>1 DEF Task, Stage, Placed, Resolve
  <2>3. task' = [task EXCEPT ![c] = t]
    BY <1>0, <1>1 DEF Resolve
  <2> HIDE DEF t
  <2>4. task' \in [Command -> Task] /\ PlaceInv'
    BY <1>0, <2>2, <2>3, TaskReplaced
  <2> QED BY <1>1, <2>4 DEF Resolve, TypeOK
<1>2. ASSUME TurnedAway(c) \/ Report(c) PROVE TypeOK' /\ PlaceInv'
  <2> DEFINE t == [task[c] EXCEPT !.stage = "done"]
  <2>1. t \in Task /\ Placed(t)
    BY <1>0 DEF Task, Stage, Placed
  <2>2. task' = [task EXCEPT ![c] = t]
    BY <1>0, <1>2 DEF TurnedAway, Report
  <2> HIDE DEF t
  <2>3. task' \in [Command -> Task] /\ PlaceInv'
    BY <1>0, <2>1, <2>2, TaskReplaced
  <2>4. running' \in [Node -> BOOLEAN]
    BY <1>2 DEF TurnedAway, Report, Released, TypeOK
  <2> QED BY <1>2, <2>3, <2>4 DEF TurnedAway, Report, TypeOK
<1>3. CASE Ask(c)
  <2> DEFINE t == [task[c] EXCEPT !.stage = "waiting", !.url = 1]
  <2>1. t \in Task /\ Placed(t)
    BY <1>0, <1>3 DEF Task, Stage, Placed, Ask, More
  <2>2. task' = [task EXCEPT ![c] = t]
    BY <1>0, <1>3 DEF Ask
  <2> HIDE DEF t
  <2>3. task' \in [Command -> Task] /\ PlaceInv'
    BY <1>0, <2>1, <2>2, TaskReplaced
  <2>4. Target(c) \in Node
    BY <1>3, TargetInNode DEF Ask, More
  <2>5. call' = [call EXCEPT ![c] = [call[c] EXCEPT ![Target(c)][1] = "sent"]]
    BY <1>3 DEF Ask
  <2>6. call' \in [Command -> Calls]
    BY <1>0, <2>4, <2>5, CallSent
  <2> QED BY <1>3, <2>3, <2>6 DEF Ask, TypeOK, Calls
<1>4. CASE CannotSign(c)
  <2> DEFINE t == [task[c] EXCEPT !.failed = @ \cup {Target(c)}, !.next = @ + 1]
  <2>1. Target(c) \in Node
    BY <1>4, TargetInNode DEF CannotSign, More
  <2>2. t \in Task /\ Placed(t)
    BY <1>0, <1>4, <2>1 DEF Task, Placed, CannotSign, More
  <2>3. task' = [task EXCEPT ![c] = t]
    BY <1>0, <1>4 DEF CannotSign
  <2> HIDE DEF t
  <2>4. task' \in [Command -> Task] /\ PlaceInv'
    BY <1>0, <2>2, <2>3, TaskReplaced
  <2> QED BY <1>4, <2>4 DEF CannotSign, TypeOK
<1>5. CASE Hears(c)
  <2> DEFINE t == [task[c] EXCEPT !.stage = "asking", !.next = @ + 1,
                                  !.queued = @ \cup {Target(c)}]
  <2>1. Target(c) \in Node
    BY <1>0, <1>5, TargetInNode DEF Hears, Placed
  <2>2. t \in Task /\ Placed(t)
    BY <1>0, <1>5, <2>1 DEF Task, Stage, Placed, Hears
  <2>3. task' = [task EXCEPT ![c] = t]
    BY <1>0, <1>5 DEF Hears
  <2> HIDE DEF t
  <2>4. task' \in [Command -> Task] /\ PlaceInv'
    BY <1>0, <2>2, <2>3, TaskReplaced
  <2>5. Left(c) \in Calls
    BY <1>0, <2>1, CallSent DEF Left, Task
  <2>6. call' \in [Command -> Calls]
    BY <1>0, <1>5, <2>5 DEF Hears
  <2> QED BY <1>5, <2>4, <2>6 DEF Hears, TypeOK, Calls
<1>6. CASE TryNextUrl(c)
  <2> DEFINE t == [task[c] EXCEPT !.url = @ + 1]
  <2>0. Target(c) \in Node
    BY <1>0, <1>6, TargetInNode DEF TryNextUrl, CameToNothing, Placed
  <2>1. task[c].url + 1 \in Url
    BY <1>0, <1>6, ArgumentAssumption DEF TryNextUrl, Task, Url
  <2>2. t \in Task /\ Placed(t)
    BY <1>0, <2>1 DEF Task, Placed
  <2>3. task' = [task EXCEPT ![c] = t]
    BY <1>0, <1>6 DEF TryNextUrl
  <2> HIDE DEF t
  <2>4. task' \in [Command -> Task] /\ PlaceInv'
    BY <1>0, <2>2, <2>3, TaskReplaced
  <2>5. PICK K \in {Left(c), call[c]} :
          /\ changes' \in {changes, changes + 1}
          /\ call' = [call EXCEPT ![c] = [K EXCEPT ![Target(c)][task[c].url + 1] = "sent"]]
    BY <1>6 DEF TryNextUrl, Leaves, Change
  <2>6. Left(c) \in Calls
    BY <1>0, <2>0, CallSent DEF Left, Task
  <2>7. K \in Calls
    BY <1>0, <2>5, <2>6
  <2>8. [K EXCEPT ![Target(c)][task[c].url + 1] = "sent"] \in Calls
    BY <2>0, <2>1, <2>7, CallSent
  <2>9. call' \in [Command -> Calls]
    BY <1>0, <2>5, <2>8
  <2>10. changes' \in Nat
    BY <2>5 DEF TypeOK
  <2> QED BY <1>6, <2>4, <2>9, <2>10 DEF TryNextUrl, TypeOK, Calls
<1>7. CASE GiveUp(c)
  <2> DEFINE t == [task[c] EXCEPT !.stage = "asking", !.next = @ + 1,
                                  !.failed = @ \cup {Target(c)}]
  <2>1. Target(c) \in Node
    BY <1>0, <1>7, TargetInNode DEF GiveUp, CameToNothing, Placed
  <2>2. t \in Task /\ Placed(t)
    BY <1>0, <1>7, <2>1 DEF Task, Stage, Placed, GiveUp, CameToNothing
  <2>3. task' = [task EXCEPT ![c] = t]
    BY <1>0, <1>7 DEF GiveUp
  <2> HIDE DEF t
  <2>4. task' \in [Command -> Task] /\ PlaceInv'
    BY <1>0, <2>2, <2>3, TaskReplaced
  <2>5. PICK K \in {Left(c), call[c]} :
          changes' \in {changes, changes + 1} /\ call' = [call EXCEPT ![c] = K]
    BY <1>7 DEF GiveUp, Leaves, Change
  <2>6. Left(c) \in Calls
    BY <1>0, <2>1, CallSent DEF Left, Task
  <2>7. K \in Calls
    BY <1>0, <2>5, <2>6
  <2>8. call' \in [Command -> Calls] /\ changes' \in Nat
    BY <1>0, <2>5, <2>7 DEF TypeOK
  <2> QED BY <1>7, <2>4, <2>8 DEF GiveUp, TypeOK, Calls
<1> QED BY <1>1, <1>2, <1>3, <1>4, <1>5, <1>6, <1>7 DEF TaskStep

\* The steps of a target, too.
LEMMA CallStepType ==
  ASSUME TypeOK, PlaceInv, NEW c \in Command, NEW n \in Node, NEW u \in Url,
         CallStep(c, n, u)
  PROVE  TypeOK' /\ PlaceInv'
<1> USE DEF guards
<1>1. UNCHANGED task /\ UNCHANGED <<view, running, changes>>
  BY DEF CallStep, Refuse, Accept, SaveFails, LauncherEnds, LauncherFails, Drop
<1>2. PlaceInv'
  BY <1>1 DEF PlaceInv
<1>3. PICK answer \in CallStage : call' = [call EXCEPT ![c][n][u] = answer]
  BY DEF CallStep, Refuse, Accept, SaveFails, LauncherEnds, LauncherFails, Drop,
         Answered, CallStage
<1>4. call' \in [Command -> [Node -> [Url -> CallStage]]]
  BY <1>3 DEF TypeOK
<1>5. CASE Refuse(c, n, u) \/ Drop(c, n, u)
  BY <1>1, <1>2, <1>4, <1>5 DEF Refuse, Drop, TypeOK
<1>6. CASE Accept(c, n, u)
  <2>1. seen' \in [Node -> SUBSET Command] /\ busy' \in [Node -> BOOLEAN]
    BY <1>6 DEF Accept, TypeOK
  <2>2. launches' \in [Node -> [Command -> Nat]]
    BY <1>6 DEF Accept, TypeOK
  <2> QED BY <1>1, <1>2, <1>4, <1>6, <2>1, <2>2 DEF Accept, TypeOK
<1>7. CASE SaveFails(c, n, u)
  <2>1. seen' \in [Node -> SUBSET Command] /\ busy' \in [Node -> BOOLEAN]
    BY <1>7 DEF SaveFails, TypeOK
  <2> QED BY <1>1, <1>2, <1>4, <1>7, <2>1 DEF SaveFails, TypeOK
<1>8. CASE LauncherEnds(c, n, u)
  <2>1. scheduled' \in [Node -> SUBSET Command]
    BY <1>8 DEF LauncherEnds, TypeOK
  <2> QED BY <1>1, <1>2, <1>4, <1>8, <2>1 DEF LauncherEnds, TypeOK
<1>9. CASE LauncherFails(c, n, u)
  <2>1. busy' \in [Node -> BOOLEAN]
    BY <1>9 DEF LauncherFails, TypeOK
  <2> QED BY <1>1, <1>2, <1>4, <1>9, <2>1 DEF LauncherFails, TypeOK
<1> QED BY <1>5, <1>6, <1>7, <1>8, <1>9 DEF CallStep

\* What the environment does to the tasks of a node.
LEMMA TasksType ==
  ASSUME TypeOK, PlaceInv, NEW n \in Node,
         \/ task' = [c \in Command |-> IF Active(c) /\ task[c].at = n
                       THEN [task[c] EXCEPT !.orphan = TRUE] ELSE task[c]]
         \/ task' = [c \in Command |-> IF Active(c) /\ task[c].at = n
                       THEN [task[c] EXCEPT !.stage = "dead"] ELSE task[c]]
  PROVE  task' \in [Command -> Task] /\ PlaceInv'
<1> SUFFICES ASSUME NEW c \in Command PROVE task'[c] \in Task /\ Placed(task'[c])
  BY DEF PlaceInv
<1>1. task[c] \in Task /\ Placed(task[c])
  BY DEF TypeOK, PlaceInv
<1>2. /\ [task[c] EXCEPT !.orphan = TRUE] \in Task
      /\ Placed([task[c] EXCEPT !.orphan = TRUE])
  BY <1>1 DEF Task, Placed
<1>3. /\ [task[c] EXCEPT !.stage = "dead"] \in Task
      /\ Placed([task[c] EXCEPT !.stage = "dead"])
  BY <1>1 DEF Task, Stage, Placed
<1> QED BY <1>1, <1>2, <1>3

LEMMA NextType ==
  ASSUME TypeOK, PlaceInv, [Next]_vars
  PROVE  TypeOK' /\ PlaceInv'
<1> USE DEF guards
<1>0. \A c \in Command : task[c] \in Task /\ Placed(task[c])
  BY DEF TypeOK, PlaceInv
<1>1. ASSUME NEW c \in Command, TaskStep(c) PROVE TypeOK' /\ PlaceInv'
  BY <1>1, TaskStepType
<1>2. ASSUME NEW c \in Command, NEW n \in Node, TurnDown(c, n) PROVE TypeOK' /\ PlaceInv'
  <2> DEFINE t == [task[c] EXCEPT !.stage = "refused"]
  <2>1. t \in Task /\ Placed(t)
    BY <1>0 DEF Task, Stage, Placed
  <2>2. task' = [task EXCEPT ![c] = t] /\ task \in [Command -> Task]
    BY <1>2 DEF TurnDown, TypeOK
  <2> HIDE DEF t
  <2>3. task' \in [Command -> Task] /\ PlaceInv'
    BY <2>1, <2>2, TaskReplaced
  <2> QED BY <1>2, <2>3 DEF TurnDown, TypeOK
<1>3. ASSUME NEW c \in Command, NEW n \in Node, NEW arg \in Argument, Begin(c, n, arg)
      PROVE  TypeOK' /\ PlaceInv'
  <2> DEFINE t == [task[c] EXCEPT !.stage = "begun", !.at = n, !.arg = arg]
  <2>1. t \in Task /\ Placed(t)
    BY <1>0 DEF Task, Stage, Placed
  <2>2. task' = [task EXCEPT ![c] = t] /\ task \in [Command -> Task]
    BY <1>3 DEF Begin, TypeOK
  <2> HIDE DEF t
  <2>3. task' \in [Command -> Task] /\ PlaceInv'
    BY <2>1, <2>2, TaskReplaced
  <2> QED BY <1>3, <2>3 DEF Begin, TypeOK
<1>4. ASSUME NEW c \in Command, NEW n \in Node, NEW u \in Url, CallStep(c, n, u)
      PROVE  TypeOK' /\ PlaceInv'
  BY <1>4, CallStepType
<1>5. ASSUME NEW n \in Node, CooldownEnds(n) \/ LeaderMoves(n) PROVE TypeOK' /\ PlaceInv'
  <2>1. UNCHANGED task
    BY <1>5 DEF CooldownEnds, LeaderMoves
  <2>2. PlaceInv'
    BY <2>1 DEF PlaceInv
  <2>3. view' \in [Node -> Node \cup {None}]
    BY <1>5 DEF CooldownEnds, LeaderMoves, TypeOK
  <2>4. busy' \in [Node -> BOOLEAN]
    BY <1>5 DEF CooldownEnds, LeaderMoves, TypeOK
  <2> QED BY <1>5, <2>1, <2>2, <2>3, <2>4 DEF CooldownEnds, LeaderMoves, Change, TypeOK
<1>6. ASSUME NEW n \in Node, RunRestarts(n) PROVE TypeOK' /\ PlaceInv'
  <2>1. task' \in [Command -> Task] /\ PlaceInv'
    BY <1>6, TasksType DEF RunRestarts
  <2> QED BY <1>6, <2>1 DEF RunRestarts, Change, TypeOK
<1>7. ASSUME NEW n \in Node, Restart(n) PROVE TypeOK' /\ PlaceInv'
  <2>1. task' \in [Command -> Task] /\ PlaceInv'
    BY <1>7, TasksType DEF Restart
  <2>2. call' \in [Command -> [Node -> [Url -> CallStage]]]
    BY <1>7 DEF Restart, TypeOK, CallStage
  <2>3. seen' \in [Node -> SUBSET Command]
    BY <1>7 DEF Restart, TypeOK
  <2> QED BY <1>7, <2>1, <2>2, <2>3 DEF Restart, Change, TypeOK
<1>8. CASE UNCHANGED vars
  BY <1>8 DEF vars, TypeOK, PlaceInv
<1> QED BY <1>1, <1>2, <1>3, <1>4, <1>5, <1>6, <1>7, <1>8 DEF Next

-----------------------------------------------------------------------------
(* Launchers and reports.                                                  *)

\* A node that has started its launcher for a command has noted the command.
LaunchInv ==
  \A n \in Node, c \in Command :
    launches[n][c] =< 1 /\ (launches[n][c] = 1 => c \in seen[n])

\* An attempt that is answered with success stands for a launcher that succeeded.
AnswerInv ==
  \A c \in Command, n \in Node, u \in Url : call[c][n][u] = "yes" => c \in scheduled[n]

\* A task that is at work holds the flag of the runtime it was given.
FlagInv ==
  \A c \in Command : Active(c) /\ ~task[c].orphan => running[task[c].at]

DispatchInv == TypeOK /\ PlaceInv /\ LaunchInv /\ AnswerInv /\ QueuedIsScheduled
               /\ FlagInv /\ OneDispatch

LEMMA NextLaunch ==
  ASSUME TypeOK, LaunchInv, [Next]_vars
  PROVE  LaunchInv'
<1> USE DEF guards
<1>1. ASSUME NEW c \in Command, NEW n \in Node, NEW u \in Url, Accept(c, n, u)
      PROVE  LaunchInv'
  <2>1. c \notin seen[n]
    BY <1>1 DEF Accept, Refuses
  <2>2. launches[n][c] \in Nat /\ launches[n][c] =< 1 /\ launches[n][c] # 1
    BY <2>1 DEF LaunchInv, TypeOK
  <2>3. launches[n][c] = 0
    BY <2>2
  <2>4. /\ launches' = [launches EXCEPT ![n][c] = @ + 1]
        /\ seen' = [seen EXCEPT ![n] = @ \cup {c}]
    BY <1>1 DEF Accept
  <2>5. \A m \in Node, d \in Command :
          /\ launches'[m][d] = IF m = n /\ d = c THEN 1 ELSE launches[m][d]
          /\ d \in seen'[m] <=> d \in seen[m] \/ (m = n /\ d = c)
    BY <2>3, <2>4 DEF TypeOK
  <2> QED BY <2>5 DEF LaunchInv
<1>2. ASSUME NEW c \in Command, NEW n \in Node, NEW u \in Url, SaveFails(c, n, u)
      PROVE  LaunchInv'
  BY <1>2 DEF SaveFails, LaunchInv, TypeOK
<1>3. ASSUME NEW n \in Node, Restart(n) PROVE LaunchInv'
  <2>1. PICK kept \in SUBSET seen[n] :
          /\ {c \in Command : launches[n][c] > 0} \subseteq kept
          /\ seen' = [seen EXCEPT ![n] = kept]
    BY <1>3 DEF Restart
  <2> QED BY <1>3, <2>1 DEF Restart, LaunchInv, TypeOK
<1>4. CASE UNCHANGED <<seen, launches>>
  BY <1>4 DEF LaunchInv
<1>5. ASSUME NEW c \in Command, TaskStep(c) PROVE UNCHANGED <<seen, launches>>
  BY <1>5 DEF TaskStep, Resolve, TurnedAway, Ask, CannotSign, Hears, TryNextUrl, GiveUp, Report
<1>6. ASSUME NEW c \in Command, NEW n \in Node,
             TurnDown(c, n) \/ \E arg \in Argument : Begin(c, n, arg)
      PROVE  UNCHANGED <<seen, launches>>
  BY <1>6 DEF TurnDown, Begin
<1>7. ASSUME NEW c \in Command, NEW n \in Node, NEW u \in Url, CallStep(c, n, u)
      PROVE  Accept(c, n, u) \/ SaveFails(c, n, u) \/ UNCHANGED <<seen, launches>>
  BY <1>7 DEF CallStep, Refuse, LauncherEnds, LauncherFails, Drop
<1>8. ASSUME NEW n \in Node, CooldownEnds(n) \/ LeaderMoves(n) \/ RunRestarts(n)
      PROVE  UNCHANGED <<seen, launches>>
  BY <1>8 DEF CooldownEnds, LeaderMoves, RunRestarts
<1> QED BY <1>1, <1>2, <1>3, <1>4, <1>5, <1>6, <1>7, <1>8 DEF Next, vars

LEMMA LeftAnswers ==
  ASSUME TypeOK, NEW c \in Command
  PROVE  /\ Left(c) \in Calls \/ Target(c) \notin Node \/ task[c].url \notin Url
         /\ \A n \in Node, u \in Url : Left(c)[n][u] = "yes" => call[c][n][u] = "yes"
<1>1. call[c] \in [Node -> [Url -> CallStage]]
  BY DEF TypeOK
<1> QED BY <1>1 DEF Left, Calls, CallStage

\* Success is answered only by a launcher that ends, and is not forgotten.
LEMMA NextAnswer ==
  ASSUME TypeOK, PlaceInv, AnswerInv, QueuedIsScheduled, [Next]_vars
  PROVE  AnswerInv' /\ QueuedIsScheduled'
<1> USE DEF guards
<1>0. /\ task \in [Command -> Task]
      /\ call \in [Command -> [Node -> [Url -> CallStage]]]
      /\ scheduled \in [Node -> SUBSET Command]
  BY DEF TypeOK
<1>1. ASSUME NEW c \in Command, TaskStep(c) PROVE AnswerInv' /\ QueuedIsScheduled'
  <2>1. scheduled' = scheduled
    BY <1>1 DEF TaskStep, Resolve, TurnedAway, Ask, CannotSign, Hears, TryNextUrl, GiveUp, Report
  <2>2. \A d \in Command, n \in Node, u \in Url :
          call'[d][n][u] = "yes" => call[d][n][u] = "yes"
    <3>1. CASE Resolve(c) \/ TurnedAway(c) \/ CannotSign(c) \/ Report(c)
      BY <3>1 DEF Resolve, TurnedAway, CannotSign, Report
    <3>2. CASE Ask(c)
      BY <1>0, <3>2 DEF Ask
    <3>3. CASE Hears(c)
      <4>1. call' = [call EXCEPT ![c] = Left(c)]
        BY <3>3 DEF Hears
      <4> QED BY <1>0, <4>1, LeftAnswers
    <3>4. CASE TryNextUrl(c)
      <4>1. PICK K \in {Left(c), call[c]} :
              call' = [call EXCEPT ![c] = [K EXCEPT ![Target(c)][task[c].url + 1] = "sent"]]
        BY <3>4 DEF TryNextUrl, Leaves
      <4>2. \A n \in Node, u \in Url : K[n][u] = "yes" => call[c][n][u] = "yes"
        BY <4>1, LeftAnswers
      <4>3. /\ task[c].next =< Len(task[c].targets)
            /\ task[c] \in Task
        BY <1>0, <3>4 DEF TryNextUrl, CameToNothing, PlaceInv, Placed
      <4>4. Target(c) \in Node /\ task[c].url \in Url
        BY <4>3, TargetInNode DEF Task
      <4>5. K \in [Node -> [Url -> CallStage]]
        BY <1>0, <4>1, <4>4, LeftAnswers DEF Calls
      <4>6. \A n \in Node, u \in Url :
              [K EXCEPT ![Target(c)][task[c].url + 1] = "sent"][n][u] = "yes" => K[n][u] = "yes"
        BY <4>5
      <4> QED BY <1>0, <4>1, <4>2, <4>6
    <3>5. CASE GiveUp(c)
      <4>1. PICK K \in {Left(c), call[c]} : call' = [call EXCEPT ![c] = K]
        BY <3>5 DEF GiveUp, Leaves
      <4>2. \A n \in Node, u \in Url : K[n][u] = "yes" => call[c][n][u] = "yes"
        BY <4>1, LeftAnswers
      <4> QED BY <1>0, <4>1, <4>2
    <3> QED BY <1>1, <3>1, <3>2, <3>3, <3>4, <3>5 DEF TaskStep
  <2>3. AnswerInv'
    BY <2>1, <2>2 DEF AnswerInv
  <2>4. QueuedIsScheduled'
    <3>1. CASE Hears(c)
      <4>1. /\ task[c] \in Task /\ Placed(task[c]) /\ task[c].stage = "waiting"
            /\ call[c][Target(c)][task[c].url] = "yes"
        BY <1>0, <3>1 DEF Hears, Outcome, PlaceInv
      <4>2. Target(c) \in Node /\ task[c].url \in Url
        BY <4>1, TargetInNode DEF Placed, Task
      <4>3. c \in scheduled[Target(c)]
        BY <4>1, <4>2 DEF AnswerInv
      <4>4. \A d \in Command : task'[d].queued \subseteq
              task[d].queued \cup (IF d = c THEN {Target(c)} ELSE {})
        BY <1>0, <3>1 DEF Hears, Task
      <4> QED BY <2>1, <4>3, <4>4 DEF QueuedIsScheduled
    <3>2. CASE ~Hears(c)
      <4>1. \A d \in Command : task[d] \in Task
        BY <1>0
      <4>2. ASSUME NEW d \in Command PROVE task'[d].queued = task[d].queued
        <5>1. CASE Resolve(c)
          BY <1>0, <4>1, <5>1 DEF Resolve, Task
        <5>2. CASE TurnedAway(c)
          BY <1>0, <4>1, <5>2 DEF TurnedAway, Task
        <5>3. CASE Report(c)
          BY <1>0, <4>1, <5>3 DEF Report, Task
        <5>4. CASE Ask(c)
          BY <1>0, <4>1, <5>4 DEF Ask, Task
        <5>5. CASE CannotSign(c)
          BY <1>0, <4>1, <5>5 DEF CannotSign, Task
        <5>6. CASE TryNextUrl(c)
          BY <1>0, <4>1, <5>6 DEF TryNextUrl, Task
        <5>7. CASE GiveUp(c)
          BY <1>0, <4>1, <5>7 DEF GiveUp, Task
        <5> QED BY <1>1, <3>2, <5>1, <5>2, <5>3, <5>4, <5>5, <5>6, <5>7 DEF TaskStep
      <4> QED BY <2>1, <4>2 DEF QueuedIsScheduled
    <3> QED BY <3>1, <3>2
  <2> QED BY <2>3, <2>4
<1>2. ASSUME NEW c \in Command, NEW n \in Node,
             TurnDown(c, n) \/ \E arg \in Argument : Begin(c, n, arg)
      PROVE  AnswerInv' /\ QueuedIsScheduled'
  <2>1. ASSUME NEW d \in Command PROVE task'[d].queued = task[d].queued
    <3>1. task[d] \in Task
      BY <1>0
    <3>2. CASE TurnDown(c, n)
      BY <1>0, <3>1, <3>2 DEF TurnDown, Task
    <3>3. ASSUME NEW arg \in Argument, Begin(c, n, arg) PROVE task'[d].queued = task[d].queued
      BY <1>0, <3>1, <3>3 DEF Begin, Task
    <3> QED BY <1>2, <3>2, <3>3
  <2> QED BY <1>2, <2>1 DEF TurnDown, Begin, AnswerInv, QueuedIsScheduled
<1>3. ASSUME NEW c \in Command, NEW n \in Node, NEW u \in Url, CallStep(c, n, u)
      PROVE  AnswerInv' /\ QueuedIsScheduled'
  <2>1. CASE LauncherEnds(c, n, u)
    <3>1. scheduled' = [scheduled EXCEPT ![n] = @ \cup {c}]
      BY <2>1 DEF LauncherEnds
    <3>2. \A d \in Command, m \in Node, v \in Url :
            call'[d][m][v] = "yes" => call[d][m][v] = "yes" \/ (d = c /\ m = n)
      BY <1>0, <2>1 DEF LauncherEnds, Answered
    <3>3. \A m \in Node : scheduled[m] \subseteq scheduled'[m]
      BY <1>0, <3>1
    <3>4. c \in scheduled'[n]
      BY <1>0, <3>1
    <3>5. AnswerInv'
      BY <3>2, <3>3, <3>4 DEF AnswerInv
    <3>6. task' = task
      BY <2>1 DEF LauncherEnds
    <3>7. \A d \in Command : task[d].queued \subseteq Node
      BY <1>0 DEF Task
    <3>8. QueuedIsScheduled'
      BY <3>3, <3>6, <3>7 DEF QueuedIsScheduled
    <3> QED BY <3>5, <3>8
  <2>2. CASE ~LauncherEnds(c, n, u)
    <3>1. UNCHANGED <<task, scheduled>>
      BY <1>3, <2>2 DEF CallStep, Refuse, Accept, SaveFails, LauncherFails, Drop
    <3>2. PICK answer \in CallStage \ {"yes"} : call' = [call EXCEPT ![c][n][u] = answer]
      BY <1>3, <2>2 DEF CallStep, Refuse, Accept, SaveFails, LauncherFails, Drop,
         Answered, CallStage
    <3>3. \A d \in Command, m \in Node, v \in Url :
            call'[d][m][v] = "yes" => call[d][m][v] = "yes"
      BY <1>0, <3>2
    <3> QED BY <3>1, <3>3 DEF AnswerInv, QueuedIsScheduled
  <2> QED BY <2>1, <2>2
<1>4. ASSUME NEW n \in Node, CooldownEnds(n) \/ LeaderMoves(n)
      PROVE  AnswerInv' /\ QueuedIsScheduled'
  BY <1>4 DEF CooldownEnds, LeaderMoves, AnswerInv, QueuedIsScheduled
<1>5. ASSUME NEW n \in Node, RunRestarts(n) \/ Restart(n)
      PROVE  AnswerInv' /\ QueuedIsScheduled'
  <2>1. scheduled' = scheduled
    BY <1>5 DEF RunRestarts, Restart
  <2>2. \A d \in Command : task'[d].queued = task[d].queued
    <3> SUFFICES ASSUME NEW d \in Command PROVE task'[d].queued = task[d].queued
      OBVIOUS
    <3>1. task[d] \in Task
      BY <1>0
    <3> QED BY <1>5, <3>1 DEF RunRestarts, Restart, Task
  <2>3. \A d \in Command, m \in Node, v \in Url :
          call'[d][m][v] = "yes" => call[d][m][v] = "yes"
    <3>1. CASE RunRestarts(n)
      BY <3>1 DEF RunRestarts
    <3>2. CASE Restart(n)
      <4> SUFFICES ASSUME NEW d \in Command, NEW m \in Node, NEW v \in Url,
                          call'[d][m][v] = "yes"
                   PROVE  call[d][m][v] = "yes"
        OBVIOUS
      <4>1. call'[d] = [call[d] EXCEPT ![n] =
                [u \in Url |-> IF call[d][n][u] \in {"sent", "launching"}
                               THEN "no" ELSE call[d][n][u]]]
        BY <3>2 DEF Restart
      <4>2. call[d] \in [Node -> [Url -> CallStage]]
        BY <1>0
      <4>3. CASE m = n
        BY <4>1, <4>2, <4>3
      <4>4. CASE m # n
        BY <4>1, <4>2, <4>4
      <4> QED BY <4>3, <4>4
    <3> QED BY <1>5, <3>1, <3>2
  <2> QED BY <2>1, <2>2, <2>3 DEF AnswerInv, QueuedIsScheduled
<1>6. CASE UNCHANGED vars
  BY <1>6 DEF vars, AnswerInv, QueuedIsScheduled
<1> QED BY <1>1, <1>2, <1>3, <1>4, <1>5, <1>6 DEF Next

\* The tasks that hold a flag, and where.
Holds(c) == Active(c) /\ ~task[c].orphan

HolderInv == FlagInv /\ OneDispatch

LEMMA HoldersKept ==
  ASSUME HolderInv, UNCHANGED running,
         \A c \in Command : Holds(c)' => Holds(c) /\ task'[c].at = task[c].at
  PROVE  HolderInv'
BY DEF HolderInv, FlagInv, OneDispatch, Holds

\* Steps of a task that is not at its end leave the flags and their holders alone.
LEMMA MidStep ==
  ASSUME TypeOK, NEW c \in Command, TaskStep(c), ~TurnedAway(c), ~Report(c)
  PROVE  /\ UNCHANGED running
         /\ \A d \in Command : Holds(d)' => Holds(d) /\ task'[d].at = task[d].at
<1>0. task \in [Command -> Task]
  BY DEF TypeOK
<1>1. UNCHANGED running
  BY DEF TaskStep, Resolve, Ask, CannotSign, Hears, TryNextUrl, GiveUp
<1>2. ASSUME NEW d \in Command
      PROVE  /\ Active(d)' => Active(d)
             /\ task'[d].at = task[d].at /\ task'[d].orphan = task[d].orphan
  <2>1. task[d] \in Task
    BY <1>0
  <2>2. CASE Resolve(c)
    BY <1>0, <2>1, <2>2 DEF Resolve, Active, Task
  <2>3. CASE Ask(c)
    BY <1>0, <2>1, <2>3 DEF Ask, Active, Task, More
  <2>4. CASE CannotSign(c)
    BY <1>0, <2>1, <2>4 DEF CannotSign, Active, Task, More
  <2>5. CASE Hears(c)
    BY <1>0, <2>1, <2>5 DEF Hears, Active, Task
  <2>6. CASE TryNextUrl(c)
    BY <1>0, <2>1, <2>6 DEF TryNextUrl, Active, Task, CameToNothing
  <2>7. CASE GiveUp(c)
    BY <1>0, <2>1, <2>7 DEF GiveUp, Active, Task, CameToNothing
  <2> QED BY <2>2, <2>3, <2>4, <2>5, <2>6, <2>7 DEF TaskStep
<1> QED BY <1>1, <1>2 DEF Holds

\* A task that ends lowers its own flag, which no other task holds.
LEMMA EndStep ==
  ASSUME TypeOK, PlaceInv, HolderInv, NEW c \in Command, TurnedAway(c) \/ Report(c)
  PROVE  HolderInv'
<1>0. task \in [Command -> Task] /\ running \in [Node -> BOOLEAN]
  BY DEF TypeOK
<1>1. Active(c) /\ task[c] \in Task /\ task[c].at \in Node
  BY <1>0 DEF TurnedAway, Report, Active, PlaceInv, Placed
<1>2. task' = [task EXCEPT ![c].stage = "done"] /\ running' = Released(c)
  BY DEF TurnedAway, Report
<1>3. ~Holds(c)'
  BY <1>0, <1>1, <1>2 DEF Holds, Active, Task
<1>4. \A d \in Command : d # c => task'[d] = task[d]
  BY <1>0, <1>2
<1>5. ASSUME NEW d \in Command, Holds(d)' PROVE Holds(d) /\ task'[d] = task[d] /\ d # c
  BY <1>3, <1>4, <1>5 DEF Holds, Active
<1>6. ASSUME NEW d \in Command, Holds(d)' PROVE running'[task'[d].at]
  <2>1. Holds(d) /\ d # c /\ task'[d].at = task[d].at
    BY <1>5, <1>6
  <2>2. running[task[d].at] /\ task[d].at \in Node
    BY <2>1 DEF HolderInv, FlagInv, Holds, Active, PlaceInv, Placed
  <2>3. CASE task[c].orphan
    BY <1>2, <2>1, <2>2, <2>3 DEF Released
  <2>4. CASE ~task[c].orphan
    <3>1. task[d].at # task[c].at
      BY <1>1, <2>1, <2>4 DEF HolderInv, OneDispatch, Holds
    <3> QED BY <1>0, <1>2, <2>1, <2>2, <2>4, <3>1 DEF Released
  <2> QED BY <2>3, <2>4
<1>7. FlagInv'
  BY <1>6 DEF FlagInv, Holds
<1>8. OneDispatch'
  BY <1>5 DEF HolderInv, OneDispatch, Holds
<1> QED BY <1>7, <1>8 DEF HolderInv

LEMMA BeginStep ==
  ASSUME TypeOK, HolderInv, NEW c \in Command, NEW n \in Node, NEW arg \in Argument,
         Begin(c, n, arg)
  PROVE  HolderInv'
<1>0. task \in [Command -> Task] /\ running \in [Node -> BOOLEAN] /\ task[c] \in Task
  BY DEF TypeOK
<1>1. \A d \in Command : d # c => task'[d] = task[d]
  BY <1>0 DEF Begin
<1>2. task'[c].at = n /\ ~running[n] /\ running' = [running EXCEPT ![n] = TRUE]
  BY <1>0 DEF Begin, Task
<1>3. ASSUME NEW d \in Command, d # c, Holds(d)'
      PROVE  Holds(d) /\ task'[d].at = task[d].at /\ running[task[d].at] /\ task[d].at # n
  <2>1. Holds(d) /\ task'[d].at = task[d].at
    BY <1>1, <1>3 DEF Holds, Active
  <2>2. running[task[d].at]
    BY <2>1 DEF HolderInv, FlagInv, Holds
  <2> QED BY <1>2, <2>1, <2>2
<1>4. FlagInv'
  <2> SUFFICES ASSUME NEW d \in Command, Holds(d)' PROVE running'[task'[d].at]
    BY DEF FlagInv, Holds
  <2>1. CASE d = c
    BY <1>0, <1>2, <2>1
  <2>2. CASE d # c
    BY <1>0, <1>2, <1>3, <2>2
  <2> QED BY <2>1, <2>2
<1>5. OneDispatch'
  <2> SUFFICES ASSUME NEW d \in Command, NEW e \in Command, Holds(d)', Holds(e)',
                      task'[d].at = task'[e].at
               PROVE  d = e
    BY DEF OneDispatch, Holds
  <2>1. CASE d = c \/ e = c
    BY <1>2, <1>3, <2>1
  <2>2. CASE d # c /\ e # c
    BY <1>3, <2>2 DEF HolderInv, OneDispatch, Holds
  <2> QED BY <2>1, <2>2
<1> QED BY <1>4, <1>5 DEF HolderInv

\* When run or the process starts again, the node's tasks hold its flag no more.
LEMMA RestartStep ==
  ASSUME TypeOK, HolderInv, NEW n \in Node, RunRestarts(n) \/ Restart(n)
  PROVE  HolderInv'
<1>0. task \in [Command -> Task] /\ running \in [Node -> BOOLEAN]
  BY DEF TypeOK
<1>1. running' = [running EXCEPT ![n] = FALSE]
  BY DEF RunRestarts, Restart
<1>2. ASSUME NEW d \in Command, Holds(d)' PROVE Holds(d) /\ task'[d] = task[d] /\ task[d].at # n
  <2>1. task[d] \in Task
    BY <1>0
  <2>2. CASE Active(d) /\ task[d].at = n
    BY <1>2, <2>1, <2>2 DEF RunRestarts, Restart, Holds, Active, Task
  <2>3. CASE ~(Active(d) /\ task[d].at = n)
    <3>1. task'[d] = task[d]
      BY <2>3 DEF RunRestarts, Restart
    <3> QED BY <1>2, <2>3, <3>1 DEF Holds, Active
  <2> QED BY <2>2, <2>3
<1>3. FlagInv'
  BY <1>0, <1>1, <1>2 DEF HolderInv, FlagInv, Holds
<1>4. OneDispatch'
  BY <1>2 DEF HolderInv, OneDispatch, Holds
<1> QED BY <1>3, <1>4 DEF HolderInv

LEMMA NextHolder ==
  ASSUME TypeOK, PlaceInv, HolderInv, [Next]_vars
  PROVE  HolderInv'
<1>1. ASSUME NEW c \in Command, TaskStep(c) PROVE HolderInv'
  BY <1>1, MidStep, EndStep, HoldersKept
<1>2. ASSUME NEW c \in Command, NEW n \in Node, TurnDown(c, n) PROVE HolderInv'
  <2>1. \A d \in Command : task[d] \in Task
    BY DEF TypeOK
  <2>2. UNCHANGED running /\ task' = [task EXCEPT ![c].stage = "refused"]
        /\ task \in [Command -> Task]
    BY <1>2 DEF TurnDown, TypeOK
  <2>3. \A d \in Command : Holds(d)' => Holds(d) /\ task'[d].at = task[d].at
    BY <2>1, <2>2 DEF Holds, Active, Task
  <2> QED BY <2>2, <2>3, HoldersKept
<1>3. ASSUME NEW c \in Command, NEW n \in Node, NEW arg \in Argument, Begin(c, n, arg)
      PROVE  HolderInv'
  BY <1>3, BeginStep
<1>4. ASSUME NEW c \in Command, NEW n \in Node, NEW u \in Url, CallStep(c, n, u)
      PROVE  UNCHANGED <<task, running>>
  BY <1>4 DEF CallStep, Refuse, Accept, SaveFails, LauncherEnds, LauncherFails, Drop
<1>5. ASSUME NEW n \in Node, CooldownEnds(n) \/ LeaderMoves(n)
      PROVE  UNCHANGED <<task, running>>
  BY <1>5 DEF CooldownEnds, LeaderMoves
<1>6. ASSUME NEW n \in Node, RunRestarts(n) \/ Restart(n) PROVE HolderInv'
  BY <1>6, RestartStep
<1>7. ASSUME UNCHANGED <<task, running>> PROVE HolderInv'
  BY <1>7 DEF HolderInv, FlagInv, OneDispatch, Active
<1> QED BY <1>1, <1>2, <1>3, <1>4, <1>5, <1>6, <1>7 DEF Next, vars

-----------------------------------------------------------------------------
(* Where a command is in its targets.                                      *)

\* The targets it is done with.
Passed(t) == {t.targets[i] : i \in 1 .. (t.next - 1)}

\* A command tells of the targets it is done with, each as one thing, and its
\* targets are what was resolved for it.
Told(t) ==
  /\ t.stage \in {"none", "begun", "refused"} => t.targets = <<>> /\ t.next = 1
  /\ t.targets # <<>> =>
       t.at \in Node /\ Known(t.arg) /\ t.targets = Targets(t.at, t.arg)
  /\ t.next =< Len(t.targets) + 1
  /\ t.stage = "done" => t.next = Len(t.targets) + 1
  /\ t.queued \cup t.failed = Passed(t)
  /\ t.queued \cap t.failed = {}

ToldInv == \A c \in Command : Told(task[c])

\* A node hears of a command only in its turn.
Asked(c, n) == launches[n][c] > 0 \/ \E u \in Url : call[c][n][u] # "none"

TurnInv ==
  \A c \in Command, n \in Node : Asked(c, n) =>
    \E i \in DOMAIN task[c].targets : i =< task[c].next /\ task[c].targets[i] = n

LEMMA ToldReplaced ==
  ASSUME task \in [Command -> Task], ToldInv, NEW c \in Command,
         NEW t, Told(t), task' = [task EXCEPT ![c] = t]
  PROVE  ToldInv'
<1>1. \A d \in Command : task'[d] = IF d = c THEN t ELSE task[d]
  OBVIOUS
<1>2. \A d \in Command : Told(task'[d])
  BY <1>1 DEF ToldInv
<1> QED BY <1>2 DEF ToldInv

LEMMA ToldDistinct ==
  ASSUME NEW t \in Task, Told(t)
  PROVE  Distinct(t.targets)
<1>1. CASE t.targets = <<>>
  BY <1>1 DEF Distinct
<1>2. CASE t.targets # <<>>
  BY <1>2, TargetsResolved DEF Told, Task
<1> QED BY <1>1, <1>2

\* A target that is done with is told of, and none is told of twice.
LEMMA Advanced ==
  ASSUME NEW t \in Task, Placed(t), Told(t), t.next =< Len(t.targets),
         NEW s \in Task, s.next = t.next + 1, s.targets = t.targets,
         s.at = t.at, s.arg = t.arg, s.stage = "asking", t.stage \in {"asking", "waiting"},
         \/ s.queued = t.queued \cup {t.targets[t.next]} /\ s.failed = t.failed
         \/ s.failed = t.failed \cup {t.targets[t.next]} /\ s.queued = t.queued
  PROVE  Told(s)
<1> DEFINE x == t.targets[t.next]
<1>1. t.targets \in Seq(Node) /\ t.next \in 1 .. Len(t.targets) /\ Len(t.targets) \in Nat
  BY DEF Task, Placed
<1>2. Passed(s) = Passed(t) \cup {x}
  <2>1. 1 .. (s.next - 1) = 1 .. (t.next - 1) \cup {t.next}
    BY <1>1
  <2> QED BY <2>1 DEF Passed
<1>3. x \notin Passed(t)
  <2> SUFFICES ASSUME NEW i \in 1 .. (t.next - 1), t.targets[i] = x PROVE FALSE
    BY DEF Passed
  <2>1. i \in DOMAIN t.targets /\ t.next \in DOMAIN t.targets /\ i # t.next
    BY <1>1
  <2> QED BY <2>1, ToldDistinct DEF Distinct
<1>4. /\ s.queued \cup s.failed = (t.queued \cup t.failed) \cup {x}
      /\ t.queued \cup t.failed = Passed(t)
      /\ t.queued \cap t.failed = {}
  BY DEF Told
<1>5. s.queued \cap s.failed = {}
  BY <1>3, <1>4
<1>6. s.next =< Len(s.targets) + 1
  BY <1>1
<1> QED BY <1>2, <1>4, <1>5, <1>6 DEF Told

\* A step that leaves a command where it is.
LEMMA Stayed ==
  ASSUME NEW t \in Task, Told(t), NEW s \in Task,
         s.next = t.next, s.targets = t.targets, s.queued = t.queued, s.failed = t.failed,
         t.targets = <<>> \/ (s.at = t.at /\ s.arg = t.arg),
         s.stage \in {"none", "begun", "refused"} => t.stage \in {"none", "begun", "refused"},
         s.stage = "done" => t.next = Len(t.targets) + 1
  PROVE  Told(s)
<1>1. Passed(s) = Passed(t)
  BY DEF Passed
<1> QED BY <1>1 DEF Told

LEMMA TaskStepTold ==
  ASSUME TypeOK, PlaceInv, ToldInv, NEW c \in Command, TaskStep(c)
  PROVE  ToldInv'
<1>0. /\ task \in [Command -> Task] /\ task' \in [Command -> Task]
      /\ task[c] \in Task /\ task'[c] \in Task /\ Placed(task[c]) /\ Told(task[c])
  BY TaskStepType DEF TypeOK, PlaceInv, ToldInv
<1>1. task' = [task EXCEPT ![c] = task'[c]]
  BY <1>0 DEF TaskStep, Resolve, TurnedAway, Ask, CannotSign, Hears, TryNextUrl, GiveUp, Report
<1> SUFFICES Told(task'[c])
  BY <1>0, <1>1, ToldReplaced
<1>2. CASE Resolve(c)
  <2> DEFINE t == task[c]
             s == task'[c]
  <2>1. /\ s.stage = "asking" /\ s.targets = Targets(t.at, t.arg) /\ s.at = t.at
        /\ s.arg = t.arg /\ s.next = t.next /\ s.queued = t.queued /\ s.failed = t.failed
    BY <1>0, <1>2 DEF Resolve, Task
  <2>2. t.at \in Node /\ Known(t.arg) /\ t.next = 1 /\ t.targets = <<>>
    BY <1>0, <1>2 DEF Resolve, Placed, Told
  <2>3. Passed(s) = {} /\ Passed(t) = {}
    BY <2>1, <2>2 DEF Passed
  <2>4. s.next =< Len(s.targets) + 1
    BY <1>0, <2>1, <2>2 DEF Task
  <2> QED BY <1>0, <2>1, <2>2, <2>3, <2>4 DEF Told
<1>3. CASE TurnedAway(c) \/ Report(c)
  <2>1. /\ task'[c].stage = "done" /\ task'[c].targets = task[c].targets
        /\ task'[c].at = task[c].at /\ task'[c].arg = task[c].arg
        /\ task'[c].next = task[c].next /\ task'[c].queued = task[c].queued
        /\ task'[c].failed = task[c].failed
    BY <1>0, <1>3 DEF TurnedAway, Report, Task
  <2>2. task[c].next = Len(task[c].targets) + 1
    <3>1. CASE TurnedAway(c)
      BY <1>0, <3>1 DEF TurnedAway, Told
    <3>2. CASE Report(c)
      BY <1>0, <3>2 DEF Report, Told, Task
    <3> QED BY <1>3, <3>1, <3>2
  <2> QED BY <1>0, <2>1, <2>2, Stayed
<1>4. CASE Ask(c)
  <2>1. /\ task'[c].stage = "waiting" /\ task'[c].targets = task[c].targets
        /\ task'[c].at = task[c].at /\ task'[c].arg = task[c].arg
        /\ task'[c].next = task[c].next /\ task'[c].queued = task[c].queued
        /\ task'[c].failed = task[c].failed
    BY <1>0, <1>4 DEF Ask, Task
  <2> QED BY <1>0, <2>1, Stayed
<1>5. CASE TryNextUrl(c)
  <2>1. /\ task'[c].stage = "waiting" /\ task'[c].targets = task[c].targets
        /\ task'[c].at = task[c].at /\ task'[c].arg = task[c].arg
        /\ task'[c].next = task[c].next /\ task'[c].queued = task[c].queued
        /\ task'[c].failed = task[c].failed
    BY <1>0, <1>5 DEF TryNextUrl, CameToNothing, Task
  <2> QED BY <1>0, <2>1, Stayed
<1>6. CASE CannotSign(c)
  <2>1. /\ task[c].stage = "asking" /\ task[c].next =< Len(task[c].targets)
        /\ task'[c].stage = "asking" /\ task'[c].targets = task[c].targets
        /\ task'[c].at = task[c].at /\ task'[c].arg = task[c].arg
        /\ task'[c].next = task[c].next + 1 /\ task'[c].queued = task[c].queued
        /\ task'[c].failed = task[c].failed \cup {task[c].targets[task[c].next]}
    BY <1>0, <1>6 DEF CannotSign, More, Task, Target
  <2> QED BY <1>0, <2>1, Advanced
<1>7. CASE Hears(c)
  <2>1. /\ task[c].stage = "waiting" /\ task[c].next =< Len(task[c].targets)
        /\ task'[c].stage = "asking" /\ task'[c].targets = task[c].targets
        /\ task'[c].at = task[c].at /\ task'[c].arg = task[c].arg
        /\ task'[c].next = task[c].next + 1 /\ task'[c].failed = task[c].failed
        /\ task'[c].queued = task[c].queued \cup {task[c].targets[task[c].next]}
    BY <1>0, <1>7 DEF Hears, Task, Target, Placed
  <2> QED BY <1>0, <2>1, Advanced
<1>8. CASE GiveUp(c)
  <2>1. /\ task[c].stage = "waiting" /\ task[c].next =< Len(task[c].targets)
        /\ task'[c].stage = "asking" /\ task'[c].targets = task[c].targets
        /\ task'[c].at = task[c].at /\ task'[c].arg = task[c].arg
        /\ task'[c].next = task[c].next + 1 /\ task'[c].queued = task[c].queued
        /\ task'[c].failed = task[c].failed \cup {task[c].targets[task[c].next]}
    BY <1>0, <1>8 DEF GiveUp, CameToNothing, Task, Target, Placed
  <2> QED BY <1>0, <2>1, Advanced
<1> QED BY <1>2, <1>3, <1>4, <1>5, <1>6, <1>7, <1>8 DEF TaskStep

LEMMA NextTold ==
  ASSUME TypeOK, PlaceInv, ToldInv, [Next]_vars
  PROVE  ToldInv'
<1>0. /\ task \in [Command -> Task] /\ task' \in [Command -> Task]
  BY NextType DEF TypeOK
<1>1. ASSUME NEW c \in Command, TaskStep(c) PROVE ToldInv'
  BY <1>1, TaskStepTold
<1>2. ASSUME NEW c \in Command, NEW n \in Node,
             TurnDown(c, n) \/ \E arg \in Argument : Begin(c, n, arg)
      PROVE  ToldInv'
  <2>1. /\ task[c] \in Task /\ task'[c] \in Task /\ Told(task[c])
    BY <1>0 DEF ToldInv
  <2>2. task' = [task EXCEPT ![c] = task'[c]]
    BY <1>0, <1>2 DEF TurnDown, Begin
  <2>3. /\ task[c].stage = "none" /\ task'[c].stage \in {"begun", "refused"}
        /\ task'[c].targets = task[c].targets /\ task'[c].next = task[c].next
        /\ task'[c].queued = task[c].queued /\ task'[c].failed = task[c].failed
    <3>1. CASE TurnDown(c, n)
      BY <1>0, <2>1, <3>1 DEF TurnDown, Task
    <3>2. ASSUME NEW arg \in Argument, Begin(c, n, arg) PROVE <2>3!:
      BY <1>0, <2>1, <3>2 DEF Begin, Task
    <3> QED BY <1>2, <3>1, <3>2
  <2>4. task[c].targets = <<>>
    BY <2>1, <2>3 DEF Told
  <2>5. Told(task'[c])
    BY <2>1, <2>3, <2>4, Stayed
  <2> QED BY <1>0, <2>2, <2>5, ToldReplaced
<1>3. ASSUME NEW n \in Node, RunRestarts(n) \/ Restart(n) PROVE ToldInv'
  <2> SUFFICES ASSUME NEW c \in Command PROVE Told(task'[c])
    BY DEF ToldInv
  <2>1. task[c] \in Task /\ task'[c] \in Task /\ Told(task[c])
    BY <1>0 DEF ToldInv
  <2>2. CASE ~(Active(c) /\ task[c].at = n)
    <3>1. task'[c] = task[c]
      BY <1>3, <2>2 DEF RunRestarts, Restart
    <3> QED BY <2>1, <3>1
  <2>3. CASE Active(c) /\ task[c].at = n
    <3>1. \/ task'[c] = [task[c] EXCEPT !.orphan = TRUE]
          \/ task'[c] = [task[c] EXCEPT !.stage = "dead"]
      BY <1>3, <2>3 DEF RunRestarts, Restart
    <3>2. /\ task'[c].targets = task[c].targets /\ task'[c].next = task[c].next
          /\ task'[c].queued = task[c].queued /\ task'[c].failed = task[c].failed
          /\ task'[c].at = task[c].at /\ task'[c].arg = task[c].arg
          /\ task'[c].stage \in {task[c].stage, "dead"}
      BY <2>1, <3>1 DEF Task
    <3>3. task[c].stage # "done"
      BY <2>3 DEF Active
    <3> QED BY <2>1, <3>2, <3>3, Stayed
  <2> QED BY <2>2, <2>3
<1>4. ASSUME NEW c \in Command, NEW n \in Node, NEW u \in Url, CallStep(c, n, u)
      PROVE  UNCHANGED task
  BY <1>4 DEF CallStep, Refuse, Accept, SaveFails, LauncherEnds, LauncherFails, Drop
<1>5. ASSUME NEW n \in Node, CooldownEnds(n) \/ LeaderMoves(n) PROVE UNCHANGED task
  BY <1>5 DEF CooldownEnds, LeaderMoves
<1>6. ASSUME UNCHANGED task PROVE ToldInv'
  BY <1>6 DEF ToldInv
<1> QED BY <1>1, <1>2, <1>3, <1>4, <1>5, <1>6 DEF Next, vars

\* No step takes a command back, or to other targets than it had.
LEMMA OnlyOnward ==
  ASSUME TypeOK, PlaceInv, ToldInv, [Next]_vars, NEW c \in Command
  PROVE  /\ task'[c].targets = task[c].targets \/ task[c].targets = <<>>
         /\ task'[c].next >= task[c].next
<1>0. /\ task \in [Command -> Task] /\ task[c] \in Task /\ Told(task[c])
      /\ task[c].next \in Nat
  BY DEF TypeOK, ToldInv, Task
<1>1. ASSUME NEW d \in Command, TaskStep(d)
      PROVE  /\ task'[c].targets = task[c].targets \/ task[c].targets = <<>>
             /\ task'[c].next >= task[c].next
  <2>1. CASE c # d
    <3>1. task'[c] = task[c]
      BY <1>0, <1>1, <2>1 DEF TaskStep, Resolve, TurnedAway, Ask, CannotSign, Hears,
         TryNextUrl, GiveUp, Report
    <3> QED BY <1>0, <3>1
  <2>2. CASE c = d
    <3>1. CASE Resolve(c)
      <4>1. task'[c].next = task[c].next
        BY <1>0, <3>1 DEF Resolve, Task
      <4>2. task[c].targets = <<>>
        BY <1>0, <3>1 DEF Resolve, Told
      <4> QED BY <1>0, <4>1, <4>2
    <3>2. CASE TurnedAway(c) \/ Report(c)
      <4>1. task' = [task EXCEPT ![c].stage = "done"]
        BY <3>2 DEF TurnedAway, Report
      <4> QED BY <1>0, <4>1 DEF Task
    <3>3. CASE Ask(c)
      BY <1>0, <3>3 DEF Ask, Task
    <3>4. CASE CannotSign(c)
      BY <1>0, <3>4 DEF CannotSign, Task
    <3>5. CASE Hears(c)
      BY <1>0, <3>5 DEF Hears, Task
    <3>6. CASE TryNextUrl(c)
      BY <1>0, <3>6 DEF TryNextUrl, Task
    <3>7. CASE GiveUp(c)
      BY <1>0, <3>7 DEF GiveUp, Task
    <3> QED BY <1>1, <2>2, <3>1, <3>2, <3>3, <3>4, <3>5, <3>6, <3>7 DEF TaskStep
  <2> QED BY <2>1, <2>2
<1>2. ASSUME NEW d \in Command, NEW n \in Node, TurnDown(d, n)
      PROVE  task'[c].targets = task[c].targets /\ task'[c].next >= task[c].next
  BY <1>0, <1>2 DEF TurnDown, Task
<1>3. ASSUME NEW d \in Command, NEW n \in Node, NEW arg \in Argument, Begin(d, n, arg)
      PROVE  task'[c].targets = task[c].targets /\ task'[c].next >= task[c].next
  BY <1>0, <1>3 DEF Begin, Task
<1>4. ASSUME NEW n \in Node, RunRestarts(n) \/ Restart(n)
      PROVE  task'[c].targets = task[c].targets /\ task'[c].next >= task[c].next
  <2>1. \/ task'[c] = [task[c] EXCEPT !.orphan = TRUE]
        \/ task'[c] = [task[c] EXCEPT !.stage = "dead"]
        \/ task'[c] = task[c]
    BY <1>4 DEF RunRestarts, Restart
  <2> QED BY <1>0, <2>1 DEF Task
<1>5. ASSUME NEW d \in Command, NEW n \in Node, NEW u \in Url, CallStep(d, n, u)
      PROVE  UNCHANGED task
  BY <1>5 DEF CallStep, Refuse, Accept, SaveFails, LauncherEnds, LauncherFails, Drop
<1>6. ASSUME NEW n \in Node, CooldownEnds(n) \/ LeaderMoves(n) PROVE UNCHANGED task
  BY <1>6 DEF CooldownEnds, LeaderMoves
<1>7. ASSUME UNCHANGED task
      PROVE  task'[c].targets = task[c].targets /\ task'[c].next >= task[c].next
  BY <1>0, <1>7
<1> QED BY <1>1, <1>2, <1>3, <1>4, <1>5, <1>6, <1>7 DEF Next, vars

\* The target whose turn it is.
Turned(c, n) ==
  /\ task[c].next =< Len(task[c].targets) /\ Target(c) = n
  /\ UNCHANGED task[c].targets

LEMMA TurnKept ==
  ASSUME TypeOK, PlaceInv, ToldInv, TurnInv, [Next]_vars,
         \A c \in Command, n \in Node : Asked(c, n)' => Asked(c, n) \/ Turned(c, n)
  PROVE  TurnInv'
<1> SUFFICES ASSUME NEW c \in Command, NEW n \in Node, Asked(c, n)'
             PROVE  \E i \in DOMAIN task'[c].targets :
                      i =< task'[c].next /\ task'[c].targets[i] = n
  BY DEF TurnInv
<1>0. /\ task[c] \in Task /\ task[c].next \in Nat /\ task[c].next >= 1
      /\ task'[c].next \in Nat /\ task'[c].next >= task[c].next
      /\ task[c].targets \in Seq(Node)
      /\ task'[c].targets = task[c].targets \/ task[c].targets = <<>>
  BY NextType, OnlyOnward DEF TypeOK, Task, PlaceInv, Placed
<1>1. PICK i \in DOMAIN task[c].targets : i =< task[c].next /\ task[c].targets[i] = n
  <2>1. CASE Asked(c, n)
    BY <2>1 DEF TurnInv
  <2>2. CASE Turned(c, n)
    BY <1>0, <2>2 DEF Turned, Target
  <2> QED BY <2>1, <2>2
<1>2. task'[c].targets = task[c].targets
  BY <1>0, <1>1
<1>3. i \in Nat
  BY <1>0, <1>1
<1> QED BY <1>0, <1>1, <1>2, <1>3

LEMMA TaskStepTurn ==
  ASSUME TypeOK, PlaceInv, NEW d \in Command, TaskStep(d), NEW c \in Command, NEW n \in Node,
         Asked(c, n)'
  PROVE  Asked(c, n) \/ Turned(c, n)
<1> USE DEF guards
<1>0. /\ call \in [Command -> [Node -> [Url -> CallStage]]]
      /\ task \in [Command -> Task] /\ task[d] \in Task
  BY DEF TypeOK
<1>1. UNCHANGED launches
  BY DEF TaskStep, Resolve, TurnedAway, Ask, CannotSign, Hears, TryNextUrl, GiveUp, Report
<1>2. \A m \in Node, u \in Url : Left(d)[m][u] # "none" => call[d][m][u] # "none"
  BY <1>0 DEF Left
<1>3. CASE UNCHANGED call
  BY <1>1, <1>3 DEF Asked
<1>4. CASE Ask(d)
  <2>1. call' = [call EXCEPT ![d] = [call[d] EXCEPT ![Target(d)][1] = "sent"]]
    BY <1>4 DEF Ask
  <2>2. UNCHANGED task[d].targets /\ task[d].next =< Len(task[d].targets)
    BY <1>0, <1>4 DEF Ask, More, Task
  <2>3. \A u \in Url : call'[c][n][u] # "none" =>
          call[c][n][u] # "none" \/ (c = d /\ n = Target(d))
    BY <1>0, <2>1
  <2> QED BY <1>1, <2>2, <2>3 DEF Asked, Turned
<1>5. CASE Hears(d)
  <2>1. call' = [call EXCEPT ![d] = Left(d)]
    BY <1>5 DEF Hears
  <2>2. \A u \in Url : call'[c][n][u] # "none" => call[c][n][u] # "none"
    BY <1>0, <1>2, <2>1
  <2> QED BY <1>1, <2>2 DEF Asked
<1>6. CASE TryNextUrl(d)
  <2>1. PICK K \in {Left(d), call[d]} :
          call' = [call EXCEPT ![d] = [K EXCEPT ![Target(d)][task[d].url + 1] = "sent"]]
    BY <1>6 DEF TryNextUrl, Leaves
  <2>2. task[d].next =< Len(task[d].targets)
    BY <1>6 DEF TryNextUrl, CameToNothing, PlaceInv, Placed
  <2>3. Target(d) \in Node /\ task[d].url \in Url
    BY <1>0, <2>2, TargetInNode DEF Task
  <2>4. K \in [Node -> [Url -> CallStage]]
    BY <1>0, <2>1, <2>3, LeftAnswers DEF Calls
  <2>5. \A m \in Node, u \in Url : K[m][u] # "none" => call[d][m][u] # "none"
    BY <1>2, <2>1
  <2>6. \A u \in Url : call'[c][n][u] # "none" =>
          call[c][n][u] # "none" \/ (c = d /\ n = Target(d))
    BY <1>0, <2>1, <2>4, <2>5
  <2>7. UNCHANGED task[d].targets
    BY <1>0, <1>6 DEF TryNextUrl, Task
  <2> QED BY <1>1, <2>2, <2>6, <2>7 DEF Asked, Turned
<1>7. CASE GiveUp(d)
  <2>1. PICK K \in {Left(d), call[d]} : call' = [call EXCEPT ![d] = K]
    BY <1>7 DEF GiveUp, Leaves
  <2>2. \A u \in Url : call'[c][n][u] # "none" => call[c][n][u] # "none"
    BY <1>0, <1>2, <2>1
  <2> QED BY <1>1, <2>2 DEF Asked
<1> QED BY <1>3, <1>4, <1>5, <1>6, <1>7
        DEF TaskStep, Resolve, TurnedAway, CannotSign, Report

LEMMA NextTurn ==
  ASSUME TypeOK, PlaceInv, ToldInv, TurnInv, [Next]_vars
  PROVE  TurnInv'
<1> USE DEF guards
<1>0. /\ call \in [Command -> [Node -> [Url -> CallStage]]]
      /\ launches \in [Node -> [Command -> Nat]]
  BY DEF TypeOK
<1> SUFFICES ASSUME NEW c \in Command, NEW n \in Node, Asked(c, n)'
             PROVE  Asked(c, n) \/ Turned(c, n)
  BY TurnKept
<1>1. ASSUME NEW d \in Command, TaskStep(d) PROVE Asked(c, n) \/ Turned(c, n)
  BY <1>1, TaskStepTurn
<1>2. ASSUME NEW d \in Command, NEW m \in Node, NEW u \in Url, CallStep(d, m, u)
      PROVE  Asked(c, n)
  <2>1. call[d][m][u] # "none"
    BY <1>2 DEF CallStep, Refuse, Accept, SaveFails, LauncherEnds, LauncherFails, Drop
  <2>2. CASE c = d /\ n = m
    BY <2>1, <2>2 DEF Asked
  <2>3. CASE ~(c = d /\ n = m)
    <3>1. PICK answer \in CallStage : call' = [call EXCEPT ![d][m][u] = answer]
      BY <1>2 DEF CallStep, Refuse, Accept, SaveFails, LauncherEnds, LauncherFails, Drop,
         Answered, CallStage
    <3>2. call'[c][n] = call[c][n]
      BY <1>0, <2>3, <3>1
    <3>3. launches'[n][c] = launches[n][c]
      <4>1. launches' = [launches EXCEPT ![m][d] = @ + 1] \/ launches' = launches
        BY <1>2 DEF CallStep, Refuse, Accept, SaveFails, LauncherEnds, LauncherFails, Drop
      <4> QED BY <1>0, <2>3, <4>1
    <3> QED BY <3>2, <3>3 DEF Asked
  <2> QED BY <2>2, <2>3
<1>3. ASSUME NEW m \in Node, Restart(m) PROVE Asked(c, n)
  <2>1. call'[c] = [call[c] EXCEPT ![m] =
          [u \in Url |-> IF call[c][m][u] \in {"sent", "launching"}
                         THEN "no" ELSE call[c][m][u]]]
    BY <1>3 DEF Restart
  <2>2. \A u \in Url : call'[c][n][u] # "none" => call[c][n][u] # "none"
    BY <1>0, <2>1
  <2>3. UNCHANGED launches
    BY <1>3 DEF Restart
  <2> QED BY <2>2, <2>3 DEF Asked
<1>4. ASSUME NEW m \in Node, CooldownEnds(m) \/ LeaderMoves(m) \/ RunRestarts(m)
      PROVE  UNCHANGED <<call, launches>>
  BY <1>4 DEF CooldownEnds, LeaderMoves, RunRestarts
<1>5. ASSUME NEW d \in Command, NEW m \in Node,
             TurnDown(d, m) \/ \E arg \in Argument : Begin(d, m, arg)
      PROVE  UNCHANGED <<call, launches>>
  BY <1>5 DEF TurnDown, Begin
<1>6. ASSUME UNCHANGED <<call, launches>> PROVE Asked(c, n)
  BY <1>6 DEF Asked
<1> QED BY <1>1, <1>2, <1>3, <1>4, <1>5, <1>6 DEF Next, vars

-----------------------------------------------------------------------------
(* The theorems.                                                           *)

LEMMA DispatchInvariant == Spec => []DispatchInv
<1>1. Init => DispatchInv
  <2>1. Init => TypeOK /\ PlaceInv
    BY InitType
  <2>2. Init => LaunchInv /\ AnswerInv
    BY DEF Init, LaunchInv, AnswerInv
  <2>3. Init => QueuedIsScheduled /\ FlagInv /\ OneDispatch
    BY DEF Init, QueuedIsScheduled, FlagInv, OneDispatch, Active
  <2> QED BY <2>1, <2>2, <2>3 DEF DispatchInv
<1>2. DispatchInv /\ [Next]_vars => DispatchInv'
  BY NextType, NextLaunch, NextAnswer, NextHolder DEF DispatchInv, HolderInv
<1> QED BY <1>1, <1>2, PTL DEF Spec

\* Type correctness of the leader's task and of its targets.
THEOREM TypeCorrect == Spec => []TypeOK
BY DispatchInvariant, PTL DEF DispatchInv

\* schedule_update_request starts the launcher of a node at most once for a command,
\* over whatever addresses and however late its attempts arrive.
THEOREM LaunchedAtMostOnce == Spec => []LaunchedOnce
<1>1. DispatchInv => LaunchedOnce
  BY DEF DispatchInv, LaunchInv, LaunchedOnce
<1> QED BY <1>1, DispatchInvariant, PTL

\* handle_update_command lists a host as queued only if its launcher has succeeded.
THEOREM QueuedAlwaysScheduled == Spec => []QueuedIsScheduled
BY DispatchInvariant, PTL DEF DispatchInv

\* try_begin_operation and finish_operation let one dispatch run at a time.
THEOREM OneDispatchAtATime == Spec => []OneDispatch
BY DispatchInvariant, PTL DEF DispatchInv

ProgressInv == ToldInv /\ TurnInv

LEMMA ProgressInvariant == Spec => []ProgressInv
<1>1. Init => ProgressInv
  <2>1. Init => ToldInv
    BY DEF Init, ToldInv, Told, Passed
  <2>2. Init => TurnInv
    BY DEF Init, TurnInv, Asked
  <2> QED BY <2>1, <2>2 DEF ProgressInv
<1>2. DispatchInv /\ ProgressInv /\ [Next]_vars => ProgressInv'
  BY NextTold, NextTurn DEF DispatchInv, ProgressInv
<1> QED BY <1>1, <1>2, DispatchInvariant, PTL DEF Spec

\* The report of handle_update_command names every target it resolved, none as both
\* queued and failed, whatever became of the attempts.
THEOREM EveryTargetAlwaysTold == Spec => []EveryTargetTold
<1>1. TypeOK /\ ProgressInv => EveryTargetTold
  <2> SUFFICES ASSUME TypeOK, ProgressInv, NEW c \in Command
               PROVE  /\ task[c].queued \cap task[c].failed = {}
                      /\ task[c].stage = "done" =>
                           task[c].queued \cup task[c].failed =
                             {task[c].targets[i] : i \in DOMAIN task[c].targets}
    BY DEF EveryTargetTold
  <2>1. Told(task[c]) /\ task[c].targets \in Seq(Node)
    BY DEF ProgressInv, ToldInv, TypeOK, Task
  <2>2. ASSUME task[c].stage = "done"
        PROVE  1 .. (task[c].next - 1) = DOMAIN task[c].targets
    BY <2>1, <2>2 DEF Told
  <2> QED BY <2>1, <2>2 DEF Told, Passed
<1> QED BY <1>1, DispatchInvariant, ProgressInvariant, PTL DEF DispatchInv

\* When /update all starts the launcher of the node that leads it, every other host
\* has been settled: what resolve_update_targets puts last is reached last, over any
\* addresses and however late attempts arrive.
THEOREM LeaderAlwaysLast == Spec => []LeaderLastOfAll
<1>1. TypeOK /\ PlaceInv /\ ProgressInv => LeaderLastOfAll
  <2> SUFFICES ASSUME TypeOK, PlaceInv, ProgressInv, NEW c \in Command, task[c].arg = All,
                      task[c].at # None, launches[task[c].at][c] > 0,
                      NEW j \in DOMAIN task[c].targets,
                      task[c].targets[j] # task[c].at
               PROVE  task[c].targets[j] \in Settled(c)
    BY DEF LeaderLastOfAll, AskedBeforeLeader
  <2>1. /\ Told(task[c]) /\ task[c].targets \in Seq(Node) /\ task[c].at \in Node
        /\ task[c].next \in Nat /\ task[c].arg \in Argument
    BY DEF ProgressInv, ToldInv, TypeOK, Task
  <2>2. PICK i \in DOMAIN task[c].targets :
          i =< task[c].next /\ task[c].targets[i] = task[c].at
    BY <2>1 DEF ProgressInv, TurnInv, Asked
  <2>3. task[c].targets = Targets(task[c].at, All) /\ Known(All)
    BY <2>1, <2>2 DEF Told
  <2>4. i = Len(task[c].targets) /\ j # Len(task[c].targets)
    BY <2>1, <2>2, <2>3, TargetsResolved
  <2>5. j \in 1 .. (task[c].next - 1)
    BY <2>1, <2>2, <2>4
  <2> QED BY <2>5 DEF Settled
<1> QED BY <1>1, DispatchInvariant, ProgressInvariant, PTL DEF DispatchInv
-----------------------------------------------------------------------------
(* The updater the commands make of each node.                             *)

\* One launcher at a time on a node, and only while the node's cooldown lasts.
WorkInv ==
  /\ \A c \in Command, n \in Node, u \in Url : call[c][n][u] = "launching" => busy[n]
  /\ \A c, d \in Command, n \in Node, u, v \in Url :
       call[c][n][u] = "launching" /\ call[d][n][v] = "launching" => c = d /\ u = v

\* No launcher starts.
NoNewWork ==
  /\ UNCHANGED launches
  /\ \A c \in Command, n \in Node, u \in Url :
       call'[c][n][u] = "launching" => call[c][n][u] = "launching"

\* A step in which none starts is for the updater of a node an end or nothing.
LEMMA WorkGoesOnOrEnds ==
  ASSUME WorkInv, NoNewWork, NEW n \in Node
  PROVE  [Updater(n)!Next]_(Updater(n)!vars)
<1>1. AtWork(n)' \subseteq AtWork(n)
  BY DEF NoNewWork, AtWork
<1>2. \A c, d \in AtWork(n) : c = d
  BY DEF WorkInv, AtWork
<1>3. launches[n]' = launches[n]
  BY DEF NoNewWork
<1>4. CASE AtWork(n)' = AtWork(n)
  BY <1>3, <1>4 DEF Updater!vars
<1>5. CASE AtWork(n)' # AtWork(n)
  <2>1. AtWork(n)' = {} /\ AtWork(n) # {}
    BY <1>1, <1>2, <1>5
  <2> QED BY <1>3, <2>1 DEF Updater!Next, Updater!End
<1> QED BY <1>4, <1>5

LEMMA TaskStepWork ==
  ASSUME TypeOK, PlaceInv, NEW c \in Command, TaskStep(c)
  PROVE  NoNewWork /\ UNCHANGED busy
<1> USE DEF guards
<1>0. call \in [Command -> [Node -> [Url -> CallStage]]]
  BY DEF TypeOK
<1>1. UNCHANGED <<launches, busy>>
  BY DEF TaskStep, Resolve, TurnedAway, Ask, CannotSign, Hears, TryNextUrl, GiveUp, Report
<1>2. \A n \in Node, u \in Url : Left(c)[n][u] = "launching" => call[c][n][u] = "launching"
  BY <1>0 DEF Left
<1>3. CASE UNCHANGED call
  BY <1>1, <1>3 DEF NoNewWork
<1>4. CASE Ask(c)
  <2>1. call' = [call EXCEPT ![c] = [call[c] EXCEPT ![Target(c)][1] = "sent"]]
    BY <1>4 DEF Ask
  <2> QED BY <1>0, <1>1, <2>1 DEF NoNewWork
<1>5. CASE Hears(c)
  <2>1. call' = [call EXCEPT ![c] = Left(c)]
    BY <1>5 DEF Hears
  <2> QED BY <1>0, <1>1, <1>2, <2>1 DEF NoNewWork
<1>6. CASE TryNextUrl(c)
  <2>1. PICK K \in {Left(c), call[c]} :
          call' = [call EXCEPT ![c] = [K EXCEPT ![Target(c)][task[c].url + 1] = "sent"]]
    BY <1>6 DEF TryNextUrl, Leaves
  <2>2. task[c].next =< Len(task[c].targets) /\ task[c] \in Task
    BY <1>6 DEF TryNextUrl, CameToNothing, PlaceInv, Placed, TypeOK
  <2>3. Target(c) \in Node /\ task[c].url \in Url
    BY <2>2, TargetInNode DEF Task
  <2>4. K \in [Node -> [Url -> CallStage]]
    BY <1>0, <2>1, <2>3, LeftAnswers DEF Calls
  <2>5. \A n \in Node, u \in Url :
          [K EXCEPT ![Target(c)][task[c].url + 1] = "sent"][n][u] = "launching"
            => K[n][u] = "launching"
    BY <2>4
  <2>6. \A n \in Node, u \in Url : K[n][u] = "launching" => call[c][n][u] = "launching"
    BY <1>2, <2>1
  <2> QED BY <1>0, <1>1, <2>1, <2>5, <2>6 DEF NoNewWork
<1>7. CASE GiveUp(c)
  <2>1. PICK K \in {Left(c), call[c]} : call' = [call EXCEPT ![c] = K]
    BY <1>7 DEF GiveUp, Leaves
  <2> QED BY <1>0, <1>1, <1>2, <2>1 DEF NoNewWork
<1> QED
  BY <1>3, <1>4, <1>5, <1>6, <1>7 DEF TaskStep, Resolve, TurnedAway, CannotSign, Report

\* A launcher that ends was the only one of its node.
LEMMA CallStepWork ==
  ASSUME TypeOK, WorkInv, NEW c \in Command, NEW n \in Node, NEW u \in Url,
         CallStep(c, n, u), ~Accept(c, n, u)
  PROVE  NoNewWork /\ WorkInv'
<1> USE DEF guards
<1>0. /\ call \in [Command -> [Node -> [Url -> CallStage]]]
      /\ busy \in [Node -> BOOLEAN]
  BY DEF TypeOK
<1>1. PICK answer \in CallStage \ {"launching"} : call' = [call EXCEPT ![c][n][u] = answer]
  BY DEF CallStep, Refuse, SaveFails, LauncherEnds, LauncherFails, Drop, Answered, CallStage
<1>2. \A d \in Command, m \in Node, v \in Url :
        call'[d][m][v] = "launching" =>
          call[d][m][v] = "launching" /\ ~(d = c /\ m = n /\ v = u)
  BY <1>0, <1>1
<1>3. NoNewWork
  BY <1>2 DEF NoNewWork, CallStep, Refuse, SaveFails, LauncherEnds, LauncherFails, Drop
<1>4. CASE LauncherFails(c, n, u)
  <2>1. call[c][n][u] = "launching" /\ busy' = [busy EXCEPT ![n] = FALSE]
    BY <1>4 DEF LauncherFails
  <2>2. \A d \in Command, v \in Url : call'[d][n][v] # "launching"
    BY <1>2, <2>1 DEF WorkInv
  <2>3. \A d \in Command, m \in Node, v \in Url :
          call'[d][m][v] = "launching" => busy[m] /\ m # n
    BY <1>2, <2>2 DEF WorkInv
  <2>4. \A d \in Command, m \in Node, v \in Url :
          call'[d][m][v] = "launching" => busy'[m]
    BY <1>0, <2>1, <2>3
  <2> QED BY <1>2, <1>3, <2>4 DEF WorkInv
<1>5. CASE ~LauncherFails(c, n, u)
  <2>1. \A m \in Node : busy[m] => busy'[m]
    BY <1>0, <1>5 DEF CallStep, Refuse, SaveFails, LauncherEnds, Drop
  <2> QED BY <1>2, <1>3, <2>1 DEF WorkInv
<1> QED BY <1>4, <1>5

\* One that starts finds no other there, and none of its command before it.
LEMMA AcceptWork ==
  ASSUME TypeOK, LaunchInv, WorkInv, NEW c \in Command, NEW n \in Node, NEW u \in Url,
         Accept(c, n, u)
  PROVE  /\ WorkInv'
         /\ \A m \in Node : [Updater(m)!Next]_(Updater(m)!vars)
<1>0. /\ call \in [Command -> [Node -> [Url -> CallStage]]]
      /\ busy \in [Node -> BOOLEAN] /\ launches \in [Node -> [Command -> Nat]]
  BY DEF TypeOK
<1>1. /\ ~busy[n] /\ c \notin seen[n]
      /\ call' = [call EXCEPT ![c][n][u] = "launching"]
      /\ busy' = [busy EXCEPT ![n] = TRUE]
      /\ launches' = [launches EXCEPT ![n][c] = launches[n][c] + 1]
  BY DEF Accept, Refuses
<1>2. \A d \in Command, v \in Url : call[d][n][v] # "launching"
  BY <1>1 DEF WorkInv
<1>3. \A d \in Command, m \in Node, v \in Url :
        call'[d][m][v] = "launching" <=>
          call[d][m][v] = "launching" \/ (d = c /\ m = n /\ v = u)
  BY <1>0, <1>1
<1>4. \A m \in Node : busy'[m] <=> busy[m] \/ m = n
  BY <1>0, <1>1
<1>5. WorkInv'
  BY <1>2, <1>3, <1>4 DEF WorkInv
<1>6. ASSUME NEW m \in Node, m # n PROVE UNCHANGED Updater(m)!vars
  <2>1. AtWork(m)' = AtWork(m)
    BY <1>3, <1>6 DEF AtWork
  <2>2. launches'[m] = launches[m]
    BY <1>0, <1>1, <1>6
  <2> QED BY <2>1, <2>2 DEF Updater!vars
<1>7. Updater(n)!Launch(c)
  <2>1. launches[n][c] = 0
    <3>1. launches[n][c] \in Nat /\ launches[n][c] =< 1 /\ launches[n][c] # 1
      BY <1>0, <1>1 DEF LaunchInv
    <3> QED BY <3>1
  <2>2. AtWork(n) = {} /\ AtWork(n)' = {c}
    BY <1>2, <1>3 DEF AtWork
  <2>3. launches'[n] = [launches[n] EXCEPT ![c] = 1]
    BY <1>0, <1>1, <2>1
  <2> QED BY <2>1, <2>2, <2>3 DEF Updater!Launch
<1> QED BY <1>5, <1>6, <1>7 DEF Updater!Next

LEMMA NextWork ==
  ASSUME TypeOK, PlaceInv, LaunchInv, WorkInv, [Next]_vars
  PROVE  WorkInv' /\ \A n \in Node : [Updater(n)!Next]_(Updater(n)!vars)
<1> USE DEF guards
<1>1. ASSUME NEW c \in Command, NEW n \in Node, NEW u \in Url, Accept(c, n, u)
      PROVE  WorkInv' /\ \A m \in Node : [Updater(m)!Next]_(Updater(m)!vars)
  BY <1>1, AcceptWork
<1>2. ASSUME NEW c \in Command, NEW n \in Node, NEW u \in Url,
             CallStep(c, n, u), ~Accept(c, n, u)
      PROVE  NoNewWork /\ WorkInv'
  BY <1>2, CallStepWork
<1>3. ASSUME NoNewWork, UNCHANGED busy PROVE WorkInv'
  BY <1>3 DEF NoNewWork, WorkInv
<1>4. ASSUME NEW c \in Command, TaskStep(c) PROVE NoNewWork /\ WorkInv'
  BY <1>3, <1>4, TaskStepWork
<1>5. ASSUME NEW n \in Node, CooldownEnds(n) PROVE NoNewWork /\ WorkInv'
  <2>1. /\ \A c \in Command, u \in Url : call[c][n][u] # "launching"
        /\ busy' = [busy EXCEPT ![n] = FALSE] /\ UNCHANGED <<call, launches>>
        /\ busy \in [Node -> BOOLEAN]
    BY <1>5 DEF CooldownEnds, TypeOK
  <2>2. \A m \in Node : m # n => busy'[m] = busy[m]
    BY <2>1
  <2> QED BY <2>1, <2>2 DEF NoNewWork, WorkInv
<1>6. ASSUME NEW n \in Node, Restart(n) PROVE NoNewWork /\ WorkInv'
  <2>1. /\ call' = [c \in Command |-> [call[c] EXCEPT ![n] =
                      [u \in Url |-> IF call[c][n][u] \in {"sent", "launching"}
                                     THEN "no" ELSE call[c][n][u]]]]
        /\ call \in [Command -> [Node -> [Url -> CallStage]]]
        /\ UNCHANGED <<busy, launches>>
    BY <1>6 DEF Restart, TypeOK
  <2>2. \A c \in Command, m \in Node, u \in Url :
          call'[c][m][u] = "launching" => call[c][m][u] = "launching"
    BY <2>1
  <2> QED BY <1>3, <2>1, <2>2 DEF NoNewWork
<1>7. ASSUME UNCHANGED <<call, busy, launches>> PROVE NoNewWork /\ WorkInv'
  BY <1>3, <1>7 DEF NoNewWork
<1>8. ASSUME NEW c \in Command, NEW n \in Node,
             TurnDown(c, n) \/ \E arg \in Argument : Begin(c, n, arg)
      PROVE  UNCHANGED <<call, busy, launches>>
  BY <1>8 DEF TurnDown, Begin
<1>9. ASSUME NEW n \in Node, LeaderMoves(n) \/ RunRestarts(n)
      PROVE  UNCHANGED <<call, busy, launches>>
  BY <1>9 DEF LeaderMoves, RunRestarts
<1>10. CASE \E c \in Command, n \in Node, u \in Url : Accept(c, n, u)
  BY <1>1, <1>10
<1>11. CASE ~\E c \in Command, n \in Node, u \in Url : Accept(c, n, u)
  <2>1. NoNewWork /\ WorkInv'
    BY <1>2, <1>4, <1>5, <1>6, <1>7, <1>8, <1>9, <1>11 DEF Next, vars
  <2> QED BY <2>1, WorkGoesOnOrEnds
<1> QED BY <1>10, <1>11

\* Each target of UpdateDispatch implements UpdateLauncher: whatever URLs a leader
\* tries, whoever leads, and whichever attempts arrive late, a node launches its
\* updater once for a command and never beside another.
THEOREM TargetsImplementLauncher == Spec => LaunchesOnce
<1>1. Init => WorkInv /\ \A n \in Node : Updater(n)!Init
  BY DEF Init, WorkInv, AtWork, Updater!Init
<1>2. DispatchInv /\ WorkInv /\ [Next]_vars =>
        WorkInv' /\ \A n \in Node : [Updater(n)!Next]_(Updater(n)!vars)
  BY NextWork DEF DispatchInv
<1> DEFINE Step == \A n \in Node : [Updater(n)!Next]_(Updater(n)!vars)
           Start == \A n \in Node : Updater(n)!Init
<1>3. DispatchInv /\ WorkInv /\ [Next]_vars => WorkInv' /\ [Step]_vars
  BY <1>2
<1>4. Spec => Start /\ [][Step]_vars
  <2> HIDE DEF Step, Start
  <2>1. Init => WorkInv /\ Start
    BY <1>1 DEF Start
  <2> QED BY <1>3, <2>1, DispatchInvariant, PTL DEF Spec
<1> QED BY <1>4 DEF LaunchesOnce
=============================================================================
