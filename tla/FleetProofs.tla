---------------------------- MODULE FleetProofs ----------------------------
(***************************************************************************)
(* What Fleet guarantees for every number of nodes, every configuration,   *)
(* every loss of answers and every sequence of stops and boots.            *)
(***************************************************************************)
EXTENDS Fleet, TLAPS

-----------------------------------------------------------------------------
(* The election.                                                           *)

\* The comparison is strict.
LEMMA BeforeAsymmetric ==
  ASSUME NEW x \in Candidate, NEW y \in Candidate, Before(x, y)
  PROVE  ~Before(y, x)
<1>1. IdRank[x.id] \in Nat /\ IdRank[y.id] \in Nat
  BY IdAssumption DEF Candidate
<1> QED BY <1>1 DEF Before, Candidate

\* The sort order leaves no choice: two nodes that know the same candidates, one
\* per id, elect the same leader.
THEOREM ElectionDeterministic ==
  ASSUME NEW C \in SUBSET Candidate,
         \A x, y \in C : x.id = y.id => x = y,
         NEW l1, Elects(C, l1),
         NEW l2, Elects(C, l2)
  PROVE  l1 = l2
<1>1. CASE C = {}
  BY <1>1 DEF Elects
<1>2. CASE C # {}
  <2>1. PICK x \in C : l1 = x.id /\ \A d \in C \ {x} : Before(x, d)
    BY <1>2 DEF Elects
  <2>2. PICK y \in C : l2 = y.id /\ \A d \in C \ {y} : Before(y, d)
    BY <1>2 DEF Elects
  <2>3. SUFFICES ASSUME x # y PROVE FALSE
    BY <2>1, <2>2
  <2>4. Before(x, y) /\ Before(y, x)
    BY <2>1, <2>2, <2>3
  <2> QED BY <2>4, BeforeAsymmetric
<1> QED BY <1>1, <1>2

-----------------------------------------------------------------------------
(* Type correctness.                                                       *)

LEMMA NewRowType == NewRow \in PeerRow
BY ThresholdAssumption, AbsenceAssumption DEF NewRow, PeerRow, Ages

\* What a round makes of a row.
LEMMA RowTypes ==
  ASSUME NEW row \in PeerRow
  PROVE  /\ \A h \in Health : HeardHealth(row, h) \in PeerRow
         /\ Missed(row) \in PeerRow
<1> USE ThresholdAssumption, AbsenceAssumption
<1>1. HeardMetrics(row) \in PeerRow
  <2>1. 0 \in Ages /\ 0 \in 0 .. MissedMax
    BY DEF Ages
  <2> QED BY <2>1, Zenon DEF HeardMetrics, PeerRow
<1>2. \A h \in Health : HeardHealth(row, h) \in PeerRow
  BY <1>1 DEF HeardHealth, PeerRow
<1>3. MissedOnce(row) \in 0 .. MissedMax
  BY DEF MissedOnce, PeerRow
<1>4. Missed(row) \in PeerRow
  BY <1>3 DEF Missed, PeerRow
<1> QED BY <1>2, <1>4

LEMMA PolledType ==
  ASSUME TypeOK, NEW n \in NodeId, NEW p \in Others(n), NEW d \in 1 .. MaxRound,
         answer[n][p] \notin {Idle, Awaited}
  PROVE  Polled(n, p, d) \in PeerRow
<1> DEFINE row == table[n][p]
           later == [row EXCEPT !.last_seen =
                       IF @ = Never THEN Never
                       ELSE IF @ + d > Lease THEN Lease + 1 ELSE @ + d]
<1>1. row \in PeerRow
  BY DEF TypeOK
<1>2. later \in PeerRow
  <2> DEFINE age == IF row.last_seen = Never THEN Never
                    ELSE IF row.last_seen + d > Lease THEN Lease + 1
                    ELSE row.last_seen + d
  <2>1. age \in Ages \cup {Never}
    BY <1>1, ThresholdAssumption, AbsenceAssumption, FleetAssumption DEF PeerRow, Ages
  <2>2. later = [row EXCEPT !.last_seen = age]
    BY <1>1 DEF PeerRow
  <2> HIDE DEF age, row, later
  <2> QED BY <1>1, <2>1, <2>2 DEF PeerRow
<1>3. CASE answer[n][p] = Failed
  BY <1>2, <1>3, RowTypes DEF Polled
<1>4. CASE answer[n][p] # Failed
  <2>1. answer[n][p] \in Health
    BY <1>4 DEF TypeOK
  <2> QED BY <1>1, <1>4, <2>1, RowTypes DEF Polled
<1> QED BY <1>3, <1>4

LEMMA InitTypeOK == Init => TypeOK
<1> SUFFICES ASSUME Init PROVE TypeOK
  OBVIOUS
<1>1. \A n \in NodeId : /\ table[n] \in [Others(n) -> PeerRow]
                        /\ answer[n] \in [Others(n) -> {Idle}]
  BY NewRowType DEF Init, FreshTable, Quiescent
<1>2. 0 \in StartTimes /\ 0 \in 0 .. MaxBoots
  BY FleetAssumption
<1>3. \A n \in NodeId : answer[n] \in [Others(n) -> Health \cup {Idle, Awaited, Failed}]
  BY <1>1
<1> QED BY <1>1, <1>2, <1>3 DEF Init, TypeOK

LEMMA NextTypeOK == TypeOK /\ [Next]_vars => TypeOK'
<1> SUFFICES ASSUME TypeOK, [Next]_vars PROVE TypeOK'
  OBVIOUS
<1> USE FleetAssumption DEF TypeOK
<1>1. ASSUME NEW n \in NodeId, StartRound(n) PROVE TypeOK'
  BY <1>1 DEF StartRound
<1>2. ASSUME NEW n \in NodeId, NEW p \in Others(n), Answers(n, p) PROVE TypeOK'
  <2>1. HealthOf(p) \in Health
    BY DEF HealthOf, Health, Others
  <2> QED BY <1>2, <2>1 DEF Answers
<1>3. ASSUME NEW n \in NodeId, NEW p \in Others(n), Misses(n, p) PROVE TypeOK'
  BY <1>3 DEF Misses
<1>4. ASSUME NEW n \in NodeId, FinishRound(n) PROVE TypeOK'
  <2>1. PICK d \in 1 .. MaxRound :
          table' = [table EXCEPT ![n] = [p \in Others(n) |-> Polled(n, p, d)]]
    BY <1>4 DEF FinishRound
  <2>2. \A p \in Others(n) : Polled(n, p, d) \in PeerRow
    BY <1>4, PolledType DEF FinishRound
  <2>3. \A m \in NodeId : table'[m] \in [Others(m) -> PeerRow]
    BY <2>1, <2>2
  <2>4. leader' \in [NodeId -> NodeId \cup {NoLeader}]
    BY <1>4 DEF FinishRound
  <2> QED BY <1>4, <2>1, <2>3, <2>4 DEF FinishRound, Quiescent
<1>5. ASSUME NEW n \in NodeId, Stop(n) PROVE TypeOK'
  BY <1>5, NewRowType DEF Stop, FreshTable, Quiescent
<1>6. ASSUME NEW n \in NodeId, Boot(n) PROVE TypeOK'
  BY <1>6 DEF Boot
<1>7. CASE Calm
  BY <1>7 DEF Calm
<1>8. CASE UNCHANGED vars
  BY <1>8 DEF vars
<1> QED BY <1>1, <1>2, <1>3, <1>4, <1>5, <1>6, <1>7, <1>8 DEF Next, Round

\* Every variable keeps its type.
THEOREM TypeCorrect == Spec => []TypeOK
BY InitTypeOK, NextTypeOK, PTL DEF Spec

-----------------------------------------------------------------------------
(* Two nodes that know one another.                                        *)

\* A node without a leader has not ended a round; any other node still elects its
\* leader from the rows it has.
VoteInv ==
  \A n \in NodeId :
    /\ n \notin up => leader[n] = NoLeader
    /\ leader[n] # NoLeader => Elects(CandidatesOf(n, table[n]), leader[n])

LEMMA VoteInvariant == Spec => []VoteInv
<1>1. Init => VoteInv
  BY DEF Init, VoteInv
<1>2. TypeOK /\ VoteInv /\ [Next]_vars => VoteInv'
  <2> SUFFICES ASSUME TypeOK, VoteInv, [Next]_vars PROVE VoteInv'
    OBVIOUS
  <2>1. CASE UNCHANGED <<up, leader, table, startedAt>>
    BY <2>1 DEF VoteInv, CandidatesOf
  <2>2. ASSUME NEW n \in NodeId, FinishRound(n) PROVE VoteInv'
    <3>1. PICK l \in NodeId \cup {NoLeader} :
            /\ Elects(CandidatesOf(n, table'[n]), l)
            /\ leader' = [leader EXCEPT ![n] = l]
      BY <2>2 DEF FinishRound
    <3>2. UNCHANGED <<up, startedAt>> /\ n \in up
      BY <2>2 DEF FinishRound
    <3>3. \A m \in NodeId \ {n} : table'[m] = table[m] /\ leader'[m] = leader[m]
      BY <2>2, <3>1 DEF FinishRound, TypeOK
    <3>4. leader'[n] = l
      BY <3>1 DEF TypeOK
    <3>5. Elects(CandidatesOf(n, table[n])', leader'[n])
      BY <3>1, <3>2, <3>4 DEF CandidatesOf
    <3>6. \A m \in NodeId : m \notin up' => leader'[m] = NoLeader
      BY <3>2, <3>3 DEF VoteInv
    <3>7. \A m \in NodeId \ {n} : CandidatesOf(m, table[m])' = CandidatesOf(m, table[m])
      BY <3>2, <3>3 DEF CandidatesOf
    <3>8. \A m \in NodeId : leader'[m] # NoLeader
                              => Elects(CandidatesOf(m, table[m])', leader'[m])
      BY <3>3, <3>5, <3>7 DEF VoteInv
    <3> QED BY <3>6, <3>8 DEF VoteInv, Elects
  <2>3. ASSUME NEW n \in NodeId, Stop(n) \/ Boot(n) PROVE VoteInv'
    <3>1. leader'[n] = NoLeader /\ n \in NodeId
      BY <2>3 DEF Stop, Boot, VoteInv, TypeOK
    <3>2. \A m \in NodeId \ {n} : /\ table'[m] = table[m]
                                  /\ leader'[m] = leader[m]
                                  /\ startedAt'[m] = startedAt[m]
                                  /\ m \in up' <=> m \in up
      BY <2>3 DEF Stop, Boot, TypeOK
    <3>3. \A m \in NodeId \ {n} : CandidatesOf(m, table[m])' = CandidatesOf(m, table[m])
      BY <3>2 DEF CandidatesOf
    <3> QED BY <3>1, <3>2, <3>3 DEF VoteInv, Elects
  <2> QED
    BY <2>1, <2>2, <2>3 DEF Next, Round, StartRound, Answers, Misses, Calm, vars
<1> QED BY <1>1, <1>2, TypeCorrect, PTL DEF Spec

\* KnowledgePreventsSplit of Fleet, for nodes configured alike: two leaders, or
\* two nodes that wait for one another, never know one another's processes.
THEOREM KnowledgeAlwaysPreventsSplit ==
  ASSUME ConfigAgreed
  PROVE  Spec => []KnowledgePreventsSplit
<1> DEFINE True(n) == [id |-> n, priority |-> Priority[n], started_at |-> startedAt[n]]
<1>1. ASSUME TypeOK, VoteInv, NEW n \in NodeId, NEW p \in Others(n),
             Knows(n, p), leader[n] # NoLeader, Eligible[n]
      PROVE  /\ leader[n] = n => Before(True(n), True(p))
             /\ leader[n] = p => Before(True(p), True(n))
  <2> DEFINE C == CandidatesOf(n, table[n])
  <2>1. True(n) \in C
    BY <1>1 DEF CandidatesOf
  <2>2. True(p) \in C
    BY <1>1 DEF CandidatesOf, Knows, ConfigAgreed
  <2>3. PICK x \in C : leader[n] = x.id /\ \A y \in C \ {x} : Before(x, y)
    BY <1>1, <2>1 DEF VoteInv, Elects
  <2>4. ASSUME x.id = n PROVE x = True(n)
    BY <2>4 DEF CandidatesOf, Others
  <2>5. ASSUME x.id = p PROVE x = True(p)
    BY <1>1, <2>5 DEF CandidatesOf, Others, Knows, ConfigAgreed
  <2>6. True(n) # True(p)
    BY <1>1 DEF Others
  <2> HIDE DEF C, True
  <2> QED BY <2>1, <2>2, <2>3, <2>4, <2>5, <2>6
<1>2. TypeOK /\ VoteInv => KnowledgePreventsSplit
  <2> SUFFICES ASSUME TypeOK, VoteInv, NEW n \in up, NEW p \in up \ {n},
                      Knows(n, p), Knows(p, n)
               PROVE  /\ ~(leader[n] = n /\ leader[p] = p)
                      /\ ~(leader[n] = p /\ leader[p] = n)
    BY DEF KnowledgePreventsSplit
  <2>1. /\ n \in NodeId /\ p \in NodeId
        /\ p \in Others(n) /\ n \in Others(p)
    BY DEF TypeOK, Others
  <2>2. Eligible[n] /\ Eligible[p]
    BY <2>1 DEF Knows, IsCandidate, Viable, ConfigAgreed
  <2>3. True(n) \in Candidate /\ True(p) \in Candidate
    BY <2>1, FleetAssumption, ThresholdAssumption DEF Candidate, TypeOK
  <2>4. n # NoLeader /\ p # NoLeader
    BY <2>1, IdAssumption
  <2> HIDE DEF True
  <2> QED BY <1>1, <2>1, <2>2, <2>3, <2>4, BeforeAsymmetric
<1> QED BY <1>2, TypeCorrect, VoteInvariant, PTL
=============================================================================
