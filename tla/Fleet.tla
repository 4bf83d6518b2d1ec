------------------------------- MODULE Fleet -------------------------------
(***************************************************************************)
(* The nodes of a cluster polling one another and each electing a leader   *)
(* from what it has heard.  Every node runs the loop of FailureDetector;   *)
(* nothing else writes the rows here (no live monitor is at work), so the  *)
(* steps from the write of the rows to the recomputed leader are one.      *)
(*                                                                         *)
(* Answers are in flight between the process that made them and the round  *)
(* that awaits them: the process may have stopped, or been replaced by a   *)
(* younger one, when its answer is read.  The age of a row is read only    *)
(* when a round ends, so it grows then, by the time since the last round.  *)
(***************************************************************************)
EXTENDS PeerRuntime, Election

CONSTANTS
  Eligible,       \* node.eligible_leader of each node
  Priority,       \* node.priority of each node
  PeerEligible,   \* PeerEligible[n][p]: peers[p].eligible_leader at n
  PeerPriority,   \* PeerPriority[n][p]: peers[p].priority at n
  Mortal,         \* bound: the nodes that may stop and boot again
  Flaky,          \* bound: the links <<n, p>> on which n may miss p's answer
  MaxBoots,       \* bound: how many boots happen after the start
  MaxRound,       \* bound: the longest time between two rounds, in ticks
  Idle,           \* no fetch
  Awaited,        \* a fetch that has not returned
  Failed          \* a fetch that returned an error

Others(n) == NodeId \ {n}

ASSUME FleetAssumption ==
  /\ Eligible \in [NodeId -> BOOLEAN]
  /\ Priority \in [NodeId -> Int]
  /\ \A n \in NodeId : PeerEligible[n] \in [Others(n) -> BOOLEAN]
  /\ \A n \in NodeId : PeerPriority[n] \in [Others(n) -> Int]
  /\ Mortal \subseteq NodeId
  /\ Flaky \subseteq NodeId \X NodeId
  /\ MaxBoots \in Nat
  /\ MaxRound \in Nat \ {0}
  /\ StartTimes = 0 .. MaxBoots
  /\ {Idle, Awaited, Failed} \cap Health = {}
  /\ Idle # Awaited /\ Idle # Failed /\ Awaited # Failed

VARIABLES
  up,          \* the nodes whose process runs
  startedAt,   \* AppState.started_at of the current or latest process
  table,       \* table[n][p]: n's row for p
  leader,      \* leader[n]: n's ClusterRuntime.leader_id
  answer,      \* answer[n][p]: n's fetch from p in the current round
  boots,       \* boots so far; dates the processes
  calm         \* from now on no process stops and no answer is lost

vars == <<up, startedAt, table, leader, answer, boots, calm>>

-----------------------------------------------------------------------------
\* The answer of p's health endpoint.
HealthOf(p) == [eligible_leader |-> Eligible[p], started_at |-> startedAt[p]]

\* What node n compares when its rows are rows.
CandidatesOf(n, rows) ==
  {[id |-> p, priority |-> PeerPriority[n][p], started_at |-> rows[p].health.started_at]
     : p \in {q \in Others(n) : IsCandidate(rows[q], PeerEligible[n][q])}}
  \cup {[id |-> n, priority |-> Priority[n], started_at |-> startedAt[n]]
          : x \in {y \in {n} : Eligible[y]}}

FreshTable(n)  == [p \in Others(n) |-> NewRow]
Quiescent(n)   == [p \in Others(n) |-> Idle]

Init ==
  /\ up = NodeId
  /\ startedAt = [n \in NodeId |-> 0]
  /\ table = [n \in NodeId |-> FreshTable(n)]
  /\ leader = [n \in NodeId |-> NoLeader]
  /\ answer = [n \in NodeId |-> Quiescent(n)]
  /\ boots = 0
  /\ calm = FALSE

-----------------------------------------------------------------------------
StartRound(n) ==
  /\ n \in up
  /\ answer[n] = Quiescent(n)
  /\ answer' = [answer EXCEPT ![n] = [p \in Others(n) |-> Awaited]]
  /\ UNCHANGED <<up, startedAt, table, leader, boots, calm>>

\* The process of p answers n.
Answers(n, p) ==
  /\ n \in up /\ p \in up
  /\ answer[n][p] = Awaited
  /\ answer' = [answer EXCEPT ![n][p] = HealthOf(p)]
  /\ UNCHANGED <<up, startedAt, table, leader, boots, calm>>

\* Nothing answers, or n and p cannot reach one another for now.
Misses(n, p) ==
  /\ n \in up
  /\ answer[n][p] = Awaited
  /\ p \notin up \/ (<<n, p>> \in Flaky /\ ~calm)
  /\ answer' = [answer EXCEPT ![n][p] = Failed]
  /\ UNCHANGED <<up, startedAt, table, leader, boots, calm>>

\* The row of p at the end of a round that took d ticks.
Polled(n, p, d) ==
  LET Later(row) == [row EXCEPT !.last_seen =
                       IF @ = Never THEN Never
                       ELSE IF @ + d > Lease THEN Lease + 1 ELSE @ + d]
  IN  IF answer[n][p] = Failed THEN Missed(Later(table[n][p]))
                               ELSE HeardHealth(table[n][p], answer[n][p])

\* Mutant of FinishRound: a leader that is still a candidate stays.
FinishRoundSticky(n) ==
  /\ n \in up
  /\ \A p \in Others(n) : answer[n][p] \notin {Idle, Awaited}
  /\ \E d \in 1 .. MaxRound :
       table' = [table EXCEPT ![n] = [p \in Others(n) |-> Polled(n, p, d)]]
  /\ \E l \in NodeId \cup {NoLeader} :
       /\ IF \E c \in CandidatesOf(n, table'[n]) : c.id = leader[n]
          THEN l = leader[n]
          ELSE Elects(CandidatesOf(n, table'[n]), l)
       /\ leader' = [leader EXCEPT ![n] = l]
  /\ answer' = [answer EXCEPT ![n] = Quiescent(n)]
  /\ UNCHANGED <<up, startedAt, boots, calm>>

\* The answers are written into the rows and the leader is recomputed.
FinishRound(n) ==
  /\ n \in up
  /\ \A p \in Others(n) : answer[n][p] \notin {Idle, Awaited}
  /\ \E d \in 1 .. MaxRound :
       table' = [table EXCEPT ![n] = [p \in Others(n) |-> Polled(n, p, d)]]
  /\ \E l \in NodeId \cup {NoLeader} :
       /\ Elects(CandidatesOf(n, table'[n]), l)
       /\ leader' = [leader EXCEPT ![n] = l]
  /\ answer' = [answer EXCEPT ![n] = Quiescent(n)]
  /\ UNCHANGED <<up, startedAt, boots, calm>>

\* The process of n ends: everything here is in its memory.
Stop(n) ==
  /\ ~calm
  /\ n \in up \cap Mortal
  /\ up' = up \ {n}
  /\ table' = [table EXCEPT ![n] = FreshTable(n)]
  /\ leader' = [leader EXCEPT ![n] = NoLeader]
  /\ answer' = [answer EXCEPT ![n] = Quiescent(n)]
  /\ UNCHANGED <<startedAt, boots, calm>>

Boot(n) ==
  /\ ~calm
  /\ n \notin up
  /\ boots < MaxBoots
  /\ up' = up \cup {n}
  /\ boots' = boots + 1
  /\ startedAt' = [startedAt EXCEPT ![n] = boots']
  /\ UNCHANGED <<table, leader, answer, calm>>

Calm ==
  /\ ~calm
  /\ calm' = TRUE
  /\ UNCHANGED <<up, startedAt, table, leader, answer, boots>>

Round(n) ==
  \/ StartRound(n)
  \/ \E p \in Others(n) : Answers(n, p) \/ Misses(n, p)
  \/ FinishRound(n)

Next ==
  \/ \E n \in NodeId : Round(n) \/ Stop(n) \/ Boot(n)
  \/ Calm

Spec == Init /\ [][Next]_vars

\* Each process keeps running its loop; a request timeout bounds every fetch.
FairSpec == Spec /\ \A n \in NodeId : WF_vars(Round(n))

-----------------------------------------------------------------------------
(* Properties.                                                             *)

TypeOK ==
  /\ up \subseteq NodeId
  /\ startedAt \in [NodeId -> StartTimes]
  /\ DOMAIN table = NodeId
  /\ \A n \in NodeId : table[n] \in [Others(n) -> PeerRow]
  /\ leader \in [NodeId -> NodeId \cup {NoLeader}]
  /\ DOMAIN answer = NodeId
  /\ \A n \in NodeId : answer[n] \in [Others(n) -> Health \cup {Idle, Awaited, Failed}]
  /\ boots \in 0 .. MaxBoots
  /\ calm \in BOOLEAN

\* The nodes are configured alike: each peers entry repeats what the peer's own
\* configuration says.
ConfigAgreed ==
  \A n \in NodeId : \A p \in Others(n) :
    PeerEligible[n][p] = Eligible[p] /\ PeerPriority[n][p] = Priority[p]

\* n holds p for a candidate, and what it has heard is from p's current process.
Knows(n, p) ==
  /\ IsCandidate(table[n][p], PeerEligible[n][p])
  /\ table[n][p].health.started_at = startedAt[p]

\* Two running nodes lead at the same time, or each waits for the other to lead,
\* only while one of them has not heard of the other's current process: with
\* current knowledge on both sides the sort order lets one lead and the other
\* follow, whatever the third nodes do.
KnowledgePreventsSplit ==
  \A n \in up : \A p \in up \ {n} :
    Knows(n, p) /\ Knows(p, n) =>
      /\ ~(leader[n] = n /\ leader[p] = p)
      /\ ~(leader[n] = p /\ leader[p] = n)

\* The candidates an observer of the whole fleet would name.
TrueCandidates ==
  {[id |-> p, priority |-> Priority[p], started_at |-> startedAt[p]]
     : p \in {q \in up : Eligible[q]}}

Agreed == \A n \in up : Elects(TrueCandidates, leader[n])

\* "If the leader goes offline, another online node takes over": once processes
\* and links are stable, every running node settles for good on the best node
\* that runs, whatever was lost, stopped, restarted or in flight before.
EventualAgreement == calm ~> []Agreed
=============================================================================
