----------------------- MODULE FailureDetectorProofs -----------------------
(***************************************************************************)
(* What FailureDetector guarantees for every number of peers and live      *)
(* monitors, every threshold, lease and configuration.                     *)
(***************************************************************************)
EXTENDS FailureDetector, TLAPS

-----------------------------------------------------------------------------
(* The rows.                                                               *)

\* Everything that rewrites a row yields a row.
LEMMA RowTypes ==
  ASSUME NEW row \in PeerRow
  PROVE  /\ NewRow \in PeerRow
         /\ HeardMetrics(row) \in PeerRow
         /\ \A h \in Health : HeardHealth(row, h) \in PeerRow
         /\ Missed(row) \in PeerRow
         /\ Aged(row) \in PeerRow
<1> USE ThresholdAssumption, AbsenceAssumption
<1>1. NewRow \in PeerRow
  BY DEF NewRow, PeerRow, Ages
<1>2. HeardMetrics(row) \in PeerRow
  <2>1. 0 \in Ages /\ 0 \in 0 .. MissedMax
    BY DEF Ages
  <2> QED BY <2>1, Zenon DEF HeardMetrics, PeerRow
<1>3. \A h \in Health : HeardHealth(row, h) \in PeerRow
  BY <1>2 DEF HeardHealth, PeerRow
<1>4. MissedOnce(row) \in 0 .. MissedMax
  BY DEF MissedOnce, PeerRow
<1>5. Missed(row) \in PeerRow
  BY <1>4 DEF Missed, PeerRow
<1>6. Aged(row) \in PeerRow
  BY DEF Aged, PeerRow, Ages
<1> QED BY <1>1, <1>2, <1>3, <1>5, <1>6

\* The fields of a row go on agreeing whatever rewrites it.
LEMMA RowsStayConsistent ==
  ASSUME NEW row \in PeerRow, RowConsistent(row)
  PROVE  /\ RowConsistent(NewRow)
         /\ RowConsistent(HeardMetrics(row))
         /\ \A h \in Health : RowConsistent(HeardHealth(row, h))
         /\ RowConsistent(Missed(row))
         /\ RowConsistent(Aged(row))
<1> USE ThresholdAssumption, AbsenceAssumption
<1>1. RowConsistent(NewRow)
  BY DEF RowConsistent, NewRow
<1>2. RowConsistent(HeardMetrics(row))
  BY DEF RowConsistent, HeardMetrics, PeerRow
<1>3. \A h \in Health : RowConsistent(HeardHealth(row, h))
  BY DEF RowConsistent, HeardHealth, HeardMetrics, PeerRow
<1>4. RowConsistent(Missed(row))
  <2> DEFINE n == MissedOnce(row)
  <2>1. /\ row.missed_heartbeats \in Nat
        /\ n \in Nat /\ n > 0
        /\ n < OfflineAfter => row.missed_heartbeats < OfflineAfter
    BY DEF MissedOnce, PeerRow
  <2>2. /\ Missed(row).online = (row.online /\ ~(n >= OfflineAfter))
        /\ Missed(row).first_seen = (row.first_seen /\ ~(n >= OfflineAfter))
        /\ Missed(row).last_error = TRUE
        /\ Missed(row).missed_heartbeats = n
        /\ Missed(row).last_seen = row.last_seen
        /\ Missed(row).health = row.health
    BY DEF Missed, PeerRow
  <2>3. n >= OfflineAfter <=> ~(n < OfflineAfter)
    BY <2>1
  <2> HIDE DEF n
  <2> QED BY <2>1, <2>2, <2>3, Zenon DEF RowConsistent
<1>5. RowConsistent(Aged(row))
  <2>1. Aged(row).last_seen = Never <=> row.last_seen = Never
    BY DEF Aged, PeerRow, Ages
  <2>2. /\ Aged(row).online = row.online
        /\ Aged(row).first_seen = row.first_seen
        /\ Aged(row).last_error = row.last_error
        /\ Aged(row).missed_heartbeats = row.missed_heartbeats
        /\ Aged(row).health = row.health
    BY DEF Aged, PeerRow
  <2> QED BY <2>1, <2>2, Zenon DEF RowConsistent
<1> QED BY <1>1, <1>2, <1>3, <1>4, <1>5

-----------------------------------------------------------------------------
\* The leader is one of the candidates, or there is none.
LEMMA ElectedIsCandidate ==
  ASSUME NEW l, Elects(Candidates, l)
  PROVE  l \in Successors \cup {Self, NoLeader}
BY DEF Elects, Candidates, CandidateOf, SelfCandidate

-----------------------------------------------------------------------------
(* Type correctness.                                                       *)

LEMMA InitTypeOK == Init => TypeOK
<1> USE NodeAssumption
<1>1. ASSUME NEW p \in Peer PROVE NewRow \in PeerRow
  BY ThresholdAssumption, AbsenceAssumption DEF NewRow, PeerRow, Ages
<1> QED BY <1>1 DEF Init, TypeOK

LEMMA NextTypeOK == TypeOK /\ [Next]_vars => TypeOK'
<1> SUFFICES ASSUME TypeOK, [Next]_vars PROVE TypeOK'
  OBVIOUS
<1> USE NodeAssumption DEF TypeOK
<1>1. CASE StartRound
  BY <1>1 DEF StartRound, alertVars, monVars
<1>2. ASSUME NEW p \in Peer, PeerAnswers(p) PROVE TypeOK'
  <2>1. PICK x \in Report[p] : answer' = [answer EXCEPT ![p] = x]
    BY <1>2 DEF PeerAnswers
  <2>2. answer' \in [Peer -> Health \cup {NoAnswer}]
    BY <2>1
  <2> QED BY <1>2, <2>2 DEF PeerAnswers, alertVars, monVars
<1>3. CASE ApplyPoll
  <2>1. ASSUME NEW p \in Peer PROVE Polled(p) \in PeerRow
    BY <1>3, RowTypes DEF ApplyPoll, Polled
  <2>2. peers' \in [Peer -> PeerRow]
    BY <1>3, <2>1 DEF ApplyPoll
  <2>3. pending' \in [Peer -> {"none", "online", "offline"}]
    BY <1>3 DEF ApplyPoll, PollAlert
  <2> QED BY <1>3, <2>2, <2>3 DEF ApplyPoll, alertVars, monVars
<1>4. CASE EnqueuePollAlerts
  BY <1>4 DEF EnqueuePollAlerts, monVars
<1>5. CASE RecomputeLeader
  <2>1. leader' \in Peer \cup {Self, NoLeader}
    BY <1>5, ElectedIsCandidate DEF RecomputeLeader, Successors
  <2> QED BY <1>5, <2>1 DEF RecomputeLeader, alertVars, monVars
<1>6. CASE AnnounceLeader
  BY <1>6 DEF AnnounceLeader, monVars
<1>7. ASSUME NEW m \in Monitor, StartFrame(m) PROVE TypeOK'
  <2>1. Len(MonitorTargets[m]) >= 1
    BY <1>7 DEF StartFrame
  <2> QED BY <1>7, <2>1 DEF StartFrame, alertVars, loopVars
<1>8. ASSUME NEW m \in Monitor, TargetAnswers(m) PROVE TypeOK'
  BY <1>8 DEF TargetAnswers, alertVars, loopVars
<1>9. ASSUME NEW m \in Monitor, ApplyMetrics(m) PROVE TypeOK'
  <2> DEFINE p == MonitorTargets[m][frame[m]]
  <2>1. p \in Peer
    BY <1>9 DEF ApplyMetrics
  <2>2. Missed(peers[p]) \in PeerRow /\ HeardMetrics(peers[p]) \in PeerRow
    BY <2>1, RowTypes
  <2>3. peers' \in [Peer -> PeerRow]
    BY <1>9, <2>1, <2>2 DEF ApplyMetrics
  <2>4. frame' \in [Monitor -> Nat] /\ \A n \in Monitor : frame'[n] =< Len(MonitorTargets[n])
    BY <1>9 DEF ApplyMetrics
  <2> QED BY <1>9, <2>3, <2>4 DEF ApplyMetrics, alertVars, loopVars
<1>10. ASSUME NEW m \in Monitor, AbortMonitor(m) PROVE TypeOK'
  BY <1>10 DEF AbortMonitor, alertVars, loopVars
<1>11. CASE AskRestart
  BY <1>11 DEF AskRestart, alertVars, loopVars, monVars
<1>12. CASE CheckSuccessor
  BY <1>12 DEF CheckSuccessor, alertVars, loopVars, monVars
<1>13. ASSUME NEW p \in Peer, Die(p) PROVE TypeOK'
  BY <1>13 DEF Die, alertVars, loopVars, monVars
<1>14. CASE Tick
  BY <1>14, RowTypes DEF Tick, alertVars, loopVars, monVars
<1>15. CASE UNCHANGED vars
  BY <1>15 DEF vars, alertVars, loopVars, monVars
<1> QED
  BY <1>1, <1>2, <1>3, <1>4, <1>5, <1>6, <1>7, <1>8, <1>9, <1>10, <1>11,
     <1>12, <1>13, <1>14, <1>15 DEF Next, MainLoop, MonitorStep

\* Every variable keeps its type.
THEOREM TypeCorrect == Spec => []TypeOK
BY InitTypeOK, NextTypeOK, PTL DEF Spec

-----------------------------------------------------------------------------
(* The rows agree, however the poll loop and the live monitors interleave. *)

\* RowsConsistent of FailureDetector: the poll loop and any number of monitors
\* may write the rows in any order.
THEOREM RowsAlwaysConsistent == Spec => []RowsConsistent
<1>1. Init => RowsConsistent
  <2>1. RowConsistent(NewRow)
    BY ThresholdAssumption DEF RowConsistent, NewRow
  <2> QED BY <2>1 DEF Init, RowsConsistent
<1>2. TypeOK /\ RowsConsistent /\ [Next]_vars => RowsConsistent'
  <2> SUFFICES ASSUME TypeOK, RowsConsistent, [Next]_vars
               PROVE  RowsConsistent'
    OBVIOUS
  <2>0. \A p \in Peer : peers[p] \in PeerRow /\ RowConsistent(peers[p])
    BY DEF TypeOK, RowsConsistent
  <2>1. CASE UNCHANGED peers
    BY <2>1 DEF RowsConsistent
  <2>2. CASE ApplyPoll
    <3>1. ASSUME NEW p \in Peer PROVE RowConsistent(Polled(p))
      BY <2>0, <2>2, RowsStayConsistent DEF ApplyPoll, Polled, TypeOK
    <3> QED BY <2>2, <3>1 DEF ApplyPoll, RowsConsistent
  <2>3. ASSUME NEW m \in Monitor, ApplyMetrics(m) PROVE RowsConsistent'
    <3> DEFINE p == MonitorTargets[m][frame[m]]
    <3>1. ASSUME NEW q \in Peer PROVE RowConsistent(peers'[q])
      <4>1. CASE q # p
        BY <2>0, <2>3, <4>1 DEF ApplyMetrics, TypeOK
      <4>2. CASE q = p
        <5>1. peers'[q] \in {Missed(peers[q]), HeardMetrics(peers[q])}
          BY <2>3, <4>2 DEF ApplyMetrics, TypeOK
        <5> QED BY <2>0, <5>1, RowsStayConsistent
      <4> QED BY <4>1, <4>2
    <3> QED BY <3>1 DEF RowsConsistent
  <2>4. CASE Tick
    BY <2>0, <2>4, RowsStayConsistent DEF Tick, RowsConsistent
  <2> QED
    BY <2>1, <2>2, <2>3, <2>4 DEF Next, MainLoop, MonitorStep, StartRound,
       PeerAnswers, EnqueuePollAlerts, RecomputeLeader, AnnounceLeader,
       StartFrame, TargetAnswers, AbortMonitor, AskRestart, CheckSuccessor,
       Die, vars
<1> QED BY <1>1, <1>2, TypeCorrect, PTL DEF Spec

-----------------------------------------------------------------------------
(* Leader changes.                                                         *)

\* LeaderAnnounced of FailureDetector: between rounds the queue has the leader.
THEOREM LeaderAlwaysAnnounced == Spec => []LeaderAnnounced
<1>1. Init => LeaderAnnounced
  BY DEF Init, LeaderAnnounced
<1>2. LeaderAnnounced /\ [Next]_vars => LeaderAnnounced'
  BY DEF LeaderAnnounced, Next, MainLoop, MonitorStep, StartRound, PeerAnswers,
     ApplyPoll, EnqueuePollAlerts, RecomputeLeader, AnnounceLeader, StartFrame,
     TargetAnswers, ApplyMetrics, AbortMonitor, AskRestart, CheckSuccessor, Die,
     Tick, vars, alertVars, loopVars, monVars
<1> QED BY <1>1, <1>2, PTL DEF Spec

-----------------------------------------------------------------------------
(* Only ApplyPoll and Tick write the row of an unwatched peer.             *)

QuietStep ==
  /\ UNCHANGED <<leader, pending, told>>
  /\ \A p \in Unwatched : peers'[p] = peers[p]
  /\ \/ loop' = loop
     \/ loop = "sleep" /\ loop' = "fetch"
     \/ loop = "announce" /\ loop' = "sleep"

LEMMA UnwatchedNext ==
  ASSUME TypeOK, [Next]_vars
  PROVE  ApplyPoll \/ Tick \/ EnqueuePollAlerts \/ RecomputeLeader \/ QuietStep
<1>1. ASSUME NEW m \in Monitor, ApplyMetrics(m) PROVE QuietStep
  <2>1. frame[m] \in DOMAIN MonitorTargets[m]
    BY <1>1, NodeAssumption DEF ApplyMetrics, TypeOK
  <2>2. \A p \in Unwatched : MonitorTargets[m][frame[m]] # p
    BY <2>1 DEF Unwatched
  <2>3. \A p \in Unwatched : peers'[p] = peers[p]
    BY <1>1, <2>2 DEF ApplyMetrics, TypeOK, Unwatched
  <2> QED BY <1>1, <2>3 DEF ApplyMetrics, QuietStep, alertVars, loopVars
<1>2. CASE UNCHANGED <<peers, leader, pending, told, loop>>
  BY <1>2 DEF QuietStep
<1>3. CASE StartRound \/ AnnounceLeader
  BY <1>3 DEF QuietStep, StartRound, AnnounceLeader, alertVars
<1> QED
  BY <1>1, <1>2, <1>3 DEF Next, MainLoop, MonitorStep, PeerAnswers, StartFrame,
     TargetAnswers, AbortMonitor, AskRestart, CheckSuccessor, Die, vars,
     alertVars, loopVars, monVars

\* AlertsMatchTable with the fact it needs: poll_peers' vector of alerts is
\* empty outside poll_peers.
PendingEmpty == loop # "enqueue" => \A p \in Peer : pending[p] = "none"

AlertInv == PendingEmpty /\ AlertsMatchTable

LEMMA PendingAlwaysEmpty == Spec => []PendingEmpty
<1>1. Init => PendingEmpty
  BY DEF Init, PendingEmpty
<1>2. TypeOK /\ PendingEmpty /\ [Next]_vars => PendingEmpty'
  BY UnwatchedNext DEF PendingEmpty, ApplyPoll, Tick, EnqueuePollAlerts,
     RecomputeLeader, QuietStep, loopVars
<1> QED BY <1>1, <1>2, TypeCorrect, PTL DEF Spec

\* AlertsMatchTable of FailureDetector: the alerts tell the truth about every peer
\* that no live monitor writes.
THEOREM AlertsAlwaysMatchTable == Spec => []AlertsMatchTable
<1>1. Init => AlertInv
  BY DEF Init, AlertInv, PendingEmpty, AlertsMatchTable, LatestAlert, NewRow,
     Unwatched
<1>2. TypeOK /\ RowsConsistent /\ AlertInv /\ [Next]_vars => AlertInv'
  <2> SUFFICES ASSUME TypeOK, RowsConsistent, AlertInv, [Next]_vars
               PROVE  AlertInv'
    OBVIOUS
  <2>1. CASE ApplyPoll
    <3>1. \A p \in Peer : pending[p] = "none"
      BY <2>1 DEF AlertInv, PendingEmpty, ApplyPoll
    <3>2. ASSUME NEW p \in Unwatched
          PROVE  LatestAlert(p)' = "offline" <=>
                   ~peers'[p].online /\ peers'[p].last_seen # Never
      <4> DEFINE row == peers[p]
                 new == Polled(p)
      <4>0. p \in Peer
        BY DEF Unwatched
      <4>1. /\ peers'[p] = new
            /\ pending'[p] = PollAlert(row, new)
            /\ told'[p] = told[p]
        BY <2>1, <4>0 DEF ApplyPoll, alertVars
      <4>2. told[p] = "offline" <=> ~row.online /\ row.last_seen # Never
        BY <3>1, <4>0 DEF AlertInv, PendingEmpty, AlertsMatchTable, LatestAlert
      <4>3. row \in PeerRow /\ (row.online => row.last_seen # Never)
        BY <4>0 DEF TypeOK, RowsConsistent, RowConsistent
      <4>4. \/ new.online /\ new.last_seen # Never
            \/ new.last_seen = row.last_seen /\ (new.online => row.online)
        BY <4>3, AbsenceAssumption
           DEF Polled, Missed, HeardHealth, HeardMetrics, PeerRow
      <4>5. LatestAlert(p)' = IF PollAlert(row, new) = "none" THEN told[p]
                                                          ELSE PollAlert(row, new)
        BY <4>1 DEF LatestAlert
      <4> HIDE DEF new, row
      <4> QED BY <4>1, <4>2, <4>3, <4>4, <4>5 DEF PollAlert
    <3>3. loop' = "enqueue"
      BY <2>1 DEF ApplyPoll
    <3> QED BY <3>2, <3>3 DEF AlertInv, PendingEmpty, AlertsMatchTable
  <2>2. CASE Tick
    <3>1. \A p \in Peer : /\ peers'[p].online = peers[p].online
                          /\ peers'[p].last_seen = Never <=> peers[p].last_seen = Never
      BY <2>2, AbsenceAssumption, ThresholdAssumption
         DEF Tick, Aged, TypeOK, PeerRow, Ages
    <3>2. UNCHANGED <<pending, told, loop>>
      BY <2>2 DEF Tick, loopVars, alertVars
    <3> QED BY <3>1, <3>2 DEF AlertInv, PendingEmpty, AlertsMatchTable, LatestAlert,
               Unwatched
  <2>3. CASE EnqueuePollAlerts
    BY <2>3 DEF EnqueuePollAlerts, AlertInv, PendingEmpty, AlertsMatchTable, LatestAlert,
       Unwatched
  <2>4. CASE RecomputeLeader
    BY <2>4 DEF RecomputeLeader, alertVars, AlertInv, PendingEmpty, AlertsMatchTable, LatestAlert
  <2>5. CASE QuietStep
    BY <2>5 DEF QuietStep, AlertInv, PendingEmpty, AlertsMatchTable, LatestAlert
  <2> QED BY <2>1, <2>2, <2>3, <2>4, <2>5, UnwatchedNext
<1>3. AlertInv => AlertsMatchTable
  BY DEF AlertInv
<1> QED BY <1>1, <1>2, <1>3, TypeCorrect, RowsAlwaysConsistent, PTL DEF Spec

\* NoticesAlternate of FailureDetector: nobody is told that an unwatched peer is
\* back online who was not told before that it went offline.
THEOREM NoticesAlwaysAlternate == Spec => NoticesAlternate
<1> DEFINE ToldAfterOffline ==
             \A p \in Unwatched : pending[p] = "online" => told[p] = "offline"
           Step == \A p \in Unwatched : told'[p] = "online" /\ told[p] # "online"
                                     => told[p] = "offline"
<1>1. Init => ToldAfterOffline
  BY DEF Init, Unwatched
<1>2. TypeOK /\ AlertsMatchTable /\ PendingEmpty /\ ToldAfterOffline /\ [Next]_vars
        => ToldAfterOffline'
  <2> SUFFICES ASSUME TypeOK, AlertsMatchTable, PendingEmpty, ToldAfterOffline, [Next]_vars
               PROVE  ToldAfterOffline'
    OBVIOUS
  <2>1. CASE ApplyPoll
    BY <2>1 DEF ApplyPoll, PendingEmpty, PollAlert, AlertsMatchTable, LatestAlert,
       alertVars, Unwatched
  <2>2. CASE EnqueuePollAlerts
    BY <2>2 DEF EnqueuePollAlerts, Unwatched
  <2>3. CASE UNCHANGED <<pending, told>>
    BY <2>3
  <2> QED BY <2>1, <2>2, <2>3, UnwatchedNext DEF Tick, RecomputeLeader, QuietStep, loopVars, alertVars
<1>3. TypeOK /\ ToldAfterOffline /\ [Next]_vars => [Step]_vars
  <2> SUFFICES ASSUME TypeOK, ToldAfterOffline, [Next]_vars PROVE Step
    OBVIOUS
  <2>1. CASE EnqueuePollAlerts
    BY <2>1 DEF EnqueuePollAlerts, TypeOK, Unwatched
  <2>2. CASE UNCHANGED told
    BY <2>2
  <2> QED BY <2>1, <2>2, UnwatchedNext DEF ApplyPoll, Tick, RecomputeLeader, QuietStep, alertVars
<1> QED
  BY <1>1, <1>2, <1>3, TypeCorrect, AlertsAlwaysMatchTable, PendingAlwaysEmpty, PTL
     DEF Spec, NoticesAlternate

-----------------------------------------------------------------------------
(* The restart check.                                                      *)

\* An unwatched row goes online only with a health answer of its peer.
HealthInv ==
  /\ \A p \in Peer : answer[p] \in Report[p] \cup {NoAnswer}
  /\ \A p \in Unwatched : peers[p].online => peers[p].health \in Report[p]

LEMMA HealthInvariant == Spec => []HealthInv
<1>1. Init => HealthInv
  BY DEF Init, HealthInv, NewRow, Unwatched
<1>2. TypeOK /\ HealthInv /\ [Next]_vars => HealthInv'
  <2> SUFFICES ASSUME TypeOK, HealthInv, [Next]_vars
               PROVE  HealthInv'
    OBVIOUS
  <2>1. CASE ApplyPoll
    <3>1. ASSUME NEW p \in Unwatched, Polled(p).online
          PROVE  Polled(p).health \in Report[p]
      <4>1. p \in Peer /\ peers[p] \in PeerRow
        BY DEF TypeOK, Unwatched
      <4>2. CASE answer[p] = NoAnswer
        <5>1. Polled(p).health = peers[p].health
              /\ (Polled(p).online => peers[p].online)
          BY <4>1, <4>2 DEF Polled, Missed, PeerRow
        <5> QED BY <3>1, <5>1 DEF HealthInv
      <4>3. CASE answer[p] # NoAnswer
        BY <4>1, <4>3 DEF Polled, HeardHealth, HeardMetrics, PeerRow, HealthInv
      <4> QED BY <4>2, <4>3
    <3> QED BY <2>1, <3>1 DEF ApplyPoll, HealthInv, Unwatched
  <2>2. CASE Tick
    <3>1. \A p \in Peer : /\ peers'[p].online = peers[p].online
                          /\ peers'[p].health = peers[p].health
      BY <2>2 DEF Tick, Aged, TypeOK, PeerRow
    <3>2. answer' = answer
      BY <2>2 DEF Tick, loopVars
    <3> QED BY <3>1, <3>2 DEF HealthInv, Unwatched
  <2>3. ASSUME NEW p \in Peer, PeerAnswers(p) PROVE HealthInv'
    BY <2>3 DEF PeerAnswers, TypeOK, HealthInv
  <2>4. CASE QuietStep /\ answer' = answer
    BY <2>4 DEF HealthInv, QuietStep
  <2>5. CASE UNCHANGED <<peers, answer>>
    BY <2>5 DEF HealthInv
  <2>6. ASSUME NEW m \in Monitor, ApplyMetrics(m) PROVE answer' = answer
    BY <2>6 DEF ApplyMetrics, loopVars
  <2> QED
    BY <2>1, <2>2, <2>3, <2>4, <2>5, <2>6, UnwatchedNext DEF Next, MainLoop,
       MonitorStep, StartRound, EnqueuePollAlerts, RecomputeLeader,
       AnnounceLeader, StartFrame, TargetAnswers, AbortMonitor, AskRestart,
       CheckSuccessor, Die, vars, loopVars
<1> QED BY <1>1, <1>2, TypeCorrect, PTL DEF Spec

\* RestartLeavesSuccessor of FailureDetector, whatever the peers report: a node that may
\* lead is allowed to restart only while it follows another, would elect one of its
\* peers, or has one online that does not confirm its eligibility.
THEOREM RestartAlwaysLeavesSuccessor == Spec => RestartLeavesSuccessor
<1> DEFINE Step == restart # "granted" /\ restart' = "granted" /\ SelfEligible =>
                     \/ leader \in Peer
                     \/ \E p \in Peer : p \in Successors \/ Doubtful(p)
<1>1. TypeOK /\ HealthInv /\ [Next]_vars => [Step]_vars
  <2> SUFFICES ASSUME TypeOK, HealthInv, [Next]_vars,
                      restart # "granted", restart' = "granted", SelfEligible
               PROVE  \/ leader \in Peer
                      \/ \E p \in Peer : p \in Successors \/ Doubtful(p)
    OBVIOUS
  <2>1. AskRestart \/ CheckSuccessor
    BY DEF Next, MainLoop, MonitorStep, StartRound, PeerAnswers, ApplyPoll,
       EnqueuePollAlerts, RecomputeLeader, AnnounceLeader, StartFrame,
       TargetAnswers, ApplyMetrics, AbortMonitor, Die, Tick, vars
  <2>2. CASE AskRestart
    <3>1. leader # NoLeader /\ leader # Self
      BY <2>2 DEF AskRestart
    <3> QED BY <3>1 DEF TypeOK
  <2>3. CASE CheckSuccessor
    <3>1. PICK p \in Peer : Viable(peers[p], PeerEligible[p])
      BY <2>3 DEF CheckSuccessor, HasViableSuccessor
    <3>2. CASE peers[p].health = NoHealth
      <4>1. p \notin Unwatched
        <5>1. SUFFICES ASSUME p \in Unwatched PROVE FALSE
          OBVIOUS
        <5>2. peers[p].health \in Report[p]
          BY <3>1, <5>1 DEF HealthInv, Viable
        <5> QED BY <3>2, <5>2, NodeAssumption, AbsenceAssumption
      <4> QED BY <3>1, <3>2, <4>1 DEF Doubtful
    <3>3. CASE peers[p].health # NoHealth
      BY <3>1, <3>3 DEF Doubtful, Successors, IsCandidate
    <3> QED BY <3>2, <3>3
  <2> QED BY <2>1, <2>2, <2>3
<1> QED BY <1>1, TypeCorrect, HealthInvariant, PTL DEF Spec, RestartLeavesSuccessor

\* LeaderInTable of FailureDetector: a node follows an unwatched peer only when its
\* latest round found that peer online and willing to lead.
THEOREM LeaderAlwaysInTable == Spec => []LeaderInTable
<1>1. Init => LeaderInTable
  BY IdAssumption, NodeAssumption DEF Init, LeaderInTable, Unwatched
<1>2. TypeOK /\ LeaderInTable /\ [Next]_vars => LeaderInTable'
  <2> SUFFICES ASSUME TypeOK, LeaderInTable, [Next]_vars PROVE LeaderInTable'
    OBVIOUS
  <2>1. CASE RecomputeLeader
    <3>1. leader' \in Successors \cup {Self, NoLeader}
      BY <2>1, ElectedIsCandidate DEF RecomputeLeader
    <3>2. leader' \in Peer => leader' \in Successors
      BY <3>1, IdAssumption, NodeAssumption
    <3> QED BY <2>1, <3>2 DEF RecomputeLeader, LeaderInTable, Successors,
               IsCandidate, Viable, Unwatched
  <2>2. CASE Tick
    BY <2>2 DEF Unwatched, Tick, Aged, TypeOK, PeerRow, LeaderInTable, loopVars
  <2>3. CASE ApplyPoll \/ EnqueuePollAlerts
    BY <2>3 DEF ApplyPoll, EnqueuePollAlerts, LeaderInTable
  <2>4. CASE QuietStep
    BY <2>4 DEF QuietStep, LeaderInTable
  <2> QED BY <2>1, <2>2, <2>3, <2>4, UnwatchedNext
<1> QED BY <1>1, <1>2, TypeCorrect, PTL DEF Spec
=============================================================================
