-------------------------- MODULE FailureDetector --------------------------
(***************************************************************************)
(* One node's view of its peers: the main loop of src/main.rs (poll the    *)
(* peers, recompute the leader, sleep), the live monitors that write the   *)
(* same rows between its steps, and the restart check that reads them.     *)
(*                                                                         *)
(* The alert queue is represented by what its readers can tell of it: for  *)
(* each peer the last online/offline alert put in it, and the last leader  *)
(* change.  Delivery of the queue to Telegram is another component.        *)
(***************************************************************************)
EXTENDS PeerRuntime, Election, Sequences

CONSTANTS
  Self,            \* node.id
  Peer,            \* the ids of config.peers
  SelfEligible,    \* node.eligible_leader
  SelfPriority,    \* node.priority
  SelfStart,       \* AppState.started_at
  PeerEligible,    \* peers[p].eligible_leader, as this node is configured
  PeerPriority,    \* peers[p].priority, as this node is configured
  Report,          \* the health answers the process of p may give
  Monitor,         \* the live monitors of this node's chats
  MonitorTargets,  \* the peers a frame of the monitor fetches, in order
  NoAnswer         \* the peer has not answered the fetch

ASSUME NodeAssumption ==
  /\ Peer \subseteq NodeId \ {Self}
  /\ Self \in NodeId
  /\ SelfEligible \in BOOLEAN
  /\ SelfPriority \in Int
  /\ SelfStart \in Int
  /\ PeerEligible \in [Peer -> BOOLEAN]
  /\ PeerPriority \in [Peer -> Int]
  /\ Report \in [Peer -> SUBSET Health]
  /\ MonitorTargets \in [Monitor -> Seq(Peer)]
  /\ NoAnswer \notin Health

VARIABLES
  peers,       \* ClusterRuntime.peers
  leader,      \* ClusterRuntime.leader_id
  loop,        \* where the main loop is
  answer,      \* the answers to the fetches of the current round
  pending,     \* poll_peers' local vector of alerts
  told,        \* the last online/offline alert queued for each peer
  announced,   \* the last leader change queued
  frame,       \* each live monitor: the target it is fetching, 0 outside a frame
  got,         \* each live monitor: the target has answered that fetch
  restart,     \* ensure_restart_allowed: running, granted or else
  dead         \* the peers that will never answer again

loopVars  == <<loop, answer, pending>>
alertVars == <<told, announced>>
monVars   == <<frame, got>>
vars == <<peers, leader, loopVars, alertVars, monVars, restart, dead>>

-----------------------------------------------------------------------------
CandidateOf(p) ==
  [id |-> p, priority |-> PeerPriority[p], started_at |-> peers[p].health.started_at]

SelfCandidate == [id |-> Self, priority |-> SelfPriority, started_at |-> SelfStart]

\* The peers compute_leader_locked accepts.
Successors == {p \in Peer : IsCandidate(peers[p], PeerEligible[p])}

Candidates ==
  {CandidateOf(p) : p \in Successors}
    \cup (IF SelfEligible THEN {SelfCandidate} ELSE {})

\* Mutant of HasViableSuccessor: a peer that was ever heard will do.
HasKnownSuccessor == \E p \in Peer : peers[p].health # NoHealth /\ PeerEligible[p]

HasViableSuccessor == \E p \in Peer : Viable(peers[p], PeerEligible[p])

Init ==
  /\ peers = [p \in Peer |-> NewRow]
  /\ leader = NoLeader
  /\ loop = "sleep"
  /\ answer = [p \in Peer |-> NoAnswer]
  /\ pending = [p \in Peer |-> "none"]
  /\ told = [p \in Peer |-> "none"]
  /\ announced = NoLeader
  /\ frame = [m \in Monitor |-> 0]
  /\ got = [m \in Monitor |-> FALSE]
  /\ restart = "idle"
  /\ dead = {}

-----------------------------------------------------------------------------
(* The main loop.                                                          *)

\* poll_peers spawns one task per peer.
StartRound ==
  /\ loop = "sleep"
  /\ loop' = "fetch"
  /\ UNCHANGED <<peers, leader, answer, pending, alertVars, monVars, restart, dead>>

\* p, which is alive, answers the fetch of its task.
PeerAnswers(p) ==
  /\ loop = "fetch"
  /\ answer[p] = NoAnswer
  /\ p \notin dead
  /\ \E health \in Report[p] : answer' = [answer EXCEPT ![p] = health]
  /\ UNCHANGED <<peers, leader, loop, pending, alertVars, monVars, restart, dead>>

\* The row of p after the round: a fetch without an answer ended in an error.
Polled(p) == IF answer[p] = NoAnswer THEN Missed(peers[p])
                                     ELSE HeardHealth(peers[p], answer[p])

\* Every task has ended, with an answer or with an error: all the rows are
\* rewritten under one write lock.
ApplyPoll ==
  /\ loop = "fetch"
  /\ peers' = [p \in Peer |-> Polled(p)]
  /\ pending' = [p \in Peer |-> PollAlert(peers[p], Polled(p))]
  /\ loop' = "enqueue"
  /\ answer' = [p \in Peer |-> NoAnswer]
  /\ UNCHANGED <<leader, alertVars, monVars, restart, dead>>

\* Mutant of EnqueuePollAlerts: a standby drops what it saw.
EnqueueIfLeader ==
  /\ loop = "enqueue"
  /\ told' = [p \in Peer |-> IF pending[p] = "none" \/ leader # Self THEN told[p]
                                                                 ELSE pending[p]]
  /\ pending' = [p \in Peer |-> "none"]
  /\ loop' = "recompute"
  /\ UNCHANGED <<peers, leader, answer, announced, monVars, restart, dead>>

\* After the write lock is dropped: enqueue_alerts.
EnqueuePollAlerts ==
  /\ loop = "enqueue"
  /\ told' = [p \in Peer |-> IF pending[p] = "none" THEN told[p] ELSE pending[p]]
  /\ pending' = [p \in Peer |-> "none"]
  /\ loop' = "recompute"
  /\ UNCHANGED <<peers, leader, answer, announced, monVars, restart, dead>>

\* Mutant of RecomputeLeader: the loss of the leader is not announced.
RecomputeQuietly ==
  /\ loop = "recompute"
  /\ leader' \in NodeId \cup {NoLeader}
  /\ Elects(Candidates, leader')
  /\ loop' = IF leader' # leader /\ leader # NoLeader THEN "announce" ELSE "sleep"
  /\ UNCHANGED <<peers, answer, pending, alertVars, monVars, restart, dead>>

\* Mutant of RecomputeLeader: a leader, once there is one, stays.
RecomputeSticky ==
  /\ loop = "recompute"
  /\ leader' \in NodeId \cup {NoLeader}
  /\ IF leader = NoLeader THEN Elects(Candidates, leader') ELSE leader' = leader
  /\ loop' = IF leader' # leader THEN "announce" ELSE "sleep"
  /\ UNCHANGED <<peers, answer, pending, alertVars, monVars, restart, dead>>

\* recompute_leader up to the release of the write lock.
RecomputeLeader ==
  /\ loop = "recompute"
  /\ leader' \in NodeId \cup {NoLeader}
  /\ Elects(Candidates, leader')
  /\ loop' = IF leader' # leader THEN "announce" ELSE "sleep"
  /\ UNCHANGED <<peers, answer, pending, alertVars, monVars, restart, dead>>

\* The enqueue_alert of recompute_leader.
AnnounceLeader ==
  /\ loop = "announce"
  /\ announced' = leader
  /\ loop' = "sleep"
  /\ UNCHANGED <<peers, leader, answer, pending, told, monVars, restart, dead>>

-----------------------------------------------------------------------------
(* The live monitors: render_monitor_live fetches its targets in turn.     *)

\* A frame starts only on the leader; the leader is not asked again in it.
StartFrame(m) ==
  /\ frame[m] = 0
  /\ MonitorTargets[m] # << >>
  /\ leader = Self
  /\ frame' = [frame EXCEPT ![m] = 1]
  /\ UNCHANGED <<peers, leader, loopVars, alertVars, got, restart, dead>>

\* The target, which is alive, answers the fetch.
TargetAnswers(m) ==
  /\ frame[m] # 0
  /\ ~got[m]
  /\ MonitorTargets[m][frame[m]] \notin dead
  /\ got' = [got EXCEPT ![m] = TRUE]
  /\ UNCHANGED <<peers, leader, loopVars, alertVars, frame, restart, dead>>

\* The fetch has ended, with the answer or with an error: collect_metrics_for_host
\* rewrites the row, then the next target is fetched.
ApplyMetrics(m) ==
  LET p    == MonitorTargets[m][frame[m]]
      last == frame[m] = Len(MonitorTargets[m])
  IN  /\ frame[m] # 0
      /\ peers' = [peers EXCEPT ![p] = IF got[m] THEN HeardMetrics(@) ELSE Missed(@)]
      /\ frame' = [frame EXCEPT ![m] = IF last THEN 0 ELSE @ + 1]
      /\ got' = [got EXCEPT ![m] = FALSE]
      /\ UNCHANGED <<leader, loopVars, alertVars, restart, dead>>

\* stop_monitor aborts the task while it awaits an answer.
AbortMonitor(m) ==
  /\ frame[m] # 0
  /\ frame' = [frame EXCEPT ![m] = 0]
  /\ got' = [got EXCEPT ![m] = FALSE]
  /\ UNCHANGED <<peers, leader, loopVars, alertVars, restart, dead>>

-----------------------------------------------------------------------------
(* ensure_restart_allowed: leader_id and has_viable_successor take the     *)
(* read lock one after the other.                                          *)

AskRestart ==
  /\ restart # "checking"
  /\ restart' = IF SelfEligible /\ leader = NoLeader THEN "idle"
                ELSE IF leader = Self THEN "checking"
                ELSE "granted"
  /\ UNCHANGED <<peers, leader, loopVars, alertVars, monVars, dead>>

CheckSuccessor ==
  /\ restart = "checking"
  /\ restart' = IF HasViableSuccessor THEN "granted" ELSE "idle"
  /\ UNCHANGED <<peers, leader, loopVars, alertVars, monVars, dead>>

-----------------------------------------------------------------------------
(* The environment.                                                        *)

\* The process or the network of p is gone for good.
Die(p) ==
  /\ p \notin dead
  /\ dead' = dead \cup {p}
  /\ UNCHANGED <<peers, leader, loopVars, alertVars, monVars, restart>>

Tick ==
  /\ peers' = [p \in Peer |-> Aged(peers[p])]
  /\ UNCHANGED <<leader, loopVars, alertVars, monVars, restart, dead>>

MainLoop ==
  \/ StartRound \/ \E p \in Peer : PeerAnswers(p)
  \/ ApplyPoll \/ EnqueuePollAlerts \/ RecomputeLeader \/ AnnounceLeader

MonitorStep(m) ==
  StartFrame(m) \/ TargetAnswers(m) \/ ApplyMetrics(m) \/ AbortMonitor(m)

Next ==
  \/ MainLoop
  \/ \E m \in Monitor : MonitorStep(m)
  \/ AskRestart \/ CheckSuccessor
  \/ \E p \in Peer : Die(p)
  \/ Tick

Spec == Init /\ [][Next]_vars

\* The runtime keeps running the spawned loop, and a request timeout bounds
\* every fetch.
FairSpec == Spec /\ WF_vars(MainLoop)

-----------------------------------------------------------------------------
(* Properties.                                                             *)

\* The peers that no live monitor fetches.
Unwatched ==
  {p \in Peer : \A m \in Monitor : \A i \in DOMAIN MonitorTargets[m] :
                   MonitorTargets[m][i] # p}

TypeOK ==
  /\ peers \in [Peer -> PeerRow]
  /\ leader \in Peer \cup {Self, NoLeader}
  /\ loop \in {"sleep", "fetch", "enqueue", "recompute", "announce"}
  /\ answer \in [Peer -> Health \cup {NoAnswer}]
  /\ pending \in [Peer -> {"none", "online", "offline"}]
  /\ told \in [Peer -> {"none", "online", "offline"}]
  /\ announced \in Peer \cup {Self, NoLeader}
  /\ frame \in [Monitor -> Nat]
  /\ \A m \in Monitor : frame[m] =< Len(MonitorTargets[m])
  /\ got \in [Monitor -> BOOLEAN]
  /\ restart \in {"idle", "checking", "granted"}
  /\ dead \subseteq Peer

\* However the poll loop and the live monitors interleave, the fields of a row
\* agree (PeerRuntime, RowConsistent), for every peer.
RowsConsistent == \A p \in Peer : RowConsistent(peers[p])

\* The alert the Telegram side will have seen last about p.
LatestAlert(p) == IF pending[p] = "none" THEN told[p] ELSE pending[p]

\* The queue tells the truth: the latest alert about a peer is "offline" exactly
\* when the table has it offline after it was seen.  Only the poll loop raises
\* alerts, so this is claimed of the peers no live monitor writes.
AlertsMatchTable ==
  \A p \in Unwatched : LatestAlert(p) = "offline" <=>
                        ~peers[p].online /\ peers[p].last_seen # Never

\* An unwatched peer is reported back online only after it was reported offline.
NoticesAlternate ==
  [][\A p \in Unwatched : told'[p] = "online" /\ told[p] # "online"
                              => told[p] = "offline"]_vars

\* Between rounds the last queued leader change names the leader this node
\* acts on: no change of leader_id escapes the alert, although the alert is
\* queued after the lock is released.
LeaderAnnounced == loop # "announce" => announced = leader

\* A node never keeps following, past the recomputation that ends a round, an
\* unwatched peer its table calls offline or has no health from.
LeaderInTable ==
  loop \in {"announce", "sleep", "fetch"} /\ leader \in Unwatched =>
    /\ peers[leader].online
    /\ peers[leader].health # NoHealth
    /\ PeerEligible[leader]

\* A peer this node would elect were it not for what the peer's own health answer,
\* if there is one, says of its eligibility.  Without an answer the row was written by a
\* live monitor, which fetches no health.
Doubtful(p) ==
  /\ Viable(peers[p], PeerEligible[p])
  /\ IF peers[p].health = NoHealth THEN p \notin Unwatched
                                   ELSE ~peers[p].health.eligible_leader

\* ensure_restart_allowed reads leader_id and the rows under two locks, and tests the
\* rows otherwise than the election does: it does not ask the health answer.  Still a
\* node that may lead is let down only while it follows another, would elect a peer
\* in its place, or has a peer online that it is configured to hold for eligible and
\* that does not confirm it.  In the last case "The leader should refuse to shut itself
\* down unless another eligible node is online" (docs/PLAN.md) is not kept.
RestartLeavesSuccessor ==
  [][restart # "granted" /\ restart' = "granted" /\ SelfEligible =>
       \/ leader \in Peer
       \/ \E p \in Peer : p \in Successors \/ Doubtful(p)]_vars

\* A peer that was seen and then dies is eventually reported offline.
DeathTold(p) ==
  p \in dead /\ peers[p].last_seen # Never ~> told[p] = "offline"

\* Every unwatched peer that dies is reported, by standbys as well.
DeadPeerTold == \A p \in Unwatched : DeathTold(p)

\* "Notify Telegram when machines go online or offline": every peer that dies is.
EveryDeathTold == \A p \in Peer : DeathTold(p)

\* A dead peer eventually stops being this node's leader, for good, live
\* monitors or not.
DeadLeaderReplaced ==
  \A p \in Peer : p \in dead ~> [](leader # p)
=============================================================================
