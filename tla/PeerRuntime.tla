---------------------------- MODULE PeerRuntime ----------------------------
(***************************************************************************)
(* The row ClusterRuntime keeps for one configured peer, and what each     *)
(* answer or missing answer does to it (src/cluster.rs, PeerRuntime).      *)
(*                                                                         *)
(* last_seen is kept as the time since it was written: the code compares   *)
(* it with the lease and with nothing else, so ages above Lease are all    *)
(* represented by Lease + 1.  first_seen and last_error are only ever      *)
(* tested for presence, so they are Booleans.  missed_heartbeats saturates *)
(* at MissedMax, which stands for u64::MAX.                                *)
(***************************************************************************)
EXTENDS Integers

CONSTANTS
  OfflineAfter,   \* alerts.offline_after_missed_heartbeats
  Lease,          \* cluster.leader_lease_seconds, in ticks of the model
  MissedMax,      \* bound: the value at which missed_heartbeats saturates
  StartTimes,     \* bound: the started_at values a process may report
  Never,          \* last_seen = None
  NoHealth        \* health = None

ASSUME ThresholdAssumption ==
  /\ OfflineAfter \in Nat \ {0}      \* AlertConfig::validate
  /\ Lease \in Nat \ {0}             \* ClusterConfig::validate
  /\ MissedMax \in Nat
  /\ OfflineAfter =< MissedMax
  /\ StartTimes \subseteq Nat

\* The fields of HealthResponse the election reads.
Health == [eligible_leader : BOOLEAN, started_at : StartTimes]

ASSUME AbsenceAssumption ==
  /\ Never \notin Int
  /\ NoHealth \notin Health

Ages == 0 .. (Lease + 1)

PeerRow ==
  [online            : BOOLEAN,
   last_seen         : Ages \cup {Never},
   first_seen        : BOOLEAN,
   last_error        : BOOLEAN,
   missed_heartbeats : 0 .. MissedMax,
   health            : Health \cup {NoHealth}]

\* AppState::new
NewRow ==
  [online |-> FALSE, last_seen |-> Never, first_seen |-> FALSE,
   last_error |-> FALSE, missed_heartbeats |-> 0, health |-> NoHealth]

-----------------------------------------------------------------------------
\* Mutant of HeardMetrics: the misses are not reset.
HeardMetricsKeepsMisses(row) ==
  [row EXCEPT !.online = TRUE, !.last_seen = 0, !.first_seen = TRUE, !.last_error = FALSE]

\* What a successful fetch writes, by the live monitor: health is untouched.
HeardMetrics(row) ==
  [row EXCEPT !.online = TRUE, !.last_seen = 0, !.first_seen = TRUE,
              !.last_error = FALSE, !.missed_heartbeats = 0]

\* What a successful poll writes: the monitor's fields and the health answer.
HeardHealth(row, health) == [HeardMetrics(row) EXCEPT !.health = health]

MissedOnce(row) ==
  IF row.missed_heartbeats = MissedMax THEN MissedMax
                                       ELSE row.missed_heartbeats + 1

\* A failed fetch, by the poll loop or by the live monitor.
Missed(row) ==
  LET offline == MissedOnce(row) >= OfflineAfter
  IN  [row EXCEPT !.last_error = TRUE,
                  !.missed_heartbeats = MissedOnce(row),
                  !.online = @ /\ ~offline,
                  !.first_seen = @ /\ ~offline]

\* The passage of one tick of time, seen through now - last_seen.
Aged(row) ==
  [row EXCEPT !.last_seen =
     IF @ = Never \/ @ = Lease + 1 THEN @ ELSE @ + 1]

-----------------------------------------------------------------------------
\* last_seen is inside the lease window.
Fresh(row) == row.last_seen # Never /\ row.last_seen =< Lease

\* Mutant of PollAlert: the first miss already counts.
PollAlertOnError(row, new) ==
  IF new.online /\ ~row.online /\ row.last_seen # Never THEN "online"
  ELSE IF row.online /\ new.last_error THEN "offline"
  ELSE "none"

\* The alert a poll raises when it replaces row by new.
PollAlert(row, new) ==
  IF new.online /\ ~row.online /\ row.last_seen # Never THEN "online"
  ELSE IF row.online /\ ~new.online THEN "offline"
  ELSE "none"

\* has_viable_successor's test of one row; eligible is the peer's configured
\* eligible_leader.
Viable(row, eligible) == row.online /\ eligible /\ Fresh(row)

\* compute_leader_locked's test of one row: it also asks the health answer.
IsCandidate(row, eligible) ==
  /\ Viable(row, eligible)
  /\ row.health # NoHealth
  /\ row.health.eligible_leader

-----------------------------------------------------------------------------
\* What the fields of a row say together: a peer once heard is offline exactly
\* when it has missed OfflineAfter fetches since, it has an error exactly when it
\* missed the latest fetch, and nothing is known of a peer never heard.
RowConsistent(row) ==
  /\ row.online = row.first_seen
  /\ row.online => row.last_seen # Never
  /\ row.last_seen # Never =>
       (row.online <=> row.missed_heartbeats < OfflineAfter)
  /\ row.last_error <=> row.missed_heartbeats > 0
  /\ row.health # NoHealth => row.last_seen # Never
=============================================================================
