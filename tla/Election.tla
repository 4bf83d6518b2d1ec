------------------------------ MODULE Election ------------------------------
(***************************************************************************)
(* The order in which compute_leader_locked (src/cluster.rs) sorts its     *)
(* candidates, and the choice it makes: highest priority first, then the   *)
(* oldest started_at, then the smallest node id.                           *)
(***************************************************************************)
EXTENDS Integers

CONSTANTS
  NodeId,       \* the node ids of the cluster
  IdRank,       \* the position of an id in the order of Rust's String
  NoLeader      \* leader_id = None

ASSUME IdAssumption ==
  /\ IdRank \in [NodeId -> Nat]
  /\ \A m, n \in NodeId : IdRank[m] = IdRank[n] => m = n
  /\ NoLeader \notin NodeId

Candidate == [id : NodeId, priority : Int, started_at : Int]

\* Mutant of Before: ids do not break a tie.
BeforeTies(a, b) ==
  \/ a.priority > b.priority
  \/ a.priority = b.priority /\ a.started_at =< b.started_at

\* The comparison sort_by uses.
Before(a, b) ==
  \/ a.priority > b.priority
  \/ a.priority = b.priority /\ a.started_at < b.started_at
  \/ a.priority = b.priority /\ a.started_at = b.started_at
                             /\ IdRank[a.id] < IdRank[b.id]

\* into_iter().next() of the sorted candidates C, mapped to its id.
Elects(C, leader) ==
  IF C = {} THEN leader = NoLeader
            ELSE \E c \in C : /\ leader = c.id
                              /\ \A d \in C \ {c} : Before(c, d)
=============================================================================
