------------------------------ MODULE MCFleet ------------------------------
(***************************************************************************)
(* Small fleets.  a and b are equal in priority and outrank c.             *)
(***************************************************************************)
EXTENDS Fleet, TLC

CONSTANTS a, b, c

MCIdRank   == [n \in NodeId |-> IF n = a THEN 1 ELSE IF n = b THEN 2 ELSE 3]
MCEligible == [n \in NodeId |-> TRUE]
MCPriority == [n \in NodeId |-> IF n = c THEN 1 ELSE 2]

\* Each peers entry repeats the peer's own configuration.
MCPeerEligible == [n \in NodeId |-> [p \in NodeId \ {n} |-> Eligible[p]]]
MCPeerPriority == [n \in NodeId |-> [p \in NodeId \ {n} |-> Priority[p]]]

LinkBA   == {<<b, a>>}
============================================================================
