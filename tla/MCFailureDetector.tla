------------------------- MODULE MCFailureDetector -------------------------
(***************************************************************************)
(* Small instances of FailureDetector.  a is the node itself, b and c its  *)
(* peers.                                                                  *)
(***************************************************************************)
EXTENDS FailureDetector, TLC

CONSTANTS a, b, c, m

MCIdRank == a :> 1 @@ b :> 2 @@ c :> 3

Says(eligible, start) == [eligible_leader |-> eligible, started_at |-> start]

\* Two peers that this node is configured to rank before itself, b by its age and c by
\* its priority; but c's own configuration does not let it lead.
MCEligible == b :> TRUE @@ c :> TRUE
MCPriority == b :> 2 @@ c :> 3
MCReport   == b :> {Says(TRUE, 0)} @@ c :> {Says(FALSE, 0)}

\* A live monitor that shows b.
OneTarget  == m :> <<b>>

\* One peer, whose process may be replaced by a younger one.
OneEligible == b :> TRUE
OnePriority == b :> 1
OneReport   == b :> {Says(TRUE, 0), Says(TRUE, 2)}
NoTarget    == << >>
============================================================================
