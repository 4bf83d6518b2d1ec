--------------------------- MODULE MCUpdateGuard ---------------------------
(***************************************************************************)
(* Small instances of UpdateGuard: two requests are handled at a time, and *)
(* the node's own operations are interchangeable.                          *)
(***************************************************************************)
EXTENDS UpdateGuard, TLC

Symmetry == Permutations(Op) \cup Permutations(Handler)
============================================================================
