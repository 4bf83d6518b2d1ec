-------------------------- MODULE MCUpdateDispatch --------------------------
(* Small instances of UpdateDispatch: a leads at first, b is its peer.       *)
EXTENDS UpdateDispatch

CONSTANTS a, b, c1, c2

TwoHosts == <<a, b>>

\* Everything; a host named twice; a host that is not known.
Arguments == {All, <<b, b>>, <<a, None>>}
=============================================================================
