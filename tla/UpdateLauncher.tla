--------------------------- MODULE UpdateLauncher ---------------------------
(***************************************************************************)
(* What a node promises of its updater, whoever asks for it and however    *)
(* often: one launcher at a time, and one for each operation.  Each target *)
(* of UpdateDispatch implements it.                                        *)
(***************************************************************************)
EXTENDS Naturals

CONSTANT Op    \* the operations that ask for an update

VARIABLES
  launches,    \* how often the launcher was started for each operation
  running      \* the operations whose launcher is at work

vars == <<launches, running>>

Init ==
  /\ launches = [o \in Op |-> 0]
  /\ running = {}

Launch(o) ==
  /\ running = {}
  /\ launches[o] = 0
  /\ launches' = [launches EXCEPT ![o] = 1]
  /\ running' = {o}

\* It returns, fails, times out, or is killed with its request or its process.
End ==
  /\ running # {}
  /\ running' = {}
  /\ UNCHANGED launches

Next == End \/ \E o \in Op : Launch(o)

Spec == Init /\ [][Next]_vars
=============================================================================
