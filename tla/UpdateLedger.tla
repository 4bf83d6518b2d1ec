---------------------------- MODULE UpdateLedger ----------------------------
(***************************************************************************)
(* What a node that notes its updates promises of its updater, whoever     *)
(* asks for it, however often and across restarts: one launch for each     *)
(* operation, and a cooldown between launches.  A note may be lost, and a  *)
(* cooldown lifted; nothing else lets an operation be launched again, or a *)
(* launch come early.  UpdateGuard implements it in detail.                *)
(***************************************************************************)
EXTENDS Integers

CONSTANTS
  Op,          \* the operations that ask for an update
  Cooldown,    \* the time between two launches
  None         \* no cooldown

VARIABLES
  launches,    \* how often the launcher was started for each operation
  until,       \* the end of the cooldown
  forgotten    \* the operations whose note was lost

vars == <<launches, until, forgotten>>

Init ==
  /\ launches = [o \in Op |-> 0]
  /\ until = None
  /\ forgotten = {}

\* The launch is counted from when it was reserved, which is a cooldown before until'.
Launch(o) ==
  /\ launches[o] = 0 \/ o \in forgotten
  /\ launches' = [launches EXCEPT ![o] = @ + 1]
  /\ until' \in Int
  /\ until # None => until' - Cooldown >= until
  /\ UNCHANGED forgotten

Lose ==
  /\ forgotten \subseteq forgotten'
  /\ until' \in {until, None}
  /\ UNCHANGED launches

Next == Lose \/ \E o \in Op : Launch(o)

Spec == Init /\ [][Next]_vars
=============================================================================
