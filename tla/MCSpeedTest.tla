---------------------------- MODULE MCSpeedTest -----------------------------
(* Three nodes.  a and b know each other and may test each other and the   *)
(* internet at the same time, but b asks for more bytes than a allows.     *)
(* Only a knows c, so that only a may be its source.                       *)
EXTENDS SpeedTest

CONSTANTS a, b, c

MCKnown == {<<a, b>>, <<b, a>>, <<a, c>>}
MCAllowed == {<<a, b>>, <<a, c>>}
=============================================================================
