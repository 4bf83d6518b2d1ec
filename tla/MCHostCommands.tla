-------------------------- MODULE MCHostCommands --------------------------
(***************************************************************************)
(* Small instances of HostCommands.                                        *)
(***************************************************************************)
EXTENDS HostCommands

CONSTANTS a, b
===========================================================================
