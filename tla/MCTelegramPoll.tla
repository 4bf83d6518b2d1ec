--------------------------- MODULE MCTelegramPoll ---------------------------
(***************************************************************************)
(* Small instances of TelegramPoll: any set of nodes may take itself for   *)
(* leader.                                                                 *)
(***************************************************************************)
EXTENDS TelegramPoll

AnySet    == SUBSET Node
=============================================================================
