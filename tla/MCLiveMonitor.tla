---------------------------- MODULE MCLiveMonitor ----------------------------
(***************************************************************************)
(* Small instances of LiveMonitor: two chats that start monitors in turn.  *)
(***************************************************************************)
EXTENDS LiveMonitor
=============================================================================
