----------------------------- MODULE MCNotices -----------------------------
(***************************************************************************)
(* Small instances of AlertQueue and Throttles, checked side by side: the  *)
(* queue, the answers to strangers and the threshold alerts share no state *)
(* and no property, so two of the three stay as they begin while the other *)
(* runs.  Two chats, one of which may refuse what is sent to it, and one   *)
(* alert loop, or two after Telegram polling failed once; two strangers    *)
(* and a table for two, an authorized chat of either kind, and one sensor. *)
(***************************************************************************)
EXTENDS AlertQueue, Throttles

CONSTANTS s, u, g, p, temp

Windows == [t \in Table |-> IF t = "userinfo" THEN 1 ELSE 2]

NoticesInit == Init /\ ThrottleInit

AlertsBegin ==
  /\ lastSent = [m \in Metric |-> None]
  /\ raised = [m \in Metric |-> None]
  /\ moved = [m \in Metric |-> {}]
  /\ jumps = 0

StrangersBegin == seen = Empty /\ told = Empty

NoticesNext ==
  \/ ThrottleInit /\ Next /\ UNCHANGED throttleVars
  \/ Init /\ AlertsBegin /\ ThrottleNext /\ UNCHANGED <<vars, alertVars>>
  \/ Init /\ StrangersBegin /\ ThrottleNext /\ UNCHANGED <<vars, strangerVars>>

\* Deliver is disabled where AlertQueue begins, so that its fairness asks nothing of
\* the behaviours in which Throttles runs.
NoticesSpec ==
  /\ NoticesInit /\ [][NoticesNext]_<<vars, throttleVars>>
  /\ \A l \in Loop : WF_vars(Deliver(l))
=============================================================================
