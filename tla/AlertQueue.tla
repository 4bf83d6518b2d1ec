----------------------------- MODULE AlertQueue -----------------------------
(***************************************************************************)
(* The alerts of one node on their way to the Telegram chats: the queue of *)
(* AppState (enqueue_alerts, drain_alerts, requeue_alerts in               *)
(* src/cluster.rs) and the alert loops that empty it (alert_loop in        *)
(* src/telegram.rs).  Every run of telegram::run spawns another loop, and  *)
(* nothing ends one, so there may be several after an error.               *)
(*                                                                         *)
(* Alerts are numbered in the order they are queued.  Of what a chat has   *)
(* received only the first copy of each alert is kept in order.            *)
(***************************************************************************)
EXTENDS Integers, Sequences, SequencesExt

CONSTANTS
  Loop,        \* bound: the alert loops that are started
  Chat,        \* telegram_chat_ids
  Unreliable,  \* the chats to which sending may fail
  MaxAlert     \* bound: alerts queued

ASSUME QueueAssumption ==
  /\ Unreliable \subseteq Chat
  /\ MaxAlert \in Nat

VARIABLES
  queued,      \* how many alerts were ever queued
  queue,       \* AppState.alerts
  leads,       \* is_leader
  stage,       \* where each loop is
  hand,        \* the alerts it drained and has not done with
  chats,       \* the chats the first of them has not been sent to
  failed,      \* whether a chat refused the first of them
  retry,       \* the alerts to put back
  heard,       \* what each chat received, first copies only
  repeated,    \* <<c, a>>: chat c received alert a more than once
  refused      \* alerts that some chat refused

loopVars == <<stage, hand, chats, failed, retry>>
chatVars == <<heard, repeated, refused>>
vars == <<queued, queue, leads, loopVars, chatVars>>

Alert == 1 .. MaxAlert

Init ==
  /\ queued = 0
  /\ queue = << >>
  /\ leads = FALSE
  /\ stage = [l \in Loop |-> "none"]
  /\ hand = [l \in Loop |-> << >>]
  /\ chats = [l \in Loop |-> {}]
  /\ failed = [l \in Loop |-> FALSE]
  /\ retry = [l \in Loop |-> << >>]
  /\ heard = [c \in Chat |-> << >>]
  /\ repeated = {}
  /\ refused = {}

-----------------------------------------------------------------------------
\* enqueue_alert, enqueue_alerts: the poll loop and the live monitors put k alerts
\* at the end of the queue, on a standby as well as on the leader.
Enqueue(k) ==
  /\ queued + k =< MaxAlert
  /\ queued' = queued + k
  /\ queue' = queue \o [i \in 1 .. k |-> queued + i]
  /\ UNCHANGED <<leads, loopVars, chatVars>>

ChangeLeader ==
  /\ leads' = ~leads
  /\ UNCHANGED <<queued, queue, loopVars, chatVars>>

\* run reaches its spawn of alert_loop, the first time or after an error.
StartLoop(l) ==
  /\ stage[l] = "none"
  /\ stage' = [stage EXCEPT ![l] = "sleep"]
  /\ UNCHANGED <<queued, queue, leads, hand, chats, failed, retry, chatVars>>

\* A loop wakes on the leader ...
Wake(l) ==
  /\ stage[l] = "sleep"
  /\ leads
  /\ stage' = [stage EXCEPT ![l] = "drain"]
  /\ UNCHANGED <<queued, queue, leads, hand, chats, failed, retry, chatVars>>

\* ... and takes the whole queue.
Drain(l) ==
  /\ stage[l] = "drain"
  /\ hand' = [hand EXCEPT ![l] = queue]
  /\ queue' = << >>
  /\ chats' = [chats EXCEPT ![l] = Chat]
  /\ stage' = [stage EXCEPT ![l] = IF queue = << >> THEN "sleep" ELSE "send"]
  /\ UNCHANGED <<queued, leads, failed, retry, chatVars>>

\* send_message succeeds.
Sent(l, c) ==
  LET a == Head(hand[l])
  IN  /\ stage[l] = "send"
      /\ c \in chats[l]
      /\ chats' = [chats EXCEPT ![l] = @ \ {c}]
      /\ IF a \in ToSet(heard[c])
         THEN repeated' = repeated \cup {<<c, a>>} /\ UNCHANGED heard
         ELSE heard' = [heard EXCEPT ![c] = Append(@, a)] /\ UNCHANGED repeated
      /\ UNCHANGED <<queued, queue, leads, stage, hand, failed, retry, refused>>

\* Mutant of Refused: the first failure ends the chats.
RefusedStops(l, c) ==
  /\ stage[l] = "send"
  /\ c \in chats[l] \cap Unreliable
  /\ chats' = [chats EXCEPT ![l] = {}]
  /\ failed' = [failed EXCEPT ![l] = TRUE]
  /\ refused' = refused \cup {Head(hand[l])}
  /\ UNCHANGED <<queued, queue, leads, stage, hand, retry, heard, repeated>>

\* send_message fails: the other chats are still tried.
Refused(l, c) ==
  /\ stage[l] = "send"
  /\ c \in chats[l] \cap Unreliable
  /\ chats' = [chats EXCEPT ![l] = @ \ {c}]
  /\ failed' = [failed EXCEPT ![l] = TRUE]
  /\ refused' = refused \cup {Head(hand[l])}
  /\ UNCHANGED <<queued, queue, leads, stage, hand, retry, heard, repeated>>

\* Mutant of NextAlert: failed is declared outside the loop over the alerts.
NextAlertFailed(l) ==
  /\ stage[l] = "send"
  /\ chats[l] = {}
  /\ retry' = [retry EXCEPT ![l] = IF failed[l] THEN Append(@, Head(hand[l])) ELSE @]
  /\ hand' = [hand EXCEPT ![l] = Tail(@)]
  /\ chats' = [chats EXCEPT ![l] = Chat]
  /\ stage' = [stage EXCEPT ![l] = IF Len(hand[l]) > 1 THEN "send"
                                   ELSE IF retry'[l] # << >> THEN "requeue" ELSE "sleep"]
  /\ UNCHANGED <<queued, queue, leads, failed, chatVars>>

\* Every chat was tried: on to the next alert.
NextAlert(l) ==
  /\ stage[l] = "send"
  /\ chats[l] = {}
  /\ retry' = [retry EXCEPT ![l] = IF failed[l] THEN Append(@, Head(hand[l])) ELSE @]
  /\ hand' = [hand EXCEPT ![l] = Tail(@)]
  /\ chats' = [chats EXCEPT ![l] = Chat]
  /\ failed' = [failed EXCEPT ![l] = FALSE]
  /\ stage' = [stage EXCEPT ![l] = IF Len(hand[l]) > 1 THEN "send"
                                   ELSE IF retry'[l] # << >> THEN "requeue" ELSE "sleep"]
  /\ UNCHANGED <<queued, queue, leads, chatVars>>

\* Mutant of Requeue: what was queued meanwhile is replaced.
RequeueOver(l) ==
  /\ stage[l] = "requeue"
  /\ queue' = retry[l]
  /\ retry' = [retry EXCEPT ![l] = << >>]
  /\ stage' = [stage EXCEPT ![l] = "sleep"]
  /\ UNCHANGED <<queued, leads, hand, chats, failed, chatVars>>

\* Mutant of Requeue: at the end.
RequeueLast(l) ==
  /\ stage[l] = "requeue"
  /\ queue' = queue \o retry[l]
  /\ retry' = [retry EXCEPT ![l] = << >>]
  /\ stage' = [stage EXCEPT ![l] = "sleep"]
  /\ UNCHANGED <<queued, leads, hand, chats, failed, chatVars>>

\* requeue_alerts: what failed goes back to the front, in its order.
Requeue(l) ==
  /\ stage[l] = "requeue"
  /\ queue' = retry[l] \o queue
  /\ retry' = [retry EXCEPT ![l] = << >>]
  /\ stage' = [stage EXCEPT ![l] = "sleep"]
  /\ UNCHANGED <<queued, leads, hand, chats, failed, chatVars>>

Deliver(l) ==
  \/ Wake(l) \/ Drain(l)
  \/ \E c \in Chat : Sent(l, c) \/ Refused(l, c)
  \/ NextAlert(l) \/ Requeue(l)

Next ==
  \/ \E k \in 1 .. MaxAlert : Enqueue(k)
  \/ ChangeLeader
  \/ \E l \in Loop : StartLoop(l) \/ Deliver(l)

Spec == Init /\ [][Next]_vars

\* The runtime keeps running the loops, and a timeout bounds every send.
FairSpec == Spec /\ \A l \in Loop : WF_vars(Deliver(l))

-----------------------------------------------------------------------------
(* Properties.                                                             *)

TypeOK ==
  /\ queued \in 0 .. MaxAlert
  /\ queue \in Seq(Alert)
  /\ leads \in BOOLEAN
  /\ stage \in [Loop -> {"none", "sleep", "drain", "send", "requeue"}]
  /\ hand \in [Loop -> Seq(Alert)]
  /\ \A l \in Loop : stage[l] = "send" <=> hand[l] # << >>
  /\ chats \in [Loop -> SUBSET Chat]
  /\ failed \in [Loop -> BOOLEAN]
  /\ retry \in [Loop -> Seq(Alert)]
  /\ heard \in [Chat -> Seq(Alert)]
  /\ repeated \subseteq Chat \X Alert
  /\ refused \subseteq Alert

\* Where an alert is on this node.
Held(a) ==
  \/ a \in ToSet(queue)
  \/ \E l \in Loop : a \in ToSet(hand[l]) \cup ToSet(retry[l])

\* No alert is dropped while the process lives: until every chat has received it,
\* it is in the queue or in the hands of one loop that will put it back.
NothingLost ==
  \A a \in 1 .. queued : Held(a) \/ \A c \in Chat : a \in ToSet(heard[c])

\* Loops started by an error of the Telegram side never send the same alert twice
\* between them: a chat gets a second copy only of an alert that some chat refused.
RepeatsHaveCause == \A c \in Chat, a \in Alert : <<c, a>> \in repeated => a \in refused

Started == {l \in Loop : stage[l] # "none"}

InOrder(s) == \A i, j \in 1 .. Len(s) : i < j => s[i] < s[j]

\* As long as one loop has been started the queue stays in the order the alerts were
\* raised, retries first, and a chat to which sending never fails hears them in
\* that order, whatever is put back for the sake of the others.
RaisedOrder ==
  (\A k, l \in Started : k = l) =>
    /\ InOrder(queue)
    /\ \A c \in Chat \ Unreliable : InOrder(heard[c])

\* A chat that refuses everything keeps no alert from the others: on a node that
\* leads for good and has come to start a loop, each alert reaches every other
\* chat.
ReliableChatsHear ==
  <>[](leads /\ Started # {}) =>
    \A a \in Alert : \A c \in Chat \ Unreliable : a =< queued ~> a \in ToSet(heard[c])
=============================================================================
