--------------------------- MODULE TelegramProofs ---------------------------
(***************************************************************************)
(* That no Telegram update is forgotten before a handler has come to its   *)
(* end, for any number of nodes, any succession of leaders, alone or at    *)
(* the same time, and any number of crashes and failures; and that live    *)
(* monitors stay within reach of the run that started them, for any number *)
(* of chats, monitors and runs.                                            *)
(***************************************************************************)
EXTENDS TelegramPoll, LiveMonitor, TLAPS

LEMMA LargerType ==
  ASSUME NEW x \in Nat, NEW y \in Nat
  PROVE  /\ Larger(x, y) \in Nat
         /\ Larger(x, y) \in {x, y}
         /\ Larger(x, y) >= x /\ Larger(x, y) >= y
BY DEF Larger

-----------------------------------------------------------------------------
(* Type correctness.                                                       *)

LEMMA NextTypeOK == TypeOK /\ [Next]_vars => TypeOK'
<1> SUFFICES ASSUME TypeOK, [Next]_vars PROVE TypeOK'
  OBVIOUS
<1> USE PollAssumption DEF TypeOK, telegram, history
<1>1. ASSUME NEW n \in Node, Poll(n) \/ Leave(n) \/ Handle(n) \/ StoreFails(n)
      PROVE  TypeOK'
  <2>1. stage' \in [Node -> {"boot", "idle", "polling", "batch", "handling", "commit", "store"}]
    BY <1>1 DEF Poll, Leave, Handle, StoreFails
  <2>2. UNCHANGED <<telegram, leading, settled, offset, file, cursor, upto, history, crashes>>
    BY <1>1 DEF Poll, Leave, Handle, StoreFails
  <2> QED BY <2>1, <2>2
<1>10. ASSUME NEW n \in Node, Load(n) PROVE TypeOK'
  <2>1. file[n] \in Nat
    BY <1>10 DEF Load
  <2> QED BY <1>10, <2>1 DEF Load
<1>11. ASSUME NEW n \in Node, Truncate(n) PROVE TypeOK'
  BY <1>11 DEF Truncate
<1>2. ASSUME NEW n \in Node, PollReturns(n) PROVE TypeOK'
  <2>1. Larger(confirmed, offset[n]) \in Nat
    BY LargerType
  <2>2. Larger(confirmed, offset[n]) .. sent \subseteq Nat
    BY <2>1
  <2> QED BY <1>2, <2>1, <2>2 DEF PollReturns
<1>3. ASSUME NEW n \in Node, PollFails(n) PROVE TypeOK'
  BY <1>3, LargerType DEF PollFails
<1>4. ASSUME NEW n \in Node, Handled(n) PROVE TypeOK'
  BY <1>4 DEF Handled
<1>5. ASSUME NEW n \in Node, CommitOk(n) \/ CommitFails(n) PROVE TypeOK'
  <2>1. cursor[n] + 1 \in Nat
    OBVIOUS
  <2>2. Larger(confirmed, cursor[n] + 1) \in Nat
    BY <2>1, LargerType
  <2>3. CASE CommitOk(n)
    BY <2>2, <2>3 DEF CommitOk
  <2>4. CASE CommitFails(n)
    <3>1. cursor' \in [Node -> Nat] /\ confirmed' \in Nat
      BY <2>1, <2>2, <2>4 DEF CommitFails, Advance
    <3>2. stage' \in [Node -> {"boot", "idle", "polling", "batch", "handling", "commit", "store"}]
      BY <2>4 DEF CommitFails, Advance
    <3> QED BY <2>4, <3>1, <3>2 DEF CommitFails
  <2> QED BY <1>5, <2>3, <2>4
<1>6. ASSUME NEW n \in Node, StoreEnds(n) PROVE TypeOK'
  BY <1>6 DEF StoreEnds, Advance
<1>7. ASSUME NEW n \in Node, Crash(n) PROVE TypeOK'
  BY <1>7 DEF Crash
<1>8. CASE Arrive \/ ChangeLeaders \/ Settle
  <2>1. CASE Arrive
    BY <2>1 DEF Arrive
  <2>2. CASE ChangeLeaders
    BY <2>2 DEF ChangeLeaders
  <2>3. CASE Settle
    BY <2>3 DEF Settle
  <2> QED BY <1>8, <2>1, <2>2, <2>3
<1>9. CASE UNCHANGED vars
  BY <1>9 DEF vars
<1> QED
  BY <1>1, <1>2, <1>3, <1>4, <1>5, <1>6, <1>7, <1>8, <1>9, <1>10, <1>11
  DEF Next, NodeStep, Proceed

-----------------------------------------------------------------------------
(* The inductive invariant of NothingSkipped.                              *)

\* Every update below bound was handled.
HandledBelow(bound) == \A u \in Nat : 1 =< u /\ u < bound => u \in handled

\* A batch begins at an update Telegram had not forgotten, so all below where run
\* has come to was handled by someone.
BatchInv ==
  \A n \in Node :
    /\ stage[n] \in {"batch", "handling", "commit", "store"} => HandledBelow(cursor[n])
    /\ stage[n] \in {"commit", "store"} => cursor[n] \in handled
    /\ stage[n] = "store" => cursor[n] < confirmed

SkipInv == HandledBelow(confirmed) /\ BatchInv /\ OffsetsCommitted

\* What is committed after a handler was handled, and so is all below it.
LEMMA CommitHandled ==
  ASSUME TypeOK, SkipInv, NEW n \in Node, stage[n] \in {"commit", "store"}
  PROVE  HandledBelow(cursor[n] + 1)
BY DEF TypeOK, SkipInv, BatchInv, HandledBelow

LEMMA SkipInvStep == TypeOK /\ TypeOK' /\ SkipInv /\ [Next]_vars => SkipInv'
<1> SUFFICES ASSUME TypeOK, TypeOK', SkipInv, [Next]_vars PROVE SkipInv'
  OBVIOUS
<1> USE DEF telegram, history
\* Steps that leave the queue, the offsets and what was handled alone, and move one
\* node to a stage that claims nothing new.
<1>1. ASSUME NEW n \in Node, UNCHANGED <<confirmed, handled, offset, file, cursor>>,
             \A k \in Node : k # n => stage'[k] = stage[k],
             stage'[n] \in {"boot", "idle", "polling"} \/
             (stage[n] = "batch" /\ stage'[n] = "handling")
      PROVE  SkipInv'
  BY <1>1 DEF SkipInv, BatchInv, OffsetsCommitted, HandledBelow
<1>2. ASSUME NEW n \in Node,
             Poll(n) \/ Leave(n) \/ Handle(n) \/ StoreFails(n) \/ Crash(n)
      PROVE  SkipInv'
  BY <1>1, <1>2 DEF Poll, Leave, Handle, StoreFails, Crash, TypeOK
<1>3. ASSUME NEW n \in Node, Load(n) PROVE SkipInv'
  BY <1>3 DEF Load, TypeOK, SkipInv, BatchInv, OffsetsCommitted, HandledBelow
<1>4. ASSUME NEW n \in Node, PollReturns(n) \/ PollFails(n) PROVE SkipInv'
  <2>1. Larger(confirmed, offset[n]) = confirmed
    BY DEF SkipInv, OffsetsCommitted, Larger, TypeOK
  <2>2. CASE PollReturns(n)
    <3>1. /\ UNCHANGED <<confirmed, handled, offset, file>>
          /\ \A k \in Node : k # n => stage'[k] = stage[k] /\ cursor'[k] = cursor[k]
          /\ \/ stage'[n] = "idle"
             \/ stage'[n] = "batch" /\ cursor'[n] = confirmed
      BY <2>1, <2>2 DEF PollReturns, TypeOK
    <3> QED BY <3>1 DEF SkipInv, BatchInv, OffsetsCommitted, HandledBelow
  <2>3. CASE PollFails(n)
    BY <1>1, <2>1, <2>3 DEF PollFails, TypeOK
  <2> QED BY <1>4, <2>2, <2>3
<1>5. ASSUME NEW n \in Node, Handled(n) PROVE SkipInv'
  <2>1. /\ UNCHANGED <<confirmed, offset, file, cursor>>
        /\ handled' = handled \cup {cursor[n]}
        /\ stage[n] = "handling" /\ stage'[n] = "commit"
        /\ \A k \in Node : k # n => stage'[k] = stage[k]
    BY <1>5 DEF Handled, TypeOK
  <2> QED BY <2>1 DEF SkipInv, BatchInv, OffsetsCommitted, HandledBelow
<1>6. ASSUME NEW n \in Node, CommitOk(n) \/ CommitFails(n) PROVE SkipInv'
  <2>1. HandledBelow(cursor[n] + 1) /\ cursor[n] \in Nat /\ confirmed \in Nat
    BY <1>6, CommitHandled DEF CommitOk, CommitFails, TypeOK
  <2>2. /\ confirmed' \in {confirmed, Larger(confirmed, cursor[n] + 1)}
        /\ UNCHANGED <<handled, offset, file>>
    BY <1>6 DEF CommitOk, CommitFails
  <2>3. confirmed' >= confirmed /\ HandledBelow(confirmed)'
    BY <2>1, <2>2, LargerType DEF SkipInv, HandledBelow, Larger
  <2>4. OffsetsCommitted'
    BY <2>2, <2>3 DEF SkipInv, OffsetsCommitted, TypeOK
  <2>5. CASE CommitOk(n)
    <3>1. /\ UNCHANGED cursor
          /\ stage'[n] = "store"
          /\ \A k \in Node : k # n => stage'[k] = stage[k]
          /\ cursor[n] < confirmed'
      BY <2>1, <2>5, LargerType DEF CommitOk, TypeOK
    <3>2. cursor[n] \in handled /\ HandledBelow(cursor[n])
      BY <1>6 DEF CommitOk, CommitFails, SkipInv, BatchInv
    <3>3. \A k \in Node : cursor[k] \in Nat
      BY DEF TypeOK
    <3>4. BatchInv'
      BY <2>1, <2>2, <2>3, <3>1, <3>2, <3>3 DEF SkipInv, BatchInv, HandledBelow, TypeOK
    <3> QED BY <2>3, <2>4, <3>4 DEF SkipInv
  <2>6. CASE CommitFails(n)
    <3>1. /\ cursor'[n] = cursor[n] + 1
          /\ stage'[n] \in {"batch", "idle"}
          /\ \A k \in Node : k # n => stage'[k] = stage[k] /\ cursor'[k] = cursor[k]
      BY <2>6 DEF CommitFails, Advance, TypeOK
    <3>2. \A k \in Node : cursor[k] \in Nat
      BY DEF TypeOK
    <3>3. BatchInv'
      BY <2>1, <2>2, <2>3, <3>1, <3>2 DEF SkipInv, BatchInv, HandledBelow, TypeOK
    <3> QED BY <2>3, <2>4, <3>3 DEF SkipInv
  <2> QED BY <1>6, <2>5, <2>6
<1>7. ASSUME NEW n \in Node, Truncate(n) PROVE SkipInv'
  BY <1>7 DEF Truncate, TypeOK, SkipInv, BatchInv, OffsetsCommitted, HandledBelow
<1>8. ASSUME NEW n \in Node, StoreEnds(n) PROVE SkipInv'
  <2>1. /\ UNCHANGED <<confirmed, handled>>
        /\ cursor'[n] = cursor[n] + 1
        /\ offset'[n] = cursor[n] + 1 /\ file'[n] = cursor[n] + 1
        /\ stage'[n] \in {"batch", "idle"}
        /\ \A k \in Node : k # n => /\ stage'[k] = stage[k] /\ cursor'[k] = cursor[k]
                                    /\ offset'[k] = offset[k] /\ file'[k] = file[k]
    BY <1>8 DEF StoreEnds, Advance, TypeOK
  <2>2. /\ HandledBelow(cursor[n] + 1)
        /\ cursor[n] < confirmed /\ cursor[n] \in Nat /\ confirmed \in Nat
    BY <1>8, CommitHandled DEF StoreEnds, SkipInv, BatchInv, TypeOK
  <2>3. BatchInv'
    BY <2>1, <2>2 DEF SkipInv, BatchInv, HandledBelow
  <2>4. OffsetsCommitted'
    BY <2>1, <2>2 DEF SkipInv, OffsetsCommitted
  <2> QED BY <2>1, <2>3, <2>4 DEF SkipInv, HandledBelow
<1>9. CASE UNCHANGED <<confirmed, stage, offset, file, cursor, handled>>
  BY <1>9 DEF SkipInv, BatchInv, OffsetsCommitted, HandledBelow
<1>10. CASE Arrive \/ ChangeLeaders \/ Settle \/ UNCHANGED vars
  BY <1>9, <1>10 DEF Arrive, ChangeLeaders, Settle, vars
<1> QED
  BY <1>2, <1>3, <1>4, <1>5, <1>6, <1>7, <1>8, <1>10 DEF Next, NodeStep, Proceed

LEMMA PollInvariant == Spec => [](TypeOK /\ SkipInv)
<1>1. Init => TypeOK /\ SkipInv
  <2> SUFFICES ASSUME Init PROVE TypeOK /\ SkipInv
    OBVIOUS
  <2>1. TypeOK
    BY PollAssumption DEF Init, TypeOK
  <2>2. HandledBelow(confirmed)
    BY DEF Init, HandledBelow
  <2>3. BatchInv
    BY DEF Init, BatchInv
  <2>4. OffsetsCommitted
    <3>1. confirmed = 1 /\ \A n \in Node : offset[n] = 0 /\ file[n] = 0
      BY DEF Init
    <3>2. 0 =< 1
      OBVIOUS
    <3> QED BY <3>1, <3>2, Zenon DEF OffsetsCommitted
  <2> QED BY <2>1, <2>2, <2>3, <2>4 DEF SkipInv
<1>2. TypeOK /\ SkipInv /\ [Next]_vars => (TypeOK /\ SkipInv)'
  BY NextTypeOK, SkipInvStep
<1> QED BY <1>1, <1>2, PTL DEF Spec

\* The types of the poll loop's state, for any nodes, updates and crashes.
THEOREM TypeCorrect == Spec => []TypeOK
BY PollInvariant, PTL

\* No command is lost: Telegram forgets an update only after some node has come to
\* the end of its handler, however many nodes lead at a time and whatever fails.
THEOREM NothingEverSkipped == Spec => []NothingSkipped
<1>1. TypeOK /\ SkipInv => NothingSkipped
  <2> SUFFICES ASSUME TypeOK, SkipInv, NEW u \in 1 .. confirmed - 1 PROVE u \in handled
    BY DEF NothingSkipped
  <2>1. u \in Nat /\ 1 =< u /\ u < confirmed
    BY DEF TypeOK
  <2> QED BY <2>1 DEF SkipInv, HandledBelow
<1> QED BY <1>1, PollInvariant, PTL

\* No offset a node remembers is ahead of what Telegram has confirmed, so that no
\* node confirms an update by asking for the next ones.
THEOREM OffsetsAlwaysCommitted == Spec => []OffsetsCommitted
<1>1. TypeOK /\ SkipInv => OffsetsCommitted
  BY DEF SkipInv
<1> QED BY <1>1, PollInvariant, PTL

-----------------------------------------------------------------------------
(* That no node repeats what it was acknowledged.                          *)

\* Updates whose commit a node was acknowledged are forgotten by Telegram, and lie
\* below where run has come to.
AckInv ==
  \A n \in Node : \A u \in acked[n] :
    /\ u < confirmed
    /\ stage[n] \in {"batch", "handling", "commit"} => u < cursor[n]
    /\ stage[n] = "store" => u =< cursor[n]

LEMMA AckInvStep == TypeOK /\ TypeOK' /\ SkipInv /\ AckInv /\ [Next]_vars => AckInv'
<1> SUFFICES ASSUME TypeOK, TypeOK', SkipInv, AckInv, [Next]_vars PROVE AckInv'
  OBVIOUS
<1> USE DEF telegram, history
<1>1. \A n \in Node : cursor[n] \in Nat /\ acked[n] \subseteq Nat
  BY DEF TypeOK
<1>2. confirmed \in Nat
  BY DEF TypeOK
\* Steps of a node that stops, waits, or goes on with the update it has come to.
<1>3. ASSUME NEW n \in Node, UNCHANGED <<cursor, acked>>, confirmed' >= confirmed, confirmed' \in Nat,
             \A k \in Node : k # n => stage'[k] = stage[k],
             \/ stage'[n] \in {"boot", "idle", "polling"} \/ stage'[n] = stage[n]
             \/ stage[n] \in {"batch", "handling"} /\ stage'[n] \in {"handling", "commit"}
      PROVE  AckInv'
  BY <1>1, <1>2, <1>3 DEF AckInv
<1>4. ASSUME NEW n \in Node,
             \/ Load(n) \/ Poll(n) \/ PollFails(n) \/ Leave(n) \/ Handle(n) \/ Handled(n)
             \/ Truncate(n) \/ StoreFails(n) \/ Crash(n)
      PROVE  AckInv'
  <2>1. /\ UNCHANGED <<cursor, acked>> /\ \A k \in Node : k # n => stage'[k] = stage[k]
        /\ \/ stage'[n] \in {"boot", "idle", "polling"} \/ stage'[n] = stage[n]
           \/ stage[n] \in {"batch", "handling"} /\ stage'[n] \in {"handling", "commit"}
    BY <1>4 DEF Load, Poll, PollFails, Leave, Handle, Handled, Truncate, StoreFails, Crash, TypeOK
  <2>2. confirmed' \in {confirmed, Larger(confirmed, offset[n])} /\ offset[n] \in Nat
    BY <1>4 DEF Load, Poll, PollFails, Leave, Handle, Handled, Truncate, StoreFails, Crash, TypeOK
  <2>3. confirmed' >= confirmed /\ confirmed' \in Nat
    BY <1>2, <2>2 DEF Larger
  <2> QED BY <1>3, <2>1, <2>3
<1>5. ASSUME NEW n \in Node, PollReturns(n) PROVE AckInv'
  <2>1. confirmed' = confirmed /\ Larger(confirmed, offset[n]) = confirmed
    BY <1>5 DEF PollReturns, SkipInv, OffsetsCommitted, Larger, TypeOK
  <2>2. /\ UNCHANGED acked
        /\ \A k \in Node : k # n => stage'[k] = stage[k] /\ cursor'[k] = cursor[k]
        /\ stage'[n] = "idle" \/ (stage'[n] = "batch" /\ cursor'[n] = confirmed)
    BY <1>5, <2>1 DEF PollReturns, TypeOK
  <2> QED BY <2>1, <2>2 DEF AckInv
<1>6. ASSUME NEW n \in Node, CommitOk(n) PROVE AckInv'
  <2>1. /\ stage[n] = "commit" /\ stage'[n] = "store" /\ UNCHANGED cursor
        /\ acked'[n] = acked[n] \cup {cursor[n]}
        /\ \A k \in Node : k # n => stage'[k] = stage[k] /\ acked'[k] = acked[k]
    BY <1>6 DEF CommitOk, TypeOK
  <2>2. confirmed' = Larger(confirmed, cursor[n] + 1)
    BY <1>6 DEF CommitOk
  <2>3. confirmed' >= confirmed /\ confirmed' > cursor[n]
    BY <1>1, <1>2, <2>2 DEF Larger
  <2>4. confirmed' \in Nat
    BY DEF TypeOK
  <2>5. \A u \in acked'[n] : u < confirmed' /\ u =< cursor'[n]
    BY <1>1, <1>2, <2>1, <2>3, <2>4 DEF AckInv
  <2>6. \A k \in Node : \A u \in acked[k] : u < confirmed'
    BY <1>1, <1>2, <2>3, <2>4 DEF AckInv
  <2> QED BY <2>1, <2>5, <2>6 DEF AckInv
<1>7. ASSUME NEW n \in Node, CommitFails(n) \/ StoreEnds(n) PROVE AckInv'
  <2>1. /\ stage[n] \in {"commit", "store"} /\ stage'[n] \in {"batch", "idle"} /\ UNCHANGED acked
        /\ cursor'[n] = cursor[n] + 1
        /\ \A k \in Node : k # n => stage'[k] = stage[k] /\ cursor'[k] = cursor[k]
    BY <1>7 DEF CommitFails, StoreEnds, Advance, TypeOK
  <2>2. confirmed' \in {confirmed, Larger(confirmed, cursor[n] + 1)}
    BY <1>7 DEF CommitFails, StoreEnds
  <2>3. confirmed' >= confirmed /\ confirmed' \in Nat
    BY <1>1, <1>2, <2>2 DEF Larger
  <2> QED BY <1>1, <1>2, <2>1, <2>3 DEF AckInv
<1>8. CASE Arrive \/ ChangeLeaders \/ Settle \/ UNCHANGED vars
  <2>1. UNCHANGED <<confirmed, stage, cursor, acked>>
    BY <1>8 DEF Arrive, ChangeLeaders, Settle, vars
  <2> QED BY <2>1 DEF AckInv
<1> QED BY <1>4, <1>5, <1>6, <1>7, <1>8 DEF Next, NodeStep, Proceed

\* No node begins an update again whose commit it was acknowledged: what it asks for
\* next begins where Telegram has forgotten, which is past every such update, through
\* torn files, crashes and batches that other nodes have in hand.
THEOREM AckedNeverRepeated == Spec => AckedNotRepeated
<1>1. Init => AckInv
  BY DEF Init, AckInv
<1>2. ASSUME TypeOK, AckInv, [Next]_vars, NEW n \in Node,
             stage[n] # "handling", stage'[n] = "handling"
      PROVE  cursor[n] \notin acked[n]
  <2>1. stage[n] = "batch"
    <3>1. CASE \E k \in Node : NodeStep(k)
      BY <1>2, <3>1 DEF NodeStep, Proceed, Load, Poll, PollReturns, PollFails, Leave, Handle, Handled,
                        CommitOk, CommitFails, Advance, Truncate, StoreEnds, StoreFails, Crash, TypeOK
    <3>2. CASE Arrive \/ ChangeLeaders \/ Settle \/ UNCHANGED vars
      BY <1>2, <3>2 DEF Arrive, ChangeLeaders, Settle, vars
    <3> QED BY <1>2, <3>1, <3>2 DEF Next
  <2> QED BY <1>2, <2>1 DEF AckInv, TypeOK
<1>3. TypeOK /\ AckInv /\ [Next]_vars =>
        [\A n \in Node : stage[n] # "handling" /\ stage'[n] = "handling"
                             => cursor[n] \notin acked[n]]_vars
  BY <1>2
<1> QED BY <1>1, <1>3, PollInvariant, AckInvStep, PTL DEF Spec, AckedNotRepeated

-----------------------------------------------------------------------------
(* LiveMonitor.                                                            *)

\* What the handler has in hand, and a task that draws before its limit.
HandInv ==
  /\ handler.at = "send" => handler.chat \in Chat
  /\ handler.at \in {"insert", "stopped"} => handler.monitor \in Monitor
  /\ \A m \in Monitor : task[m] \in {"draw", "sleep"} => elapsed[m] < Limit

LEMMA HandInvInit == MonitorInit => MonitorTypeOK /\ HandInv
BY MonitorAssumption DEF MonitorInit, MonitorTypeOK, HandInv, Free

LEMMA HandInvStep ==
  MonitorTypeOK /\ HandInv /\ [MonitorNext]_monitorVars => MonitorTypeOK' /\ HandInv'
<1> SUFFICES ASSUME MonitorTypeOK, HandInv, [MonitorNext]_monitorVars
             PROVE  MonitorTypeOK' /\ HandInv'
  OBVIOUS
<1> USE MonitorAssumption DEF MonitorTypeOK, HandInv, taskVars, Free
<1>1. ASSUME NEW c \in Chat, StartAsked(c) PROVE MonitorTypeOK' /\ HandInv'
  BY <1>1 DEF StartAsked
<1>2. ASSUME NEW m \in Monitor, Spawn(m) PROVE MonitorTypeOK' /\ HandInv'
  <2>1. MonitorTypeOK'
    BY <1>2 DEF Spawn
  <2>2. HandInv'
    BY <1>2 DEF Spawn
  <2> QED BY <2>1, <2>2
<1>3. ASSUME NEW m \in Monitor, StopAsked(m) PROVE MonitorTypeOK' /\ HandInv'
  <2>1. task' \in [Monitor -> {"none", "top", "draw", "sleep", "end", "remove", "done", "aborted"}]
    BY <1>3 DEF StopAsked
  <2>2. \A k \in Monitor : task'[k] \in {"draw", "sleep"} => task[k] = task'[k]
    BY <1>3 DEF StopAsked
  <2>3. /\ entries' \subseteq entries
        /\ handler' = [at |-> "stopped", chat |-> chatOf[m], monitor |-> m]
        /\ UNCHANGED <<chatOf, runtimeOf, elapsed, shown, leads, restarts>>
    BY <1>3 DEF StopAsked
  <2> QED BY <2>1, <2>2, <2>3
<1>4. CASE SendFails \/ Insert \/ StopShown
  <2>1. CASE SendFails
    BY <2>1 DEF SendFails
  <2>2. CASE Insert
    BY <2>2 DEF Insert
  <2>3. CASE StopShown
    BY <2>3 DEF StopShown
  <2> QED BY <1>4, <2>1, <2>2, <2>3
<1>5. ASSUME NEW m \in Monitor, TaskStep(m) PROVE MonitorTypeOK' /\ HandInv'
  <2>1. CASE Top(m)
    BY <2>1 DEF Top, Move
  <2>2. CASE Draw(m)
    BY <2>2 DEF Draw, Move
  <2>3. CASE Sleep(m)
    BY <2>3 DEF Sleep, Move
  <2>4. CASE EndShown(m)
    BY <2>4 DEF EndShown, Move
  <2>5. CASE Remove(m)
    BY <2>5 DEF Remove, Move
  <2> QED BY <1>5, <2>1, <2>2, <2>3, <2>4, <2>5 DEF TaskStep
<1>6. CASE RunRestarts \/ ChangeLeader \/ UNCHANGED monitorVars
  <2>1. UNCHANGED <<handler, taskVars, shown>> /\ entries' \subseteq entries
    BY <1>6 DEF RunRestarts, ChangeLeader, monitorVars
  <2>2. leads' \in BOOLEAN
    BY <1>6 DEF RunRestarts, ChangeLeader, monitorVars
  <2>3. restarts' \in {restarts, restarts + 1}
    BY <1>6 DEF RunRestarts, ChangeLeader, monitorVars
  <2>4. restarts' \in Nat
    BY <2>3
  <2> QED BY <2>1, <2>2, <2>4
<1> QED BY <1>1, <1>2, <1>3, <1>4, <1>5, <1>6 DEF MonitorNext, HandlerStep

\* Type correctness of the live monitors, which says that none outlives its limit.
THEOREM MonitorsTypeCorrect == MonitorSpec => []MonitorTypeOK
BY HandInvInit, HandInvStep, PTL DEF MonitorSpec

-----------------------------------------------------------------------------
(* One monitor for each chat of a run.                                     *)

\* A task of the current run that lives is in the map, or about to be.
ReachInv ==
  \A m \in Monitor :
    /\ runtimeOf[m] =< restarts
    /\ Live(m) /\ Current(m) => \/ m \in entries
                                \/ handler.at = "insert" /\ handler.monitor = m

\* While the first message of a monitor is sent its chat has no other.
SendInv ==
  handler.at = "send" =>
    \A m \in Monitor : Live(m) /\ Current(m) => chatOf[m] # handler.chat

\* A message that says stopped, or is about to, has no task that could draw over it.
StopInv ==
  /\ \A m \in Monitor : task[m] = "none" => shown[m] = "none"
  /\ \A m \in Monitor : Current(m) /\ shown[m] = "stopped" => task[m] \in {"done", "aborted"}
  /\ handler.at = "stopped" =>
       /\ task[handler.monitor] # "none"
       /\ Current(handler.monitor) => task[handler.monitor] \in {"done", "aborted"}

MonitorInv == ReachInv /\ SendInv /\ OneMonitorPerChat /\ StopInv

LEMMA MonitorInvInit == MonitorInit => MonitorInv
BY DEF MonitorInit, MonitorInv, ReachInv, SendInv, OneMonitorPerChat, StopInv, Live, Free

\* A step that leaves the map and the handler alone, and brings no task to life, keeps
\* the invariant; what it shows it shows of tasks that live.
LEMMA NoNewTask ==
  ASSUME MonitorTypeOK, HandInv, MonitorInv,
         UNCHANGED <<handler, chatOf, runtimeOf, restarts>>,
         \A m \in Monitor : task'[m] = task[m] \/ (Live(m) /\ task'[m] # "none"),
         \A m \in Monitor : m \in entries => m \in entries' \/ ~Live(m)',
         \A m \in Monitor : shown'[m] = shown[m] \/ (Live(m) /\ shown'[m] # "stopped")
  PROVE  MonitorInv'
<1> USE DEF MonitorTypeOK, MonitorInv, Live, Current
<1>1. ReachInv'
  BY DEF ReachInv
<1>2. SendInv'
  BY DEF SendInv
<1>3. OneMonitorPerChat'
  BY DEF OneMonitorPerChat
<1>4. StopInv'
  BY DEF StopInv, HandInv
<1> QED BY <1>1, <1>2, <1>3, <1>4

LEMMA MonitorInvStep ==
  MonitorTypeOK /\ HandInv /\ MonitorInv /\ [MonitorNext]_monitorVars => MonitorInv'
<1> SUFFICES ASSUME MonitorTypeOK, HandInv, MonitorInv, [MonitorNext]_monitorVars
             PROVE  MonitorInv'
  OBVIOUS
<1> USE DEF taskVars, Free
<1>1. ASSUME NEW c \in Chat, StartAsked(c) PROVE MonitorInv'
  <2>1. /\ handler = Free /\ UNCHANGED <<taskVars, shown, restarts>>
        /\ entries' = {m \in entries : Live(m)}
    BY <1>1 DEF StartAsked
  <2>2. \A m \in Monitor : Live(m) /\ Current(m) => m \in entries'
    BY <2>1 DEF MonitorInv, ReachInv
  <2>3. ReachInv'
    BY <2>1, <2>2 DEF MonitorInv, ReachInv, Live, Current
  <2>4. SendInv'
    <3>1. SUFFICES ASSUME handler'.at = "send", NEW m \in Monitor, Live(m), Current(m)
                   PROVE  chatOf[m] # handler'.chat
      BY <2>1 DEF SendInv, Live, Current
    <3>2. handler'.chat = c /\ ~ \E k \in entries' : chatOf[k] = c
      BY <1>1, <3>1 DEF StartAsked
    <3> QED BY <2>2, <3>1, <3>2
  <2>5. OneMonitorPerChat' /\ StopInv'
    <3>1. handler'.at # "stopped"
      BY <1>1 DEF StartAsked
    <3> QED BY <2>1, <3>1 DEF MonitorInv, OneMonitorPerChat, StopInv, Live, Current
  <2> QED BY <2>3, <2>4, <2>5 DEF MonitorInv
<1>2. ASSUME NEW m \in Monitor, Spawn(m) PROVE MonitorInv'
  <2>1. /\ handler.at = "send" /\ task[m] = "none"
        /\ handler'.at = "insert" /\ handler'.monitor = m
        /\ UNCHANGED <<entries, restarts>>
        /\ task'[m] = "top" /\ chatOf'[m] = handler.chat /\ runtimeOf'[m] = restarts
        /\ shown'[m] = "starting"
        /\ \A k \in Monitor : k # m => /\ task'[k] = task[k] /\ chatOf'[k] = chatOf[k]
                                       /\ runtimeOf'[k] = runtimeOf[k] /\ shown'[k] = shown[k]
    BY <1>2 DEF Spawn, MonitorTypeOK
  <2>2. restarts \in Nat
    BY DEF MonitorTypeOK
  <2>3. ReachInv'
    BY <2>1, <2>2 DEF MonitorInv, ReachInv, Live, Current
  <2>4. OneMonitorPerChat'
    BY <2>1 DEF MonitorInv, SendInv, OneMonitorPerChat, Live, Current
  <2>5. SendInv' /\ StopInv'
    BY <2>1 DEF MonitorInv, SendInv, StopInv, Current
  <2> QED BY <2>3, <2>4, <2>5 DEF MonitorInv
<1>3. ASSUME NEW m \in Monitor, StopAsked(m) PROVE MonitorInv'
  <2>1. /\ handler = Free /\ shown[m] # "none"
        /\ handler'.at = "stopped" /\ handler'.monitor = m
        /\ entries' = entries \ {m}
        /\ UNCHANGED <<chatOf, runtimeOf, shown, restarts>>
        /\ \A k \in Monitor : k # m => task'[k] = task[k]
        /\ task'[m] = IF m \in entries /\ Live(m) THEN "aborted" ELSE task[m]
    BY <1>3 DEF StopAsked, MonitorTypeOK
  <2>2. Current(m) => task'[m] \in {"done", "aborted"}
    BY <2>1 DEF MonitorInv, ReachInv, StopInv, Live
  <2>3. ReachInv'
    BY <2>1, <2>2 DEF MonitorInv, ReachInv, Live, Current
  <2>4. SendInv' /\ OneMonitorPerChat'
    BY <2>1 DEF MonitorInv, SendInv, OneMonitorPerChat, Live
  <2>5. StopInv'
    BY <2>1, <2>2 DEF MonitorInv, StopInv, Current, Live
  <2> QED BY <2>3, <2>4, <2>5 DEF MonitorInv
<1>4. CASE SendFails
  BY <1>4 DEF SendFails, MonitorInv, ReachInv, SendInv, OneMonitorPerChat, StopInv, Live, Current
<1>5. CASE Insert
  BY <1>5 DEF Insert, MonitorInv, ReachInv, SendInv, OneMonitorPerChat, StopInv, Live, Current
<1>6. CASE StopShown
  <2>1. /\ handler.at = "stopped" /\ handler' = Free
        /\ UNCHANGED <<entries, taskVars, restarts>>
        /\ \A m \in Monitor : shown'[m] # shown[m] => m = handler.monitor /\ shown'[m] = "stopped"
    BY <1>6 DEF StopShown, MonitorTypeOK
  <2>2. ReachInv' /\ SendInv' /\ OneMonitorPerChat'
    BY <2>1 DEF MonitorInv, ReachInv, SendInv, OneMonitorPerChat, Live, Current
  <2>3. StopInv'
    BY <2>1 DEF MonitorInv, StopInv, Current
  <2> QED BY <2>2, <2>3 DEF MonitorInv
<1>7. ASSUME NEW m \in Monitor, TaskStep(m) PROVE MonitorInv'
  <2>1. /\ UNCHANGED <<handler, chatOf, runtimeOf, restarts>>
        /\ \A k \in Monitor : task'[k] = task[k] \/ (Live(k) /\ task'[k] # "none")
        /\ \A k \in Monitor : shown'[k] = shown[k] \/ (Live(k) /\ shown'[k] # "stopped")
    BY <1>7 DEF TaskStep, Top, Draw, Sleep, EndShown, Remove, Move, Live, MonitorTypeOK
  <2>2. \A k \in Monitor : k \in entries => k \in entries' \/ ~Live(k)'
    BY <1>7 DEF TaskStep, Top, Draw, Sleep, EndShown, Remove, Move, Live, MonitorTypeOK
  <2> QED BY <2>1, <2>2, NoNewTask
<1>8. CASE RunRestarts
  <2>1. /\ handler = Free /\ restarts' = restarts + 1 /\ UNCHANGED <<handler, taskVars, shown>>
        /\ restarts \in Nat /\ \A m \in Monitor : runtimeOf[m] \in Nat /\ runtimeOf[m] =< restarts
    BY <1>8 DEF RunRestarts, MonitorTypeOK, MonitorInv, ReachInv
  <2>2. \A m \in Monitor : runtimeOf'[m] =< restarts' /\ ~Current(m)'
    BY <2>1 DEF Current
  <2> QED BY <2>1, <2>2 DEF MonitorInv, ReachInv, SendInv, OneMonitorPerChat, StopInv, Live
<1>9. CASE ChangeLeader \/ UNCHANGED monitorVars
  <2>1. UNCHANGED <<entries, handler, taskVars, shown, restarts>>
    BY <1>9 DEF ChangeLeader, monitorVars
  <2> QED BY <2>1 DEF MonitorInv, ReachInv, SendInv, OneMonitorPerChat, StopInv, Live, Current
<1> QED
  BY <1>1, <1>2, <1>3, <1>4, <1>5, <1>6, <1>7, <1>8, <1>9 DEF MonitorNext, HandlerStep

\* Two tasks of one run never redraw messages of one chat: the map is asked, the message
\* sent and the entry inserted by one handler, and no task lives outside the map for longer.
THEOREM OneMonitorAlways == MonitorSpec => []OneMonitorPerChat
<1>1. MonitorInv => OneMonitorPerChat
  BY DEF MonitorInv
<1> QED BY <1>1, HandInvInit, HandInvStep, MonitorInvInit, MonitorInvStep, PTL DEF MonitorSpec

\* A message of the current run that says stopped is not drawn over: Stop aborts the
\* task wherever it is, or finds that it has done its last edit.
THEOREM StoppedAlwaysStays == MonitorSpec => StoppedStays
<1>1. ASSUME MonitorTypeOK, MonitorInv, [MonitorNext]_monitorVars, NEW m \in Monitor,
             Current(m), shown[m] = "stopped"
      PROVE  shown'[m] = "stopped"
  <2>1. task[m] \in {"done", "aborted"}
    BY <1>1 DEF MonitorInv, StopInv
  <2>2. CASE \E k \in Monitor : TaskStep(k)
    BY <1>1, <2>1, <2>2 DEF TaskStep, Top, Draw, Sleep, EndShown, Remove, Move, MonitorTypeOK
  <2>3. CASE \E k \in Monitor : Spawn(k) \/ StopAsked(k)
    BY <1>1, <2>1, <2>3 DEF Spawn, StopAsked, MonitorTypeOK
  <2>4. CASE StopShown
    BY <1>1, <2>4 DEF StopShown, MonitorTypeOK
  <2>5. CASE SendFails \/ Insert \/ RunRestarts \/ ChangeLeader \/ UNCHANGED monitorVars
             \/ \E c \in Chat : StartAsked(c)
    BY <1>1, <2>5 DEF SendFails, Insert, RunRestarts, ChangeLeader, monitorVars, StartAsked
  <2> QED BY <1>1, <2>2, <2>3, <2>4, <2>5 DEF MonitorNext, HandlerStep
<1>2. MonitorTypeOK /\ MonitorInv /\ [MonitorNext]_monitorVars =>
        [\A m \in Monitor : Current(m) /\ shown[m] = "stopped" => shown'[m] = "stopped"]_monitorVars
  BY <1>1
<1> QED
  BY <1>2, HandInvInit, HandInvStep, MonitorInvInit, MonitorInvStep, PTL DEF MonitorSpec, StoppedStays
=============================================================================
