---------------------------- MODULE AlertProofs ----------------------------
(***************************************************************************)
(* Proofs about AlertQueue, for any number of loops, chats and alerts, and *)
(* about Throttles: what is queued there, and who is answered, no more     *)
(* than once in a window.                                                  *)
(***************************************************************************)
EXTENDS AlertQueue, Throttles, SequenceTheorems, FiniteSetTheorems, TLAPS

\* What putting one sequence after another keeps.
LEMMA ToSetConcat ==
  ASSUME NEW s \in Seq(Alert), NEW t \in Seq(Alert)
  PROVE  ToSet(s \o t) = ToSet(s) \cup ToSet(t)
<1>1. ASSUME NEW x \in ToSet(s \o t) PROVE x \in ToSet(s) \cup ToSet(t)
  <2>1. PICK i \in DOMAIN (s \o t) : x = (s \o t)[i]
    BY <1>1 DEF ToSet
  <2>2. CASE i =< Len(s)
    BY <2>1, <2>2 DEF ToSet
  <2>3. CASE i > Len(s)
    <3>1. i - Len(s) \in DOMAIN t /\ x = t[i - Len(s)]
      BY <2>1, <2>3
    <3> QED BY <3>1 DEF ToSet
  <2> QED BY <2>1, <2>2, <2>3
<1>2. ASSUME NEW x \in ToSet(s) PROVE x \in ToSet(s \o t)
  <2>1. PICK i \in DOMAIN s : x = s[i]
    BY <1>2 DEF ToSet
  <2>2. i \in DOMAIN (s \o t) /\ (s \o t)[i] = x
    BY <2>1
  <2> QED BY <2>2 DEF ToSet
<1>3. ASSUME NEW x \in ToSet(t) PROVE x \in ToSet(s \o t)
  <2>1. PICK i \in DOMAIN t : x = t[i]
    BY <1>3 DEF ToSet
  <2>2. Len(s) + i \in DOMAIN (s \o t) /\ (s \o t)[Len(s) + i] = x
    BY <2>1
  <2> QED BY <2>2 DEF ToSet
<1> QED BY <1>1, <1>2, <1>3

LEMMA ToSetAppend ==
  ASSUME NEW s \in Seq(Alert), NEW e \in Alert
  PROVE  ToSet(Append(s, e)) = ToSet(s) \cup {e}
<1>1. Append(s, e) = s \o <<e>> /\ <<e>> \in Seq(Alert)
  OBVIOUS
<1>2. ToSet(<<e>>) = {e}
  BY DEF ToSet
<1>3. ToSet(s \o <<e>>) = ToSet(s) \cup ToSet(<<e>>)
  BY <1>1, ToSetConcat
<1> QED BY <1>1, <1>2, <1>3

LEMMA ToSetTail ==
  ASSUME NEW s \in Seq(Alert), s # << >>
  PROVE  ToSet(s) = {Head(s)} \cup ToSet(Tail(s))
<1>1. <<Head(s)>> \in Seq(Alert) /\ Tail(s) \in Seq(Alert) /\ s = <<Head(s)>> \o Tail(s)
  OBVIOUS
<1>2. ToSet(<<Head(s)>>) = {Head(s)}
  BY DEF ToSet
<1>3. ToSet(<<Head(s)>> \o Tail(s)) = ToSet(<<Head(s)>>) \cup ToSet(Tail(s))
  BY <1>1, ToSetConcat
<1> QED BY <1>1, <1>2, <1>3

LEMMA LongerThanOne ==
  ASSUME NEW s \in Seq(Alert), s # << >>
  PROVE  Len(s) > 1 <=> Tail(s) # << >>
<1>1. Len(s) \in Nat /\ Len(s) # 0
  OBVIOUS
<1>2. Tail(s) \in Seq(Alert) /\ Len(Tail(s)) = Len(s) - 1
  BY <1>1
<1>3. Len(<< >>) = 0 /\ << >> \in Seq(Alert)
  BY EmptySeq
<1>4. Len(Tail(s)) # 0 => Tail(s) # << >>
  BY <1>3
<1>5. Tail(s) # << >> => Len(Tail(s)) \in Nat \ {0}
  BY <1>2, EmptySeq
<1> QED BY <1>1, <1>2, <1>4, <1>5

LEMMA ToSetEmpty == ToSet(<< >>) = {}
BY DEF ToSet

LEMMA ToSetType ==
  ASSUME NEW s \in Seq(Alert)
  PROVE  ToSet(s) \subseteq Alert
BY DEF ToSet

-----------------------------------------------------------------------------
(* Types.                                                                  *)

LEMMA InitTypeOK == Init => TypeOK
<1> SUFFICES ASSUME Init PROVE TypeOK
  OBVIOUS
<1>1. << >> \in Seq(Alert) /\ queued \in 0 .. MaxAlert
  BY QueueAssumption DEF Init
<1>2. \A l \in Loop : stage[l] = "none" /\ hand[l] = << >>
  BY DEF Init
<1> QED BY <1>1, <1>2 DEF Init, TypeOK

LEMMA NextTypeOK == TypeOK /\ [Next]_vars => TypeOK'
<1> SUFFICES ASSUME TypeOK, [Next]_vars PROVE TypeOK'
  OBVIOUS
<1> USE QueueAssumption DEF TypeOK
<1>1. ASSUME NEW k \in 1 .. MaxAlert, Enqueue(k) PROVE TypeOK'
  <2>1. [i \in 1 .. k |-> queued + i] \in Seq(Alert)
    BY <1>1 DEF Enqueue, Alert
  <2>2. queue' \in Seq(Alert) /\ queued' \in 0 .. MaxAlert
    BY <1>1, <2>1 DEF Enqueue
  <2> QED BY <1>1, <2>2 DEF Enqueue, loopVars, chatVars
<1>2. ASSUME ChangeLeader PROVE TypeOK'
  BY <1>2 DEF ChangeLeader, loopVars, chatVars
<1>3. ASSUME NEW l \in Loop, StartLoop(l) \/ Wake(l) PROVE TypeOK'
  BY <1>3 DEF StartLoop, Wake, chatVars
<1>4. ASSUME NEW l \in Loop, Drain(l) PROVE TypeOK'
  BY <1>4 DEF Drain, chatVars
<1>5. ASSUME NEW l \in Loop, NEW c \in Chat, Sent(l, c) PROVE TypeOK'
  <2>1. Head(hand[l]) \in Alert
    BY <1>5 DEF Sent
  <2>2. Append(heard[c], Head(hand[l])) \in Seq(Alert) /\ <<c, Head(hand[l])>> \in Chat \X Alert
    BY <2>1
  <2>3. heard' \in [Chat -> Seq(Alert)] /\ repeated' \subseteq Chat \X Alert
    BY <1>5, <2>2 DEF Sent
  <2> QED BY <1>5, <2>3 DEF Sent
<1>6. ASSUME NEW l \in Loop, NEW c \in Chat, Refused(l, c) PROVE TypeOK'
  <2>1. Head(hand[l]) \in Alert
    BY <1>6 DEF Refused
  <2> QED BY <1>6, <2>1 DEF Refused
<1>7. ASSUME NEW l \in Loop, NextAlert(l) PROVE TypeOK'
  <2>1. hand[l] \in Seq(Alert) /\ hand[l] # << >>
    BY <1>7 DEF NextAlert
  <2>2. Tail(hand[l]) \in Seq(Alert) /\ Head(hand[l]) \in Alert
    BY <2>1
  <2>3. Len(hand[l]) > 1 <=> Tail(hand[l]) # << >>
    BY <2>1, LongerThanOne
  <2>4. hand' \in [Loop -> Seq(Alert)] /\ retry' \in [Loop -> Seq(Alert)]
    BY <1>7, <2>2 DEF NextAlert
  <2>5. stage' \in [Loop -> {"none", "sleep", "drain", "send", "requeue"}]
    BY <1>7 DEF NextAlert
  <2>6. \A k \in Loop : stage'[k] = "send" <=> hand'[k] # << >>
    BY <1>7, <2>3 DEF NextAlert
  <2> QED BY <1>7, <2>4, <2>5, <2>6 DEF NextAlert, chatVars
<1>8. ASSUME NEW l \in Loop, Requeue(l) PROVE TypeOK'
  BY <1>8 DEF Requeue, chatVars
<1>9. CASE UNCHANGED vars
  BY <1>9 DEF vars, loopVars, chatVars
<1> QED BY <1>1, <1>2, <1>3, <1>4, <1>5, <1>6, <1>7, <1>8, <1>9 DEF Next, Deliver

\* Whatever loops, chats and failures there are, a loop is sending exactly when it
\* holds alerts, and every alert anywhere is one that was raised.
THEOREM TypeCorrect == Spec => []TypeOK
<1>1. Init => TypeOK
  BY InitTypeOK
<1>2. TypeOK /\ [Next]_vars => TypeOK'
  BY NextTypeOK
<1> QED BY <1>1, <1>2, PTL DEF Spec

-----------------------------------------------------------------------------
(* Nothing is lost.  What a loop is sending has reached every chat that it *)
(* has tried, or it knows that one of them failed.                         *)

Reached(a) == \A c \in Chat : a \in ToSet(heard[c])

HeadInv ==
  \A l \in Loop : stage[l] = "send" =>
    failed[l] \/ \A c \in Chat \ chats[l] : Head(hand[l]) \in ToSet(heard[c])

LossInv == NothingLost /\ HeadInv

LEMMA LossInvInit == Init => LossInv
BY DEF Init, LossInv, NothingLost, HeadInv

LEMMA HeardGrows ==
  ASSUME TypeOK, NEW l \in Loop, NEW c \in Chat, Sent(l, c), NEW d \in Chat
  PROVE  ToSet(heard'[d]) = IF d = c THEN ToSet(heard[d]) \cup {Head(hand[l])}
                                     ELSE ToSet(heard[d])
<1>1. Head(hand[l]) \in Alert /\ heard[c] \in Seq(Alert)
  BY DEF Sent, TypeOK
<1>2. ToSet(Append(heard[c], Head(hand[l]))) = ToSet(heard[c]) \cup {Head(hand[l])}
  BY <1>1, ToSetAppend
<1>3. CASE Head(hand[l]) \in ToSet(heard[c])
  <2>1. heard' = heard
    BY <1>3 DEF Sent
  <2> QED BY <1>3, <2>1
<1>4. CASE Head(hand[l]) \notin ToSet(heard[c])
  <2>1. heard' = [heard EXCEPT ![c] = Append(@, Head(hand[l]))]
    BY <1>4 DEF Sent
  <2>2. heard'[d] = IF d = c THEN Append(heard[c], Head(hand[l])) ELSE heard[d]
    BY <2>1 DEF TypeOK
  <2> QED BY <1>2, <2>2
<1> QED BY <1>3, <1>4

LEMMA LossInvStep == TypeOK /\ LossInv /\ [Next]_vars => LossInv'
<1> SUFFICES ASSUME TypeOK, LossInv, [Next]_vars PROVE LossInv'
  OBVIOUS
<1>1. ASSUME NEW k \in 1 .. MaxAlert, Enqueue(k) PROVE LossInv'
  <2> DEFINE new == [i \in 1 .. k |-> queued + i]
  <2>1. new \in Seq(Alert) /\ queued \in Nat /\ queued' = queued + k
    <3>1. queued \in Nat /\ k \in Nat /\ MaxAlert \in Nat /\ queued + k =< MaxAlert
      BY <1>1, QueueAssumption DEF Enqueue, TypeOK
    <3>2. \A i \in 1 .. k : new[i] \in Alert
      BY <3>1 DEF Alert
    <3>3. new \in [1 .. k -> Alert]
      BY <3>2
    <3> QED BY <1>1, <3>1, <3>3 DEF Enqueue
  <2>2. ToSet(queue') = ToSet(queue) \cup ToSet(new)
    BY <1>1, <2>1, ToSetConcat DEF Enqueue, TypeOK
  <2>3. ASSUME NEW a \in 1 .. queued', a \notin 1 .. queued PROVE a \in ToSet(new)
    <3>1. a - queued \in DOMAIN new /\ a = new[a - queued]
      BY <2>1, <2>3
    <3> QED BY <3>1 DEF ToSet
  <2>4. UNCHANGED <<stage, hand, retry, heard, chats, failed>>
    BY <1>1 DEF Enqueue, loopVars, chatVars
  <2>5. \A a \in 1 .. queued : Held(a) => Held(a)'
    BY <2>2, <2>4 DEF Held
  <2>6. \A a \in 1 .. queued' : a \notin 1 .. queued => Held(a)'
    BY <2>2, <2>3 DEF Held
  <2>7. NothingLost'
    BY <2>4, <2>5, <2>6 DEF LossInv, NothingLost
  <2>8. HeadInv'
    BY <2>4 DEF LossInv, HeadInv
  <2> QED BY <2>7, <2>8 DEF LossInv
<1>2. ASSUME ChangeLeader PROVE LossInv'
  BY <1>2 DEF ChangeLeader, loopVars, chatVars, LossInv, NothingLost, Held, HeadInv
<1>3. ASSUME NEW l \in Loop, StartLoop(l) \/ Wake(l) PROVE LossInv'
  BY <1>3 DEF StartLoop, Wake, chatVars, LossInv, NothingLost, Held, HeadInv, TypeOK
<1>4. ASSUME NEW l \in Loop, Drain(l) PROVE LossInv'
  <2>1. hand[l] = << >> /\ hand'[l] = queue /\ chats'[l] = Chat
    BY <1>4 DEF Drain, TypeOK
  <2>2. \A k \in Loop \ {l} : hand'[k] = hand[k] /\ stage'[k] = stage[k] /\ chats'[k] = chats[k]
    BY <1>4 DEF Drain, TypeOK
  <2>3. UNCHANGED <<queued, retry, failed, heard>>
    BY <1>4 DEF Drain, chatVars
  <2>4. ToSet(hand[l]) = {}
    BY <2>1, ToSetEmpty
  <2>5. ASSUME NEW a, Held(a) PROVE Held(a)'
    <3>1. CASE a \in ToSet(queue)
      BY <2>1, <3>1 DEF Held
    <3>2. CASE \E k \in Loop : a \in ToSet(hand[k]) \cup ToSet(retry[k])
      <4>1. PICK k \in Loop : a \in ToSet(hand[k]) \cup ToSet(retry[k])
        BY <3>2
      <4>2. a \in ToSet(hand'[k]) \cup ToSet(retry'[k])
        BY <2>2, <2>3, <2>4, <4>1
      <4> QED BY <4>2 DEF Held
    <3> QED BY <2>5, <3>1, <3>2 DEF Held
  <2>6. NothingLost'
    BY <2>3, <2>5 DEF LossInv, NothingLost
  <2>7. HeadInv'
    BY <2>1, <2>2, <2>3 DEF LossInv, HeadInv
  <2> QED BY <2>6, <2>7 DEF LossInv
<1>5. ASSUME NEW l \in Loop, NEW c \in Chat, Sent(l, c) PROVE LossInv'
  <2>1. UNCHANGED <<queued, queue, stage, hand, failed, retry>>
    BY <1>5 DEF Sent
  <2>2. \A d \in Chat : ToSet(heard[d]) \subseteq ToSet(heard'[d])
    BY <1>5, HeardGrows
  <2>3. Head(hand[l]) \in ToSet(heard'[c])
    BY <1>5, HeardGrows
  <2>4. chats' = [chats EXCEPT ![l] = @ \ {c}]
    BY <1>5 DEF Sent
  <2>5. NothingLost'
    BY <2>1, <2>2 DEF LossInv, NothingLost, Held
  <2>6. HeadInv'
    BY <2>1, <2>2, <2>3, <2>4 DEF LossInv, HeadInv, TypeOK
  <2> QED BY <2>5, <2>6 DEF LossInv
<1>6. ASSUME NEW l \in Loop, NEW c \in Chat, Refused(l, c) PROVE LossInv'
  BY <1>6 DEF Refused, LossInv, NothingLost, Held, HeadInv, TypeOK
<1>7. ASSUME NEW l \in Loop, NextAlert(l) PROVE LossInv'
  <2> DEFINE a0 == Head(hand[l])
  <2>1. hand[l] \in Seq(Alert) /\ hand[l] # << >> /\ retry[l] \in Seq(Alert) /\ a0 \in Alert
    BY <1>7 DEF NextAlert, TypeOK
  <2>2. hand'[l] = Tail(hand[l]) /\ chats'[l] = Chat
    BY <1>7 DEF NextAlert, TypeOK
  <2>3. retry'[l] = IF failed[l] THEN Append(retry[l], a0) ELSE retry[l]
    BY <1>7 DEF NextAlert, TypeOK
  <2>4. \A k \in Loop \ {l} : /\ hand'[k] = hand[k] /\ stage'[k] = stage[k]
                              /\ chats'[k] = chats[k] /\ retry'[k] = retry[k]
                              /\ failed'[k] = failed[k]
    BY <1>7 DEF NextAlert, TypeOK
  <2>5. UNCHANGED <<queued, queue, heard>>
    BY <1>7 DEF NextAlert, chatVars
  <2>6. ToSet(hand[l]) = {a0} \cup ToSet(hand'[l])
    BY <2>1, <2>2, ToSetTail
  <2>7. ToSet(Append(retry[l], a0)) = ToSet(retry[l]) \cup {a0}
    BY <2>1, ToSetAppend
  <2>8. ToSet(retry'[l]) = ToSet(retry[l]) \cup (IF failed[l] THEN {a0} ELSE {})
    BY <2>3, <2>7
  <2>9. failed[l] \/ Reached(a0)
    <3>1. stage[l] = "send" /\ chats[l] = {}
      BY <1>7 DEF NextAlert
    <3> QED BY <3>1 DEF LossInv, HeadInv, Reached
  <2>10. ASSUME NEW a, Held(a), a # a0 PROVE Held(a)'
    <3>1. CASE a \in ToSet(queue)
      BY <2>5, <3>1 DEF Held
    <3>2. CASE \E k \in Loop : a \in ToSet(hand[k]) \cup ToSet(retry[k])
      <4>1. PICK k \in Loop : a \in ToSet(hand[k]) \cup ToSet(retry[k])
        BY <3>2
      <4>2. a \in ToSet(hand'[k]) \cup ToSet(retry'[k])
        BY <2>4, <2>6, <2>8, <2>10, <4>1
      <4> QED BY <4>2 DEF Held
    <3> QED BY <2>10, <3>1, <3>2 DEF Held
  <2>11. ASSUME NEW a, a = a0 PROVE Held(a)' \/ Reached(a)
    <3>1. CASE failed[l]
      BY <2>8, <2>11, <3>1 DEF Held
    <3>2. CASE ~failed[l]
      BY <2>9, <2>11, <3>2
    <3> QED BY <3>1, <3>2
  <2>12. NothingLost'
    <3> SUFFICES ASSUME NEW a \in 1 .. queued
                 PROVE  Held(a)' \/ \A c \in Chat : a \in ToSet(heard[c])
      BY <2>5 DEF NothingLost
    <3>1. CASE a = a0
      BY <2>11, <3>1 DEF Reached
    <3>2. CASE a # a0
      BY <2>10, <3>2 DEF LossInv, NothingLost
    <3> QED BY <3>1, <3>2
  <2>13. HeadInv'
    BY <2>2, <2>4, <2>5 DEF LossInv, HeadInv
  <2> QED BY <2>12, <2>13 DEF LossInv
<1>8. ASSUME NEW l \in Loop, Requeue(l) PROVE LossInv'
  <2>1. retry[l] \in Seq(Alert) /\ queue \in Seq(Alert)
    BY DEF TypeOK
  <2>2. ToSet(queue') = ToSet(retry[l]) \cup ToSet(queue)
    BY <1>8, <2>1, ToSetConcat DEF Requeue
  <2>3. \A k \in Loop \ {l} : retry'[k] = retry[k] /\ stage'[k] = stage[k]
    BY <1>8 DEF Requeue, TypeOK
  <2>4. UNCHANGED <<queued, hand, chats, failed, heard>> /\ stage'[l] = "sleep"
    BY <1>8 DEF Requeue, chatVars, TypeOK
  <2>5. \A a : Held(a) => Held(a)'
    BY <2>2, <2>3, <2>4 DEF Held
  <2>6. NothingLost'
    BY <2>4, <2>5 DEF LossInv, NothingLost
  <2>7. HeadInv'
    BY <2>3, <2>4 DEF LossInv, HeadInv
  <2> QED BY <2>6, <2>7 DEF LossInv
<1>9. CASE UNCHANGED vars
  BY <1>9 DEF vars, loopVars, chatVars, LossInv, NothingLost, Held, HeadInv
<1> QED BY <1>1, <1>2, <1>3, <1>4, <1>5, <1>6, <1>7, <1>8, <1>9 DEF Next, Deliver

\* However many loops drain and put back, and whichever chats refuse, an alert
\* stays on the node until every chat has received it.
THEOREM NoAlertLost == Spec => []NothingLost
<1>1. Init => LossInv
  BY LossInvInit
<1>2. TypeOK /\ LossInv /\ [Next]_vars => LossInv'
  BY LossInvStep
<1>3. LossInv => NothingLost
  BY DEF LossInv
<1> QED BY <1>1, <1>2, <1>3, TypeCorrect, PTL DEF Spec

-----------------------------------------------------------------------------
(* Why a chat gets a copy twice.  Of an alert that nobody refused there is *)
(* one copy on the node, and no chat that is still to get it has it.       *)

Single(s, R) == \A i, j \in 1 .. Len(s) : i # j /\ s[i] = s[j] => s[i] \in R

Raised ==
  /\ ToSet(queue) \subseteq 1 .. queued
  /\ \A l \in Loop : ToSet(hand[l]) \cup ToSet(retry[l]) \subseteq 1 .. queued
  /\ \A c \in Chat : ToSet(heard[c]) \subseteq 1 .. queued

OneCopy ==
  /\ Single(queue, refused)
  /\ \A l \in Loop : Single(hand[l], refused) /\ ToSet(queue) \cap ToSet(hand[l]) \subseteq refused
  /\ \A k, l \in Loop : k # l => ToSet(hand[k]) \cap ToSet(hand[l]) \subseteq refused

Unheard ==
  \A c \in Chat :
    /\ ToSet(queue) \cap ToSet(heard[c]) \subseteq refused
    /\ \A l \in Loop : hand[l] # << >> =>
         /\ ToSet(Tail(hand[l])) \cap ToSet(heard[c]) \subseteq refused
         /\ c \in chats[l] /\ Head(hand[l]) \in ToSet(heard[c]) => Head(hand[l]) \in refused

PutBack ==
  \A l \in Loop :
    /\ ToSet(retry[l]) \subseteq refused
    /\ failed[l] => stage[l] = "send" /\ Head(hand[l]) \in refused

CauseInv == RepeatsHaveCause /\ Raised /\ OneCopy /\ Unheard /\ PutBack

LEMMA SingleTail ==
  ASSUME NEW s \in Seq(Alert), s # << >>, NEW R, Single(s, R)
  PROVE  Single(Tail(s), R) /\ (Head(s) \in ToSet(Tail(s)) => Head(s) \in R)
<1>1. /\ Len(s) \in Nat \ {0} /\ Len(Tail(s)) = Len(s) - 1
      /\ \A i \in 1 .. Len(s) - 1 : Tail(s)[i] = s[i + 1]
  OBVIOUS
<1>2. Single(Tail(s), R)
  <2> SUFFICES ASSUME NEW i \in 1 .. Len(s) - 1, NEW j \in 1 .. Len(s) - 1,
                      i # j, Tail(s)[i] = Tail(s)[j]
               PROVE  Tail(s)[i] \in R
    BY <1>1 DEF Single
  <2>1. i + 1 \in 1 .. Len(s) /\ j + 1 \in 1 .. Len(s) /\ i + 1 # j + 1 /\ s[i + 1] = s[j + 1]
    BY <1>1
  <2> QED BY <1>1, <2>1 DEF Single
<1>3. ASSUME Head(s) \in ToSet(Tail(s)) PROVE Head(s) \in R
  <2>1. PICK i \in DOMAIN Tail(s) : Tail(s)[i] = Head(s)
    BY <1>3 DEF ToSet
  <2>2. i + 1 \in 1 .. Len(s) /\ 1 \in 1 .. Len(s) /\ i + 1 # 1 /\ s[i + 1] = s[1]
    BY <1>1, <2>1
  <2>3. s[1] \in R
    BY <2>2 DEF Single
  <2> QED BY <2>3
<1> QED BY <1>2, <1>3

LEMMA SingleConcat ==
  ASSUME NEW s \in Seq(Alert), NEW t \in Seq(Alert), NEW R,
         Single(s, R), Single(t, R), ToSet(s) \cap ToSet(t) \subseteq R
  PROVE  Single(s \o t, R)
<1> SUFFICES ASSUME NEW i \in 1 .. Len(s) + Len(t), NEW j \in 1 .. Len(s) + Len(t),
                    i < j, (s \o t)[i] = (s \o t)[j]
             PROVE  (s \o t)[i] \in R
  BY DEF Single
<1>1. CASE j =< Len(s)
  <2>1. i \in 1 .. Len(s) /\ j \in 1 .. Len(s) /\ s[i] = s[j] /\ (s \o t)[i] = s[i]
    BY <1>1
  <2> QED BY <2>1 DEF Single
<1>2. CASE i > Len(s)
  <2>1. /\ i - Len(s) \in 1 .. Len(t) /\ j - Len(s) \in 1 .. Len(t)
        /\ i - Len(s) # j - Len(s)
        /\ t[i - Len(s)] = t[j - Len(s)] /\ (s \o t)[i] = t[i - Len(s)]
    BY <1>2
  <2> QED BY <2>1 DEF Single
<1>3. CASE i =< Len(s) /\ j > Len(s)
  <2>1. /\ i \in DOMAIN s /\ j - Len(s) \in DOMAIN t
        /\ (s \o t)[i] = s[i] /\ s[i] = t[j - Len(s)]
    BY <1>3
  <2>2. s[i] \in ToSet(s) /\ s[i] \in ToSet(t)
    BY <2>1 DEF ToSet
  <2> QED BY <2>1, <2>2
<1> QED BY <1>1, <1>2, <1>3

LEMMA SingleWithin ==
  ASSUME NEW s \in Seq(Alert), NEW R, ToSet(s) \subseteq R
  PROVE  Single(s, R)
BY DEF Single, ToSet

LEMMA CauseInvInit == Init => CauseInv
<1> SUFFICES ASSUME Init PROVE CauseInv
  OBVIOUS
<1>1. ToSet(<< >>) = {} /\ \A R : Single(<< >>, R)
  BY ToSetEmpty DEF Single
<1>2. queue = << >> /\ \A l \in Loop : hand[l] = << >> /\ retry[l] = << >> /\ ~failed[l]
  BY DEF Init
<1>3. repeated = {} /\ \A c \in Chat : heard[c] = << >>
  BY DEF Init
<1> QED BY <1>1, <1>2, <1>3 DEF CauseInv, RepeatsHaveCause, Raised, OneCopy, Unheard, PutBack

LEMMA CauseInvStep == TypeOK /\ CauseInv /\ [Next]_vars => CauseInv'
<1> SUFFICES ASSUME TypeOK, CauseInv, [Next]_vars PROVE CauseInv'
  OBVIOUS
<1>1. ASSUME NEW k \in 1 .. MaxAlert, Enqueue(k) PROVE CauseInv'
  <2> DEFINE new == [i \in 1 .. k |-> queued + i]
  <2>1. queued \in Nat /\ k \in Nat /\ MaxAlert \in Nat /\ queued + k =< MaxAlert
    BY <1>1, QueueAssumption DEF Enqueue, TypeOK
  <2>2. new \in Seq(Alert) /\ queue \in Seq(Alert) /\ Len(new) = k
    <3>1. \A i \in 1 .. k : new[i] \in Alert
      BY <2>1 DEF Alert
    <3> QED BY <2>1, <3>1 DEF TypeOK
  <2>3. /\ queued' = queued + k /\ queue' = queue \o new
        /\ UNCHANGED <<stage, hand, chats, failed, retry, heard, repeated, refused>>
    BY <1>1 DEF Enqueue, loopVars, chatVars
  <2>4. \A a \in ToSet(new) : a \in 1 .. queued' /\ a \notin 1 .. queued
    BY <2>1, <2>2, <2>3 DEF ToSet
  <2>5. Single(new, refused)
    BY <2>1, <2>2 DEF Single
  <2>6. ToSet(queue') = ToSet(queue) \cup ToSet(new)
    BY <2>2, <2>3, ToSetConcat
  <2>7. Single(queue', refused)
    <3>1. ToSet(queue) \cap ToSet(new) \subseteq refused
      BY <2>4 DEF CauseInv, Raised
    <3> QED BY <2>2, <2>3, <2>5, <3>1, SingleConcat DEF CauseInv, OneCopy
  <2>8. 1 .. queued \subseteq 1 .. queued'
    BY <2>1, <2>3
  <2>9. Raised'
    BY <2>3, <2>4, <2>6, <2>8 DEF CauseInv, Raised
  <2>10. OneCopy'
    <3>1. \A l \in Loop : ToSet(queue') \cap ToSet(hand[l]) \subseteq refused
      BY <2>4, <2>6 DEF CauseInv, Raised, OneCopy
    <3> QED BY <2>3, <2>7, <3>1 DEF CauseInv, OneCopy
  <2>11. Unheard'
    <3>1. \A c \in Chat : ToSet(queue') \cap ToSet(heard[c]) \subseteq refused
      BY <2>4, <2>6 DEF CauseInv, Raised, Unheard
    <3> QED BY <2>3, <3>1 DEF CauseInv, Unheard
  <2> QED BY <2>3, <2>9, <2>10, <2>11 DEF CauseInv, RepeatsHaveCause, PutBack
<1>2. ASSUME ChangeLeader PROVE CauseInv'
  BY <1>2 DEF ChangeLeader, loopVars, chatVars, CauseInv, RepeatsHaveCause, Raised, OneCopy,
              Unheard, PutBack
<1>3. ASSUME NEW l \in Loop, StartLoop(l) \/ Wake(l) PROVE CauseInv'
  <2>1. UNCHANGED <<queued, queue, hand, chats, failed, retry, heard, repeated, refused>>
    BY <1>3 DEF StartLoop, Wake, chatVars
  <2>2. \A k \in Loop : stage[k] = "send" => stage'[k] = "send"
    BY <1>3 DEF StartLoop, Wake, TypeOK
  <2> QED BY <2>1, <2>2 DEF CauseInv, RepeatsHaveCause, Raised, OneCopy, Unheard, PutBack
<1>4. ASSUME NEW l \in Loop, Drain(l) PROVE CauseInv'
  <2>1. hand[l] = << >> /\ hand'[l] = queue /\ queue' = << >> /\ stage[l] # "send"
    BY <1>4 DEF Drain, TypeOK
  <2>2. \A k \in Loop \ {l} : hand'[k] = hand[k] /\ stage'[k] = stage[k] /\ chats'[k] = chats[k]
    BY <1>4 DEF Drain, TypeOK
  <2>3. UNCHANGED <<queued, retry, failed, heard, repeated, refused>>
    BY <1>4 DEF Drain, chatVars
  <2>4. ToSet(queue') = {} /\ Single(queue', refused)
    BY <2>1, ToSetEmpty DEF Single
  <2>5. Raised'
    BY <2>1, <2>2, <2>3, <2>4 DEF CauseInv, Raised
  <2>6. OneCopy'
    <3>1. \A k \in Loop : Single(hand'[k], refused)
      BY <2>1, <2>2 DEF CauseInv, OneCopy
    <3>2. \A k, m \in Loop : k # m => ToSet(hand'[k]) \cap ToSet(hand'[m]) \subseteq refused
      BY <2>1, <2>2 DEF CauseInv, OneCopy
    <3> QED BY <2>3, <2>4, <3>1, <3>2 DEF OneCopy
  <2>7. Unheard'
    <3> SUFFICES ASSUME NEW c \in Chat, NEW k \in Loop, hand'[k] # << >>
                 PROVE  /\ ToSet(Tail(hand'[k])) \cap ToSet(heard[c]) \subseteq refused
                        /\ c \in chats'[k] /\ Head(hand'[k]) \in ToSet(heard[c])
                             => Head(hand'[k]) \in refused
      BY <2>3, <2>4 DEF Unheard
    <3>1. CASE k = l
      <4>1. ToSet(queue) = {Head(queue)} \cup ToSet(Tail(queue))
        BY <2>1, <3>1, ToSetTail DEF TypeOK
      <4> QED BY <2>1, <3>1, <4>1 DEF CauseInv, Unheard
    <3>2. CASE k # l
      BY <2>2, <3>2 DEF CauseInv, Unheard
    <3> QED BY <3>1, <3>2
  <2>8. PutBack'
    BY <2>1, <2>2, <2>3 DEF CauseInv, PutBack
  <2> QED BY <2>3, <2>5, <2>6, <2>7, <2>8 DEF CauseInv, RepeatsHaveCause
<1>5. ASSUME NEW l \in Loop, NEW c \in Chat, Sent(l, c) PROVE CauseInv'
  <2> DEFINE b == Head(hand[l])
  <2>1. UNCHANGED <<queued, queue, stage, hand, failed, retry, refused>>
    BY <1>5 DEF Sent
  <2>2. /\ hand[l] # << >> /\ hand[l] \in Seq(Alert) /\ c \in chats[l]
        /\ chats' = [chats EXCEPT ![l] = @ \ {c}]
    BY <1>5 DEF Sent, TypeOK
  <2>3. \A d \in Chat : ToSet(heard'[d]) = IF d = c THEN ToSet(heard[d]) \cup {b}
                                                    ELSE ToSet(heard[d])
    BY <1>5, HeardGrows
  <2>4. ToSet(hand[l]) = {b} \cup ToSet(Tail(hand[l]))
    BY <2>2, ToSetTail
  <2>5. RepeatsHaveCause'
    <3>1. repeated' = repeated \/ (b \in ToSet(heard[c]) /\ repeated' = repeated \cup {<<c, b>>})
      BY <1>5 DEF Sent
    <3>2. b \in ToSet(heard[c]) => b \in refused
      BY <2>2 DEF CauseInv, Unheard
    <3> QED BY <2>1, <3>1, <3>2 DEF CauseInv, RepeatsHaveCause
  <2>6. Raised'
    BY <2>1, <2>3, <2>4 DEF CauseInv, Raised
  <2>7. OneCopy'
    BY <2>1 DEF CauseInv, OneCopy
  <2>8. Unheard'
    <3> SUFFICES ASSUME NEW d \in Chat
                 PROVE  /\ ToSet(queue) \cap ToSet(heard'[d]) \subseteq refused
                        /\ \A k \in Loop : hand[k] # << >> =>
                             /\ ToSet(Tail(hand[k])) \cap ToSet(heard'[d]) \subseteq refused
                             /\ d \in chats'[k] /\ Head(hand[k]) \in ToSet(heard'[d])
                                  => Head(hand[k]) \in refused
      BY <2>1 DEF Unheard
    <3>1. b \in ToSet(queue) => b \in refused
      BY <2>4 DEF CauseInv, OneCopy
    <3>2. ASSUME NEW k \in Loop, hand[k] # << >>, k # l, b \in ToSet(hand[k]) PROVE b \in refused
      BY <2>4, <3>2 DEF CauseInv, OneCopy
    <3>3. b \in ToSet(Tail(hand[l])) => b \in refused
      BY <2>2, SingleTail DEF CauseInv, OneCopy
    <3>4. \A k \in Loop : hand[k] # << >> =>
            ToSet(hand[k]) = {Head(hand[k])} \cup ToSet(Tail(hand[k]))
      BY ToSetTail DEF TypeOK
    <3>5. chats'[l] = chats[l] \ {c} /\ \A k \in Loop \ {l} : chats'[k] = chats[k]
      BY <2>2 DEF TypeOK
    <3>6. CASE d # c
      BY <2>3, <3>5, <3>6 DEF CauseInv, Unheard
    <3>7. CASE d = c
      <4>1. ToSet(queue) \cap ToSet(heard'[d]) \subseteq refused
        BY <2>3, <3>1, <3>7 DEF CauseInv, Unheard
      <4>2. ASSUME NEW k \in Loop, hand[k] # << >>
            PROVE  ToSet(Tail(hand[k])) \cap ToSet(heard'[d]) \subseteq refused
        <5>1. ToSet(Tail(hand[k])) \cap ToSet(heard[c]) \subseteq refused
          BY <4>2 DEF CauseInv, Unheard
        <5>2. b \in ToSet(Tail(hand[k])) => b \in refused
          BY <3>2, <3>3, <3>4, <4>2
        <5> QED BY <2>3, <3>7, <5>1, <5>2
      <4>3. ASSUME NEW k \in Loop, hand[k] # << >>, d \in chats'[k],
                   Head(hand[k]) \in ToSet(heard'[d])
            PROVE  Head(hand[k]) \in refused
        <5>1. k # l
          BY <3>5, <3>7, <4>3
        <5> QED BY <2>3, <3>2, <3>4, <3>5, <3>7, <4>3, <5>1 DEF CauseInv, Unheard
      <4> QED BY <4>1, <4>2, <4>3
    <3> QED BY <3>6, <3>7
  <2>9. PutBack'
    BY <2>1 DEF CauseInv, PutBack
  <2> QED BY <2>5, <2>6, <2>7, <2>8, <2>9 DEF CauseInv
<1>6. ASSUME NEW l \in Loop, NEW c \in Chat, Refused(l, c) PROVE CauseInv'
  <2>1. UNCHANGED <<queued, queue, stage, hand, retry, heard, repeated>>
    BY <1>6 DEF Refused
  <2>2. stage[l] = "send" /\ refused' = refused \cup {Head(hand[l])}
    BY <1>6 DEF Refused
  <2>3. \A k \in Loop : chats'[k] \subseteq chats[k] /\ (failed'[k] => failed[k] \/ k = l)
    BY <1>6 DEF Refused, TypeOK
  <2>4. RepeatsHaveCause' /\ Raised'
    BY <2>1, <2>2 DEF CauseInv, RepeatsHaveCause, Raised
  <2>5. OneCopy'
    BY <2>1, <2>2 DEF CauseInv, OneCopy, Single
  <2>6. Unheard'
    BY <2>1, <2>2, <2>3 DEF CauseInv, Unheard
  <2>7. PutBack'
    BY <2>1, <2>2, <2>3 DEF CauseInv, PutBack
  <2> QED BY <2>4, <2>5, <2>6, <2>7 DEF CauseInv
<1>7. ASSUME NEW l \in Loop, NextAlert(l) PROVE CauseInv'
  <2> DEFINE b == Head(hand[l])
  <2>1. hand[l] \in Seq(Alert) /\ hand[l] # << >> /\ retry[l] \in Seq(Alert) /\ b \in Alert
    BY <1>7 DEF NextAlert, TypeOK
  <2>2. hand'[l] = Tail(hand[l]) /\ Tail(hand[l]) \in Seq(Alert) /\ ~failed'[l]
    BY <1>7, <2>1 DEF NextAlert, TypeOK
  <2>3. retry'[l] = IF failed[l] THEN Append(retry[l], b) ELSE retry[l]
    BY <1>7 DEF NextAlert, TypeOK
  <2>4. \A k \in Loop \ {l} : /\ hand'[k] = hand[k] /\ stage'[k] = stage[k]
                              /\ chats'[k] = chats[k] /\ retry'[k] = retry[k]
                              /\ failed'[k] = failed[k]
    BY <1>7 DEF NextAlert, TypeOK
  <2>5. UNCHANGED <<queued, queue, heard, repeated, refused>>
    BY <1>7 DEF NextAlert, chatVars
  <2>6. ToSet(hand[l]) = {b} \cup ToSet(Tail(hand[l]))
    BY <2>1, ToSetTail
  <2>7. ToSet(retry'[l]) = ToSet(retry[l]) \cup (IF failed[l] THEN {b} ELSE {})
    BY <2>1, <2>3, ToSetAppend
  <2>8. \A k \in Loop : ToSet(hand'[k]) \subseteq ToSet(hand[k])
    BY <2>2, <2>4, <2>6
  <2>9. RepeatsHaveCause'
    BY <2>5 DEF CauseInv, RepeatsHaveCause
  <2>10. Raised'
    <3>1. \A k \in Loop : ToSet(retry'[k]) \subseteq ToSet(retry[k]) \cup ToSet(hand[k])
      BY <2>4, <2>6, <2>7
    <3> QED BY <2>5, <2>8, <3>1 DEF CauseInv, Raised
  <2>11. OneCopy'
    <3>1. Single(hand'[l], refused)
      BY <2>1, <2>2, SingleTail DEF CauseInv, OneCopy
    <3>2. \A k \in Loop : Single(hand'[k], refused)
      BY <2>4, <3>1 DEF CauseInv, OneCopy
    <3>3. /\ Single(queue, refused)
          /\ \A k \in Loop : ToSet(queue) \cap ToSet(hand'[k]) \subseteq refused
      BY <2>8 DEF CauseInv, OneCopy
    <3>4. \A k, m \in Loop : k # m => ToSet(hand'[k]) \cap ToSet(hand'[m]) \subseteq refused
      BY <2>8 DEF CauseInv, OneCopy
    <3> QED BY <2>5, <3>2, <3>3, <3>4 DEF OneCopy
  <2>12. Unheard'
    <3> SUFFICES ASSUME NEW d \in Chat, NEW k \in Loop, hand'[k] # << >>
                 PROVE  /\ ToSet(Tail(hand'[k])) \cap ToSet(heard[d]) \subseteq refused
                        /\ d \in chats'[k] /\ Head(hand'[k]) \in ToSet(heard[d])
                             => Head(hand'[k]) \in refused
      BY <2>5 DEF CauseInv, Unheard
    <3>1. CASE k = l
      <4>1. ToSet(Tail(hand[l])) = {Head(hand'[l])} \cup ToSet(Tail(hand'[l]))
        BY <2>2, <3>1, ToSetTail
      <4> QED BY <2>1, <3>1, <4>1 DEF CauseInv, Unheard
    <3>2. CASE k # l
      BY <2>4, <3>2 DEF CauseInv, Unheard
    <3> QED BY <3>1, <3>2
  <2>13. PutBack'
    <3>1. failed[l] => b \in refused
      BY DEF CauseInv, PutBack
    <3>2. ToSet(retry'[l]) \subseteq refused
      BY <2>7, <3>1 DEF CauseInv, PutBack
    <3> QED BY <2>2, <2>4, <2>5, <3>2 DEF CauseInv, PutBack
  <2> QED BY <2>9, <2>10, <2>11, <2>12, <2>13 DEF CauseInv
<1>8. ASSUME NEW l \in Loop, Requeue(l) PROVE CauseInv'
  <2>1. retry[l] \in Seq(Alert) /\ queue \in Seq(Alert) /\ stage[l] = "requeue"
    BY <1>8 DEF TypeOK, Requeue
  <2>2. queue' = retry[l] \o queue
    BY <1>8 DEF Requeue
  <2>3. ToSet(queue') = ToSet(retry[l]) \cup ToSet(queue)
    BY <2>1, <2>2, ToSetConcat
  <2>4. ToSet(retry'[l]) = {}
    BY <1>8, ToSetEmpty DEF Requeue, TypeOK
  <2>5. \A k \in Loop \ {l} : retry'[k] = retry[k] /\ stage'[k] = stage[k]
    BY <1>8 DEF Requeue, TypeOK
  <2>6. UNCHANGED <<queued, hand, chats, failed, heard, repeated, refused>>
    BY <1>8 DEF Requeue, chatVars
  <2>7. ToSet(retry[l]) \subseteq refused
    BY DEF CauseInv, PutBack
  <2>8. Single(queue', refused)
    <3>1. Single(retry[l], refused)
      BY <2>1, <2>7, SingleWithin
    <3> QED BY <2>1, <2>2, <2>7, <3>1, SingleConcat DEF CauseInv, OneCopy
  <2>9. Raised'
    BY <2>3, <2>4, <2>5, <2>6 DEF CauseInv, Raised
  <2>10. OneCopy'
    BY <2>3, <2>6, <2>7, <2>8 DEF CauseInv, OneCopy
  <2>11. Unheard'
    BY <2>3, <2>6, <2>7 DEF CauseInv, Unheard
  <2>12. PutBack'
    BY <2>1, <2>4, <2>5, <2>6 DEF CauseInv, PutBack
  <2> QED BY <2>6, <2>9, <2>10, <2>11, <2>12 DEF CauseInv, RepeatsHaveCause
<1>9. CASE UNCHANGED vars
  BY <1>9 DEF vars, loopVars, chatVars, CauseInv, RepeatsHaveCause, Raised, OneCopy, Unheard,
              PutBack
<1> QED BY <1>1, <1>2, <1>3, <1>4, <1>5, <1>6, <1>7, <1>8, <1>9 DEF Next, Deliver

\* Two loops after an error of the Telegram side, or one that drains what it has just
\* put back, give no chat an alert twice, unless some chat refused it.
THEOREM RepeatsAlwaysCaused == Spec => []RepeatsHaveCause
<1>1. Init => CauseInv
  BY CauseInvInit
<1>2. TypeOK /\ CauseInv /\ [Next]_vars => CauseInv'
  BY CauseInvStep
<1>3. CauseInv => RepeatsHaveCause
  BY DEF CauseInv
<1> QED BY <1>1, <1>2, <1>3, TypeCorrect, PTL DEF Spec

-----------------------------------------------------------------------------
(* The order of the alerts.  With one loop, what it will put back was      *)
(* raised before what it still holds, and that before what is queued; and  *)
(* what a chat that never fails has not heard is newer than all that it    *)
(* has.                                                                    *)

Below(s, t) == \A x \in ToSet(s), y \in ToSet(t) : x < y

\* The alerts of s that a chat has not heard are newer than those it has.
Newer(s, h) == \A y \in ToSet(s) : y \in ToSet(h) \/ \A x \in ToSet(h) : x < y

OneLoop == \A k, l \in Started : k = l

\* A loop that was not started holds nothing.
Idle == \A l \in Loop : stage[l] = "none" => hand[l] = << >> /\ retry[l] = << >>

QueueInOrder ==
  /\ InOrder(queue)
  /\ \A c \in Chat \ Unreliable : InOrder(heard[c]) /\ Newer(queue, heard[c])

LoopInOrder(l) ==
  /\ InOrder(hand[l]) /\ InOrder(retry[l])
  /\ Below(retry[l], hand[l]) /\ Below(retry[l], queue) /\ Below(hand[l], queue)
  /\ \A c \in Chat \ Unreliable :
       /\ Newer(hand[l], heard[c])
       /\ ToSet(retry[l]) \subseteq ToSet(heard[c])
       /\ stage[l] = "send" /\ c \notin chats[l] => Head(hand[l]) \in ToSet(heard[c])

OrderInv == Idle /\ (OneLoop => QueueInOrder /\ \A l \in Loop : LoopInOrder(l))

LEMMA InOrderConcat ==
  ASSUME NEW s \in Seq(Alert), NEW t \in Seq(Alert), InOrder(s), InOrder(t), Below(s, t)
  PROVE  InOrder(s \o t)
<1> SUFFICES ASSUME NEW i \in 1 .. Len(s) + Len(t), NEW j \in 1 .. Len(s) + Len(t), i < j
             PROVE  (s \o t)[i] < (s \o t)[j]
  BY DEF InOrder
<1>1. CASE j =< Len(s)
  <2>1. i \in 1 .. Len(s) /\ j \in 1 .. Len(s) /\ (s \o t)[i] = s[i] /\ (s \o t)[j] = s[j]
    BY <1>1
  <2> QED BY <2>1 DEF InOrder
<1>2. CASE i > Len(s)
  <2>1. /\ i - Len(s) \in 1 .. Len(t) /\ j - Len(s) \in 1 .. Len(t)
        /\ i - Len(s) < j - Len(s)
        /\ (s \o t)[i] = t[i - Len(s)] /\ (s \o t)[j] = t[j - Len(s)]
    BY <1>2
  <2> QED BY <2>1 DEF InOrder
<1>3. CASE i =< Len(s) /\ j > Len(s)
  <2>1. /\ i \in DOMAIN s /\ j - Len(s) \in DOMAIN t
        /\ (s \o t)[i] = s[i] /\ (s \o t)[j] = t[j - Len(s)]
    BY <1>3
  <2>2. s[i] \in ToSet(s) /\ t[j - Len(s)] \in ToSet(t)
    BY <2>1 DEF ToSet
  <2> QED BY <2>1, <2>2 DEF Below
<1> QED BY <1>1, <1>2, <1>3

LEMMA InOrderAppend ==
  ASSUME NEW s \in Seq(Alert), NEW e \in Alert, InOrder(s), \A x \in ToSet(s) : x < e
  PROVE  InOrder(Append(s, e))
<1>1. Append(s, e) = s \o <<e>> /\ <<e>> \in Seq(Alert) /\ Len(<<e>>) = 1
  OBVIOUS
<1>2. ToSet(<<e>>) = {e}
  BY DEF ToSet
<1>3. InOrder(<<e>>)
  BY <1>1 DEF InOrder
<1>4. Below(s, <<e>>)
  BY <1>2 DEF Below
<1> QED BY <1>1, <1>3, <1>4, InOrderConcat

LEMMA InOrderTail ==
  ASSUME NEW s \in Seq(Alert), s # << >>, InOrder(s)
  PROVE  InOrder(Tail(s)) /\ \A y \in ToSet(Tail(s)) : Head(s) < y
<1>1. /\ Len(s) \in Nat \ {0} /\ Len(Tail(s)) = Len(s) - 1
      /\ \A i \in 1 .. Len(s) - 1 : Tail(s)[i] = s[i + 1]
  OBVIOUS
<1>2. InOrder(Tail(s))
  <2> SUFFICES ASSUME NEW i \in 1 .. Len(s) - 1, NEW j \in 1 .. Len(s) - 1, i < j
               PROVE  Tail(s)[i] < Tail(s)[j]
    BY <1>1 DEF InOrder
  <2>1. i + 1 \in 1 .. Len(s) /\ j + 1 \in 1 .. Len(s) /\ i + 1 < j + 1
    BY <1>1
  <2> QED BY <1>1, <2>1 DEF InOrder
<1>3. ASSUME NEW y \in ToSet(Tail(s)) PROVE Head(s) < y
  <2>1. PICK i \in DOMAIN Tail(s) : Tail(s)[i] = y
    BY <1>3 DEF ToSet
  <2>2. i + 1 \in 1 .. Len(s) /\ 1 \in 1 .. Len(s) /\ 1 < i + 1 /\ s[i + 1] = y
    BY <1>1, <2>1
  <2>3. s[1] < s[i + 1]
    BY <2>2 DEF InOrder
  <2> QED BY <2>2, <2>3
<1> QED BY <1>2, <1>3

LEMMA NothingInOrder == InOrder(<< >>)
BY DEF InOrder

\* A loop that holds nothing is in order.
LEMMA EmptyInOrder ==
  ASSUME NEW l \in Loop, hand[l] = << >>, retry[l] = << >>, stage[l] # "send"
  PROVE  LoopInOrder(l)
<1>1. ToSet(hand[l]) = {} /\ ToSet(retry[l]) = {}
  BY ToSetEmpty
<1> QED BY <1>1, NothingInOrder DEF LoopInOrder, Below, Newer

LEMMA OrderInvInit == Init => OrderInv
<1> SUFFICES ASSUME Init PROVE OrderInv
  OBVIOUS
<1>1. \A l \in Loop : hand[l] = << >> /\ retry[l] = << >> /\ stage[l] # "send"
  BY DEF Init
<1>2. queue = << >> /\ ToSet(queue) = {} /\ \A c \in Chat : heard[c] = << >>
  BY ToSetEmpty DEF Init
<1>3. QueueInOrder
  BY <1>2, NothingInOrder DEF QueueInOrder, Newer
<1> QED BY <1>1, <1>3, EmptyInOrder DEF OrderInv, Idle

LEMMA IdleStep == TypeOK /\ Idle /\ [Next]_vars => Idle'
<1> SUFFICES ASSUME TypeOK, Idle, [Next]_vars PROVE Idle'
  OBVIOUS
<1>1. ASSUME NEW k \in 1 .. MaxAlert, Enqueue(k) PROVE Idle'
  BY <1>1 DEF Enqueue, loopVars, Idle
<1>2. CASE ChangeLeader \/ UNCHANGED vars
  BY <1>2 DEF ChangeLeader, vars, loopVars, Idle
<1>3. ASSUME NEW l \in Loop, StartLoop(l) \/ Wake(l) PROVE Idle'
  BY <1>3 DEF StartLoop, Wake, Idle, TypeOK
<1>4. ASSUME NEW l \in Loop, Drain(l) PROVE Idle'
  BY <1>4 DEF Drain, Idle, TypeOK
<1>5. ASSUME NEW l \in Loop, NEW c \in Chat, Sent(l, c) \/ Refused(l, c) PROVE Idle'
  BY <1>5 DEF Sent, Refused, Idle
<1>6. ASSUME NEW l \in Loop, NextAlert(l) PROVE Idle'
  BY <1>6 DEF NextAlert, Idle, TypeOK
<1>7. ASSUME NEW l \in Loop, Requeue(l) PROVE Idle'
  BY <1>7 DEF Requeue, Idle, TypeOK
<1> QED BY <1>1, <1>2, <1>3, <1>4, <1>5, <1>6, <1>7 DEF Next, Deliver

\* With one loop, the step of a started loop disturbs no other.
LEMMA OnlyLoop ==
  ASSUME Idle', OneLoop', NEW l \in Loop, stage'[l] # "none", LoopInOrder(l)'
  PROVE  \A k \in Loop : LoopInOrder(k)'
<1> SUFFICES ASSUME NEW k \in Loop, k # l PROVE LoopInOrder(k)'
  OBVIOUS
<1>1. l \in Started'
  BY DEF Started
<1>2. k \notin Started'
  BY <1>1 DEF OneLoop
<1>3. stage'[k] = "none" /\ hand'[k] = << >> /\ retry'[k] = << >>
  BY <1>2 DEF Started, Idle
<1>4. ToSet(hand'[k]) = {} /\ ToSet(retry'[k]) = {}
  BY <1>3, ToSetEmpty
<1> QED BY <1>3, <1>4, NothingInOrder DEF LoopInOrder, Below, Newer

LEMMA OrderInvStep == TypeOK /\ Raised /\ OrderInv /\ [Next]_vars => OrderInv'
<1> SUFFICES ASSUME TypeOK, Raised, OrderInv, [Next]_vars PROVE OrderInv'
  OBVIOUS
<1>1. Idle /\ Idle'
  BY IdleStep DEF OrderInv
<1> SUFFICES ASSUME OneLoop' PROVE QueueInOrder' /\ \A l \in Loop : LoopInOrder(l)'
  BY <1>1 DEF OrderInv
<1>2. \A l \in Loop : stage'[l] = "none" => stage[l] = "none"
  BY DEF Next, Deliver, Enqueue, ChangeLeader, StartLoop, Wake, Drain, Sent, Refused,
         NextAlert, Requeue, vars, loopVars, chatVars, TypeOK
<1>3. OneLoop
  BY <1>2 DEF OneLoop, Started
<1>4. QueueInOrder /\ \A l \in Loop : LoopInOrder(l)
  BY <1>3 DEF OrderInv
<1>5. ASSUME NEW k \in 1 .. MaxAlert, Enqueue(k)
      PROVE  QueueInOrder' /\ \A l \in Loop : LoopInOrder(l)'
  <2> DEFINE new == [i \in 1 .. k |-> queued + i]
  <2>1. queued \in Nat /\ k \in Nat /\ MaxAlert \in Nat /\ queued + k =< MaxAlert
    BY <1>5, QueueAssumption DEF Enqueue, TypeOK
  <2>2. new \in Seq(Alert) /\ queue \in Seq(Alert) /\ Len(new) = k
    <3>1. \A i \in 1 .. k : new[i] \in Alert
      BY <2>1 DEF Alert
    <3> QED BY <2>1, <3>1 DEF TypeOK
  <2>3. queue' = queue \o new /\ UNCHANGED <<stage, hand, chats, retry, heard>>
    BY <1>5 DEF Enqueue, loopVars, chatVars
  <2>4. \A y \in ToSet(new) : y \in Int /\ \A x \in 1 .. queued : x < y
    BY <2>1, <2>2 DEF ToSet
  <2>5. ToSet(queue') = ToSet(queue) \cup ToSet(new)
    BY <2>2, <2>3, ToSetConcat
  <2>6. InOrder(queue')
    <3>1. InOrder(new)
      BY <2>1, <2>2 DEF InOrder
    <3>2. Below(queue, new)
      BY <2>4 DEF Below, Raised
    <3> QED BY <1>4, <2>2, <2>3, <3>1, <3>2, InOrderConcat DEF QueueInOrder
  <2>7. QueueInOrder'
    <3>1. \A c \in Chat : \A x \in ToSet(heard[c]), y \in ToSet(new) : x < y
      BY <2>4 DEF Raised
    <3>2. \A c \in Chat \ Unreliable : Newer(queue', heard[c])
      BY <1>4, <2>5, <3>1 DEF QueueInOrder, Newer
    <3> QED BY <1>4, <2>3, <2>6, <3>2 DEF QueueInOrder
  <2>8. ASSUME NEW l \in Loop PROVE LoopInOrder(l)'
    <3>1. Below(hand[l], queue') /\ Below(retry[l], queue')
      BY <1>4, <2>4, <2>5 DEF LoopInOrder, Below, Raised
    <3> QED BY <1>4, <2>3, <3>1 DEF LoopInOrder
  <2> QED BY <2>7, <2>8
<1>6. CASE ChangeLeader \/ UNCHANGED vars
  <2>1. UNCHANGED <<queue, stage, hand, chats, retry, heard>>
    BY <1>6 DEF ChangeLeader, vars, loopVars, chatVars
  <2> QED BY <1>4, <2>1 DEF QueueInOrder, LoopInOrder
<1>7. ASSUME NEW l \in Loop, StartLoop(l) \/ Wake(l)
      PROVE  QueueInOrder' /\ \A k \in Loop : LoopInOrder(k)'
  <2>1. UNCHANGED <<queue, hand, chats, retry, heard>>
    BY <1>7 DEF StartLoop, Wake, chatVars
  <2>2. \A k \in Loop : stage'[k] = "send" => stage[k] = "send"
    BY <1>7 DEF StartLoop, Wake, TypeOK
  <2> QED BY <1>4, <2>1, <2>2 DEF QueueInOrder, LoopInOrder
<1>8. ASSUME NEW l \in Loop, Drain(l)
      PROVE  QueueInOrder' /\ \A k \in Loop : LoopInOrder(k)'
  <2>1. /\ queue' = << >> /\ hand'[l] = queue /\ chats'[l] = Chat
        /\ stage'[l] # "none" /\ UNCHANGED <<retry, heard>>
    BY <1>8 DEF Drain, TypeOK, chatVars
  <2>2. ToSet(queue') = {} /\ InOrder(queue')
    BY <2>1, ToSetEmpty, NothingInOrder
  <2>3. QueueInOrder'
    BY <1>4, <2>1, <2>2 DEF QueueInOrder, Newer
  <2>4. LoopInOrder(l)'
    BY <1>4, <2>1, <2>2 DEF QueueInOrder, LoopInOrder, Below, Newer
  <2> QED BY <1>1, <2>1, <2>3, <2>4, OnlyLoop
<1>9. ASSUME NEW l \in Loop, NEW c \in Chat, Sent(l, c)
      PROVE  QueueInOrder' /\ \A k \in Loop : LoopInOrder(k)'
  <2> DEFINE b == Head(hand[l])
  <2>1. UNCHANGED <<queue, stage, hand, retry>> /\ stage[l] = "send"
    BY <1>9 DEF Sent
  <2>2. /\ hand[l] # << >> /\ hand[l] \in Seq(Alert) /\ b \in Alert
        /\ chats'[l] = chats[l] \ {c}
    BY <1>9 DEF Sent, TypeOK
  <2>3. \A d \in Chat : ToSet(heard'[d]) = IF d = c THEN ToSet(heard[d]) \cup {b}
                                                    ELSE ToSet(heard[d])
    BY <1>9, HeardGrows
  <2>4. ToSet(hand[l]) = {b} \cup ToSet(Tail(hand[l]))
    BY <2>2, ToSetTail
  <2>5. /\ \A y \in ToSet(Tail(hand[l])) : b < y
        /\ \A y \in ToSet(queue) : b < y
    BY <1>4, <2>2, <2>4, InOrderTail DEF LoopInOrder, Below
  <2>6. ASSUME NEW d \in Chat \ Unreliable
        PROVE  InOrder(heard'[d]) /\ Newer(queue, heard'[d]) /\ Newer(hand[l], heard'[d])
    <3>1. /\ InOrder(heard[d]) /\ Newer(queue, heard[d]) /\ Newer(hand[l], heard[d])
          /\ heard[d] \in Seq(Alert)
      BY <1>4 DEF QueueInOrder, LoopInOrder, TypeOK
    <3>2. CASE b \in ToSet(heard[c]) \/ d # c
      <4>1. heard'[d] = heard[d]
        BY <1>9, <3>2 DEF Sent, TypeOK
      <4> QED BY <3>1, <4>1
    <3>3. CASE b \notin ToSet(heard[c]) /\ d = c
      <4>1. heard'[d] = Append(heard[d], b)
        BY <1>9, <3>3 DEF Sent, TypeOK
      <4>2. \A x \in ToSet(heard[d]) : x < b
        BY <2>4, <3>1, <3>3 DEF Newer
      <4>3. InOrder(heard'[d])
        BY <2>2, <3>1, <4>1, <4>2, InOrderAppend
      <4>4. Newer(queue, heard'[d])
        BY <2>3, <2>5, <3>1, <3>3 DEF Newer
      <4>5. Newer(hand[l], heard'[d])
        BY <2>3, <2>4, <2>5, <3>1, <3>3 DEF Newer
      <4> QED BY <4>3, <4>4, <4>5
    <3> QED BY <3>2, <3>3
  <2>7. QueueInOrder'
    BY <1>4, <2>1, <2>6 DEF QueueInOrder
  <2>8. ASSUME NEW d \in Chat \ Unreliable
        PROVE  /\ ToSet(retry[l]) \subseteq ToSet(heard'[d])
               /\ d \notin chats'[l] => b \in ToSet(heard'[d])
    BY <1>4, <2>1, <2>2, <2>3 DEF LoopInOrder
  <2>9. LoopInOrder(l)'
    BY <1>4, <2>1, <2>6, <2>8 DEF LoopInOrder
  <2> QED BY <1>1, <2>1, <2>7, <2>9, OnlyLoop
<1>10. ASSUME NEW l \in Loop, NEW c \in Chat, Refused(l, c)
       PROVE  QueueInOrder' /\ \A k \in Loop : LoopInOrder(k)'
  <2>1. UNCHANGED <<queue, stage, hand, retry, heard>> /\ c \in Unreliable
    BY <1>10 DEF Refused
  <2>2. \A k \in Loop, d \in Chat \ Unreliable : d \notin chats'[k] => d \notin chats[k]
    BY <1>10, <2>1 DEF Refused, TypeOK
  <2> QED BY <1>4, <2>1, <2>2 DEF QueueInOrder, LoopInOrder
<1>11. ASSUME NEW l \in Loop, NextAlert(l)
       PROVE  QueueInOrder' /\ \A k \in Loop : LoopInOrder(k)'
  <2> DEFINE b == Head(hand[l])
  <2>1. hand[l] \in Seq(Alert) /\ hand[l] # << >> /\ retry[l] \in Seq(Alert) /\ b \in Alert
    BY <1>11 DEF NextAlert, TypeOK
  <2>2. /\ hand'[l] = Tail(hand[l]) /\ chats'[l] = Chat /\ stage'[l] # "none"
        /\ retry'[l] = IF failed[l] THEN Append(retry[l], b) ELSE retry[l]
        /\ UNCHANGED <<queue, heard>>
    BY <1>11 DEF NextAlert, TypeOK, chatVars
  <2>3. ToSet(hand[l]) = {b} \cup ToSet(Tail(hand[l]))
    BY <2>1, ToSetTail
  <2>4. ToSet(retry'[l]) = ToSet(retry[l]) \cup (IF failed[l] THEN {b} ELSE {})
    BY <2>1, <2>2, ToSetAppend
  <2>5. InOrder(hand'[l]) /\ \A y \in ToSet(hand'[l]) : b < y
    BY <1>4, <2>1, <2>2, InOrderTail DEF LoopInOrder
  <2>6. InOrder(retry'[l])
    BY <1>4, <2>1, <2>2, <2>3, InOrderAppend DEF LoopInOrder, Below
  <2>7. /\ Below(retry'[l], hand'[l]) /\ Below(retry'[l], queue)
        /\ Below(hand'[l], queue)
    BY <1>4, <2>2, <2>3, <2>4, <2>5 DEF LoopInOrder, Below
  <2>8. ASSUME NEW d \in Chat \ Unreliable
        PROVE  Newer(hand'[l], heard[d]) /\ ToSet(retry'[l]) \subseteq ToSet(heard[d])
    <3>1. b \in ToSet(heard[d])
      BY <1>4, <1>11 DEF LoopInOrder, NextAlert
    <3> QED BY <1>4, <2>2, <2>3, <2>4, <3>1 DEF LoopInOrder, Newer
  <2>9. LoopInOrder(l)'
    BY <2>2, <2>5, <2>6, <2>7, <2>8 DEF LoopInOrder
  <2> QED BY <1>1, <1>4, <2>2, <2>9, OnlyLoop DEF QueueInOrder
<1>12. ASSUME NEW l \in Loop, Requeue(l)
       PROVE  QueueInOrder' /\ \A k \in Loop : LoopInOrder(k)'
  <2>1. retry[l] \in Seq(Alert) /\ queue \in Seq(Alert) /\ hand[l] = << >>
    BY <1>12 DEF TypeOK, Requeue
  <2>2. /\ queue' = retry[l] \o queue /\ retry'[l] = << >> /\ stage'[l] = "sleep"
        /\ UNCHANGED <<hand, heard>>
    BY <1>12 DEF Requeue, TypeOK, chatVars
  <2>3. ToSet(queue') = ToSet(retry[l]) \cup ToSet(queue)
    BY <2>1, <2>2, ToSetConcat
  <2>4. InOrder(queue')
    BY <1>4, <2>1, <2>2, InOrderConcat DEF QueueInOrder, LoopInOrder
  <2>5. \A d \in Chat \ Unreliable : Newer(queue', heard[d])
    BY <1>4, <2>3 DEF QueueInOrder, LoopInOrder, Newer
  <2>6. QueueInOrder'
    BY <1>4, <2>2, <2>4, <2>5 DEF QueueInOrder
  <2>7. ToSet(hand'[l]) = {} /\ ToSet(retry'[l]) = {}
    BY <2>1, <2>2, ToSetEmpty
  <2>8. LoopInOrder(l)'
    BY <2>1, <2>2, <2>7, NothingInOrder DEF LoopInOrder, Below, Newer
  <2> QED BY <1>1, <2>2, <2>6, <2>8, OnlyLoop
<1> QED BY <1>5, <1>6, <1>7, <1>8, <1>9, <1>10, <1>11, <1>12 DEF Next, Deliver

\* While one loop was started, putting back what some chat refused overtakes nothing:
\* a chat to which sending never fails hears the alerts as they were raised.
THEOREM AlertsInRaisedOrder == Spec => []RaisedOrder
<1>1. Init => CauseInv /\ OrderInv
  BY CauseInvInit, OrderInvInit
<1>2. TypeOK /\ CauseInv /\ [Next]_vars => CauseInv'
  BY CauseInvStep
<1>3. TypeOK /\ CauseInv /\ OrderInv /\ [Next]_vars => OrderInv'
  BY OrderInvStep DEF CauseInv
<1>4. OrderInv => RaisedOrder
  BY DEF OrderInv, OneLoop, RaisedOrder, QueueInOrder
<1> QED BY <1>1, <1>2, <1>3, <1>4, TypeCorrect, PTL DEF Spec

-----------------------------------------------------------------------------
(* Throttles: who may control.                                             *)

\* Sensitive commands are carried out for exactly those for whom the documents say so,
\* whichever chats, groups and users are configured.
THEOREM ControlAlwaysAsDocumented == ThrottleSpec => []ControlAsDocumented
<1>1. ControlAsDocumented
  BY DEF ControlAsDocumented, Message, Passes, Parsed, ActorAuthorized
<1> QED BY <1>1, PTL

-----------------------------------------------------------------------------
(* Threshold alerts.                                                       *)

Ages == Nat \cup {None}

AlertAges ==
  /\ lastSent \in [Metric -> Int \cup {None}]
  /\ raised \in [Metric -> Ages]
  /\ moved \in [Metric -> SUBSET {"forward", "back"}]

\* The age by the clock and the true one part only as the clock was set: an entry
\* looks no older than it is unless the clock went forward, no younger unless back.
Aging(m) ==
  /\ lastSent[m] = None <=> raised[m] = None
  /\ raised[m] # None =>
       /\ raised[m] =< Old
       /\ "forward" \notin moved[m] => lastSent[m] =< raised[m]
       /\ "back" \notin moved[m] => raised[m] =< lastSent[m]

ClockInv == \A m \in Metric : Aging(m)

LEMMA OlderAge ==
  ASSUME NEW age \in Int \cup {None}
  PROVE  /\ Older(age) \in Int \cup {None}
         /\ Older(age) = None <=> age = None
BY ThrottleAssumption DEF Older, Ages

LEMMA ClockInvStep ==
  AlertAges /\ ClockInv /\ [ThrottleNext]_throttleVars => AlertAges' /\ ClockInv'
<1> SUFFICES ASSUME AlertAges, ClockInv, [ThrottleNext]_throttleVars
             PROVE  AlertAges' /\ ClockInv'
  OBVIOUS
<1> USE ThrottleAssumption DEF Ages
<1>1. ASSUME NEW found \in Findings, Round(found) PROVE AlertAges' /\ ClockInv'
  <2>1. AlertAges'
    BY <1>1 DEF AlertAges, Round
  <2>2. ClockInv'
    BY <1>1 DEF AlertAges, ClockInv, Aging, Round
  <2> QED BY <2>1, <2>2
<1>2. CASE Tick
  <2>1. /\ \A m \in Metric : Older(lastSent[m]) \in Int \cup {None}
        /\ \A m \in Metric : Older(raised[m]) \in Nat \cup {None}
    <3>1. \A m \in Metric : /\ lastSent[m] \in Int \cup {None}
                            /\ raised[m] \in Nat \cup {None}
      BY DEF AlertAges
    <3>2. ASSUME NEW age \in Int \cup {None}
          PROVE  Older(age) \in Int \cup {None}
      BY OlderAge
    <3>3. ASSUME NEW age \in Nat \cup {None}
          PROVE  Older(age) \in Nat \cup {None}
      BY DEF Older
    <3> QED BY <3>1, <3>2, <3>3
  <2>2. AlertAges'
    <3>1. lastSent' \in [Metric -> Int \cup {None}]
      BY <1>2, <2>1 DEF Tick
    <3>2. raised' \in [Metric -> Ages]
      BY <1>2, <2>1 DEF Tick
    <3> QED BY <1>2, <3>1, <3>2 DEF AlertAges, Tick
  <2>3. ASSUME NEW m \in Metric PROVE Aging(m)'
    <3>1. /\ lastSent[m] \in Int \cup {None} /\ raised[m] \in Nat \cup {None}
          /\ lastSent'[m] = Older(lastSent[m]) /\ raised'[m] = Older(raised[m])
          /\ moved'[m] = moved[m]
      BY <1>2, <2>3 DEF AlertAges, Tick
    <3>2. Aging(m)
      BY <2>3 DEF ClockInv
    <3>3. lastSent'[m] = None <=> raised'[m] = None
      BY <3>1, <3>2, OlderAge DEF Aging
    <3>4. ASSUME raised[m] # None
          PROVE  /\ raised'[m] =< Old
                 /\ lastSent[m] =< raised[m] => lastSent'[m] =< raised'[m]
                 /\ raised[m] =< lastSent[m] => raised'[m] =< lastSent'[m]
      <4>1. lastSent[m] \in Int /\ raised[m] \in Nat /\ raised[m] =< Old
        BY <3>1, <3>2, <3>4 DEF Aging
      <4> QED BY <3>1, <4>1 DEF Older
    <3>5. raised'[m] # None => raised[m] # None
      BY <3>1, OlderAge
    <3> QED BY <3>1, <3>2, <3>3, <3>4, <3>5 DEF Aging
  <2> QED BY <2>2, <2>3 DEF ClockInv
<1>3. CASE SetClock
  <2>1. PICK way \in {"forward", "back"} :
          /\ lastSent' = [m \in Metric |->
               IF lastSent[m] = None THEN None
               ELSE IF way = "forward" THEN lastSent[m] + Jump ELSE lastSent[m] - Jump]
          /\ moved' = [m \in Metric |-> moved[m] \cup {way}]
          /\ raised' = raised
    BY <1>3 DEF SetClock
  <2>2. AlertAges'
    BY <2>1 DEF AlertAges
  <2>3. ClockInv'
    BY <2>1 DEF AlertAges, ClockInv, Aging
  <2> QED BY <2>2, <2>3
<1>4. CASE RunRestarts \/ UNCHANGED throttleVars \/ \E m \in Message : Admit(m) \/ Hold(m)
  <2>1. UNCHANGED <<lastSent, raised, moved>>
    BY <1>4 DEF RunRestarts, throttleVars, Admit, Hold, alertVars
  <2> QED BY <2>1 DEF AlertAges, ClockInv, Aging
<1> QED BY <1>1, <1>2, <1>3, <1>4 DEF ThrottleNext

\* A metric over its threshold is announced once in a window, however long it stays
\* there, unless the clock was set, and then only in the way it was set.
THEOREM AlertsAlwaysPaced == ThrottleSpec => []AlertsPaced
<1>1. ThrottleInit => AlertAges /\ ClockInv
  BY DEF ThrottleInit, AlertAges, ClockInv, Aging, Ages
<1>2. AlertAges /\ ClockInv => AlertsPaced
  BY ThrottleAssumption DEF AlertAges, ClockInv, Aging, AlertsPaced, Due, Within, Ages
<1> QED BY <1>1, <1>2, ClockInvStep, PTL DEF ThrottleSpec

-----------------------------------------------------------------------------
(* Strangers.                                                              *)

StrangerAges ==
  /\ seen \in [Table -> [Writer -> Ages]]
  /\ told \in [Table -> [Writer -> Ages]]

\* The chats that had an answer of table t less than age ago.
Recent(t, age) == {d \in Writer : Within(told[t][d], age)}

\* An entry is as old as the answer it stands for.
EntryInv ==
  \A t \in Table, c \in Writer :
    seen[t][c] # None => told[t][c] = seen[t][c] /\ seen[t][c] < 2 * Window[t]

\* A chat has lost its entry early only as the table was cleared, and then so many
\* chats had had their answer in the two windows before.
ClearedInv ==
  \A t \in Table, c \in Writer :
    seen[t][c] = None /\ Within(told[t][c], 2 * Window[t])
      => Cardinality(Recent(t, 2 * Window[t] + told[t][c])) >= Limit

StrangerInv == StrangerAges /\ EntryInv /\ ClearedInv

\* A set of chats that holds as many as another that reaches the limit reaches it too.
LEMMA MoreRecent ==
  \A S, T \in SUBSET Writer :
    S \subseteq T /\ Cardinality(S) >= Limit => Cardinality(T) >= Limit
<1> SUFFICES ASSUME NEW S \in SUBSET Writer, NEW T \in SUBSET Writer, S \subseteq T,
                    Cardinality(S) >= Limit
             PROVE  Cardinality(T) >= Limit
  OBVIOUS
<1>1. IsFiniteSet(S) /\ IsFiniteSet(T)
  BY FS_Subset, ThrottleAssumption
<1>2. Cardinality(S) =< Cardinality(T) /\ Cardinality(S) \in Nat /\ Cardinality(T) \in Nat
  BY <1>1, FS_Subset, FS_CardinalityType
<1> QED BY <1>2, ThrottleAssumption

LEMMA StrangerInvStep == StrangerInv /\ [ThrottleNext]_throttleVars => StrangerInv'
<1> SUFFICES ASSUME StrangerInv, [ThrottleNext]_throttleVars PROVE StrangerInv'
  OBVIOUS
<1> USE DEF Ages
<1>1. /\ \A t \in Table : Window[t] \in Nat \ {0} /\ Old >= 3 * Window[t]
      /\ Limit \in Nat /\ Old \in Nat /\ None \notin Int
  BY ThrottleAssumption
<1>2. StrangerAges /\ EntryInv /\ ClearedInv
  BY DEF StrangerInv
<1>3. ASSUME NEW m \in Message, Admit(m) PROVE StrangerInv'
  <2> DEFINE t == TableOf(m)
             c == m.chat
             w == 2 * Window[t]
  <2>1. /\ t \in Table /\ c \in Writer
        /\ seen' = [seen EXCEPT ![t] = Entered(t, c)]
        /\ told' = [told EXCEPT ![t][c] = 0]
    BY <1>3 DEF Admit, Message, TableOf, Table
  <2> HIDE DEF t, c
  <2>2. /\ \A d \in Writer : /\ seen'[t][d] = Entered(t, c)[d]
                             /\ told'[t][d] = IF d = c THEN 0 ELSE told[t][d]
        /\ \A k \in Table : k # t => seen'[k] = seen[k] /\ told'[k] = told[k]
    BY <1>2, <2>1 DEF StrangerAges
  <2>3. Entered(t, c) \in [Writer -> Nat \cup {None}]
    BY <1>2, <2>1 DEF Entered, StrangerAges
  <2>4. StrangerAges'
    <3>1. seen' \in [Table -> [Writer -> Ages]]
      BY <1>2, <2>1, <2>3 DEF StrangerAges
    <3>2. told' \in [Table -> [Writer -> Ages]]
      BY <1>2, <2>1 DEF StrangerAges
    <3> QED BY <3>1, <3>2 DEF StrangerAges
  <2>5. EntryInv'
    BY <1>1, <1>2, <2>1, <2>2 DEF EntryInv, Entered
  <2>6. ASSUME NEW k \in Table, NEW d \in Writer,
               seen'[k][d] = None, Within(told'[k][d], 2 * Window[k])
        PROVE  Cardinality(Recent(k, 2 * Window[k] + told[k][d])') >= Limit
    <3>1. CASE k # t
      <4>1. Recent(k, 2 * Window[k] + told[k][d])' = Recent(k, 2 * Window[k] + told[k][d])
        BY <2>2, <2>6, <3>1 DEF Recent
      <4> QED BY <1>2, <2>2, <2>6, <3>1, <4>1 DEF ClearedInv
    <3>2. CASE k = t
      <4>1. d # c /\ told'[t][d] = told[t][d] /\ told[t][d] \in Nat
        BY <1>1, <1>2, <2>1, <2>2, <2>6, <3>2 DEF Entered, Within, StrangerAges
      <4>2. w + told[t][d] \in Nat /\ w + told[t][d] > 0
        BY <1>1, <2>1, <4>1
      <4>3. CASE seen[t][d] = None
        <5>1. Cardinality(Recent(t, w + told[t][d])) >= Limit
          BY <1>2, <2>1, <2>6, <3>2, <4>1, <4>3 DEF ClearedInv
        <5>2. Recent(t, w + told[t][d]) \subseteq Recent(t, w + told[t][d])'
          BY <1>1, <1>2, <2>1, <2>2, <4>1, <4>2 DEF Recent, Within, StrangerAges
        <5>3. Recent(t, w + told[t][d]) \in SUBSET Writer /\ Recent(t, w + told[t][d])' \in SUBSET Writer
          BY DEF Recent
        <5> QED BY <3>2, <5>1, <5>2, <5>3, MoreRecent
      <4>4. CASE seen[t][d] # None
        <5>1. Cardinality(Kept(t)) >= Limit
          <6>1. ~ (Cardinality(Kept(t)) < Limit)
            BY <2>1, <2>2, <2>6, <3>2, <4>1, <4>4 DEF Entered
          <6>2. Kept(t) \subseteq Writer
            BY DEF Kept
          <6>3. Cardinality(Kept(t)) \in Nat
            BY <6>2, FS_Subset, FS_CardinalityType, ThrottleAssumption
          <6> QED BY <1>1, <6>1, <6>3
        <5>2. Kept(t) \subseteq Recent(t, w + told[t][d])'
          BY <1>1, <1>2, <2>1, <2>2, <4>1, <4>2 DEF Kept, Recent, Within, StrangerAges, EntryInv
        <5>3. Kept(t) \in SUBSET Writer /\ Recent(t, w + told[t][d])' \in SUBSET Writer
          BY DEF Recent, Kept
        <5> QED BY <3>2, <5>1, <5>2, <5>3, MoreRecent
      <4> QED BY <4>3, <4>4
    <3> QED BY <3>1, <3>2
  <2> QED BY <2>4, <2>5, <2>6 DEF StrangerInv, ClearedInv
<1>4. CASE Tick
  <2>1. ASSUME NEW t \in Table, NEW d \in Writer
        PROVE  /\ seen[t][d] \in Nat \cup {None} /\ told[t][d] \in Nat \cup {None}
               /\ seen'[t][d] = Faded(t, seen[t][d]) /\ told'[t][d] = Older(told[t][d])
    BY <1>2, <1>4 DEF StrangerAges, Tick
  <2>2. StrangerAges'
    <3>1. \A t \in Table, d \in Writer : Faded(t, seen[t][d]) \in Nat \cup {None}
      BY <2>1 DEF Faded
    <3>2. \A t \in Table, d \in Writer : Older(told[t][d]) \in Nat \cup {None}
      BY <2>1 DEF Older
    <3>3. seen' \in [Table -> [Writer -> Ages]]
      BY <1>4, <3>1 DEF Tick
    <3>4. told' \in [Table -> [Writer -> Ages]]
      BY <1>4, <3>2 DEF Tick
    <3> QED BY <3>3, <3>4 DEF StrangerAges
  <2>3. EntryInv'
    BY <1>1, <1>2, <2>1 DEF EntryInv, Faded, Older
  <2>4. ASSUME NEW t \in Table, NEW d \in Writer,
               seen'[t][d] = None, Within(told'[t][d], 2 * Window[t])
        PROVE  Cardinality(Recent(t, 2 * Window[t] + told[t][d])') >= Limit
    <3>1. told[t][d] \in Nat /\ told'[t][d] = told[t][d] + 1
      BY <1>1, <2>1, <2>4 DEF Older, Within
    <3>2. seen[t][d] = None
      BY <1>1, <1>2, <2>1, <2>4, <3>1 DEF EntryInv, Faded, Within
    <3>3. Cardinality(Recent(t, 2 * Window[t] + told[t][d])) >= Limit
      BY <1>1, <1>2, <2>4, <3>1, <3>2 DEF ClearedInv, Within
    <3>4. Recent(t, 2 * Window[t] + told[t][d]) \subseteq Recent(t, 2 * Window[t] + told[t][d])'
      <4>1. ASSUME NEW k \in Writer, Within(told[t][k], 2 * Window[t] + told[t][d])
            PROVE  Within(told'[t][k], 2 * Window[t] + told'[t][d])
        BY <1>1, <2>1, <3>1, <4>1 DEF Within, Older
      <4> QED BY <4>1 DEF Recent
    <3>5. /\ Recent(t, 2 * Window[t] + told[t][d]) \in SUBSET Writer
          /\ Recent(t, 2 * Window[t] + told[t][d])' \in SUBSET Writer
      BY DEF Recent
    <3> QED BY <3>3, <3>4, <3>5, MoreRecent
  <2> QED BY <2>2, <2>3, <2>4 DEF StrangerInv, ClearedInv
<1>5. CASE RunRestarts
  BY <1>5 DEF RunRestarts, Empty, StrangerInv, StrangerAges, EntryInv, ClearedInv, Within
<1>6. CASE SetClock \/ UNCHANGED throttleVars \/ (\E found \in Findings : Round(found))
             \/ \E m \in Message : Hold(m)
  <2>1. UNCHANGED <<seen, told>>
    BY <1>6 DEF SetClock, throttleVars, Round, Hold, strangerVars
  <2> QED BY <2>1 DEF StrangerInv, StrangerAges, EntryInv, ClearedInv, Recent
<1> QED BY <1>3, <1>4, <1>5, <1>6 DEF ThrottleNext

\* A stranger who is held up had its answer within the window, and none is answered
\* twice in one unless so many chats were that the table was cleared: for any number
\* of chats, windows and sizes of the table.
THEOREM AnswersAlwaysPaced == ThrottleSpec => []AnswersPaced
<1>1. ThrottleInit => StrangerInv
  BY DEF ThrottleInit, StrangerInv, StrangerAges, EntryInv, ClearedInv, Empty, Ages, Within
<1>2. StrangerInv => AnswersPaced
  <2> SUFFICES ASSUME StrangerInv, NEW t \in Table, NEW c \in Writer
               PROVE  IF Limited(t, c)
                      THEN Within(told[t][c], Window[t])
                      ELSE Within(told[t][c], Window[t]) =>
                             Cardinality({d \in Writer : Within(told[t][d], 3 * Window[t])}) >= Limit
    BY DEF AnswersPaced
  <2>1. /\ seen[t][c] \in Ages /\ told[t][c] \in Ages
        /\ \A d \in Writer : told[t][d] \in Ages
        /\ Window[t] \in Nat \ {0} /\ None \notin Int
    BY ThrottleAssumption DEF StrangerInv, StrangerAges
  <2>2. seen[t][c] # None => told[t][c] = seen[t][c]
    BY DEF StrangerInv, EntryInv
  <2>3. CASE Limited(t, c)
    BY <2>2, <2>3 DEF Limited, Within
  <2>4. ASSUME ~Limited(t, c), Within(told[t][c], Window[t])
        PROVE  Cardinality({d \in Writer : Within(told[t][d], 3 * Window[t])}) >= Limit
    <3> DEFINE R == Recent(t, 2 * Window[t] + told[t][c])
               W3 == {d \in Writer : Within(told[t][d], 3 * Window[t])}
    <3>1. seen[t][c] = None
      BY <2>1, <2>2, <2>4 DEF Limited, Within, Ages
    <3>2. Within(told[t][c], 2 * Window[t])
      BY <2>1, <2>4 DEF Within, Ages
    <3>3. Cardinality(R) >= Limit
      BY <3>1, <3>2 DEF StrangerInv, ClearedInv
    <3>4. R \subseteq W3
      BY <2>1, <2>4 DEF Recent, Within, Ages
    <3>5. R \in SUBSET Writer /\ W3 \in SUBSET Writer
      BY DEF Recent
    <3> QED BY <3>3, <3>4, <3>5, MoreRecent
  <2> QED BY <2>3, <2>4
<1> QED BY <1>1, <1>2, StrangerInvStep, PTL DEF ThrottleSpec
=============================================================================
