-------------------------- MODULE HostCommandsProofs --------------------------
(***************************************************************************)
(* Proofs about HostCommands, for any leaders, commands, addresses,        *)
(* programs and changes around them.                                       *)
(***************************************************************************)
EXTENDS HostCommands, TLAPS

\* The command has been sent to the host.
Open(c) == task[c].stage \in {"waiting", "sending", "ordering"}

\* The request was sent, or will never be.
Used(c, u) == task[c].stage = "done" \/ (Open(c) /\ u =< task[c].url)

Capturing(c, u) == call[c][u].stage \in {"capturing", "reading"}

\* A request is sent once; only an answer to the leader that waits is kept; an /off
\* sends no request for a screenshot.
CallInv(c, u) ==
  /\ ~Used(c, u) => call[c][u].stage = "none"
  /\ call[c][u].stage \in {"yes", "no"} => Open(c) /\ u = task[c].url
  /\ task[c].stage = "ordering" =>
       /\ call[c][u].stage \in {"none", "ordered", "yes", "no"}
       /\ call[c][u].stage = "yes" => c \in accepted

\* What a leader waits for is there, and its own.
LinkInv(c, u) ==
  u = task[c].url =>
    /\ Open(c) => call[c][u].stage # "none" /\ call[c][u].client = task[c].at
    /\ task[c].stage = "sending" => call[c][u].stage = "yes"

\* A program that nobody waits for is an earlier one than the one its request waits for.
LeftInv(c, u) ==
  \A i \in Program :
    <<c, u, i>> \in left =>
      /\ Used(c, u) /\ call[c][u].stage # "asked"
      /\ Capturing(c, u) => i < call[c][u].prog

\* A directory has pictures of its own request only, and of earlier programs than the
\* one that runs; what is about to be read is whole or of another program.
FileInv(c, u) ==
  /\ file[<<c, u>>] \in Picture => file[<<c, u>>].by = <<c, u>>
  /\ Capturing(c, u) => call[c][u].prog >= 1
  /\ call[c][u].stage = "capturing" =>
       (file[<<c, u>>] \in Picture => file[<<c, u>>].prog < call[c][u].prog)
  /\ call[c][u].stage = "reading" =>
       /\ file[<<c, u>>] \in Picture
       /\ file[<<c, u>>].whole \/ file[<<c, u>>].prog # call[c][u].prog

PermitInv(c, u) == permit = <<c, u>> <=> Capturing(c, u)

\* Only an answer has a picture.
PictureInv(c, u) ==
  call[c][u].picture # None =>
    /\ call[c][u].stage = "yes" /\ call[c][u].picture.by = <<c, u>>
    /\ call[c][u].picture.whole \/ call[c][u].picture.prog # call[c][u].prog

RequestInv(c, u) ==
  /\ CallInv(c, u) /\ LinkInv(c, u) /\ LeftInv(c, u)
  /\ FileInv(c, u) /\ PermitInv(c, u) /\ PictureInv(c, u)

TaskInv(c) ==
  /\ Active(c) => task[c].at \in Node
  /\ task[c].stage \in {"none", "begun"} => task[c].url = 1
  /\ task[c].success => c \in accepted

IInv ==
  /\ TypeOK
  /\ \A c \in Command : TaskInv(c)
  /\ \A c \in Command, u \in Url : RequestInv(c, u)

LEMMA InitIInv == Init => IInv
<1> SUFFICES ASSUME Init PROVE IInv
  OBVIOUS
<1> USE HostAssumption, ValueAssumption
<1>1. NoTask \in Task /\ NoCall \in Call
  BY DEF NoTask, Task, Url, NoCall, Call, Program
<1>2. \A c \in Command : task[c] = NoTask /\ \A u \in Url : call[c][u] = NoCall
  BY DEF Init
<1>3. TypeOK
  BY <1>1 DEF Init, TypeOK, Content
<1>4. ASSUME NEW c \in Command PROVE TaskInv(c)
  BY <1>2 DEF TaskInv, Active, NoTask
<1>5. ASSUME NEW c \in Command, NEW u \in Url PROVE RequestInv(c, u)
  <2>1. task[c] = NoTask /\ call[c][u] = NoCall /\ <<c, u>> \in Request
    BY <1>2 DEF Request
  <2>2. permit # <<c, u>> /\ left = {} /\ file[<<c, u>>] \notin Picture
    BY <2>1 DEF Init
  <2> QED BY <2>1, <2>2 DEF RequestInv, CallInv, LinkInv, LeftInv, FileInv, PermitInv, PictureInv,
                           Used, Open, Capturing, NoTask, NoCall
<1> QED BY <1>3, <1>4, <1>5 DEF IInv

-----------------------------------------------------------------------------
(* Types.                                                                  *)

LEMMA Values ==
  /\ NoTask \in Task /\ Done(FALSE) \in Task /\ Done(TRUE) \in Task
  /\ NoCall \in Call /\ Yes \in Call /\ No \in Call
  /\ \A n \in Node : Message(n, "asked") \in Call /\ Message(n, "ordered") \in Call
  /\ 1 \in Url /\ 1 \in Program
<1> USE HostAssumption
<1>1. 1 \in Url /\ 1 \in Program /\ 0 \in 0 .. Programs + 1
  BY DEF Url, Program
<1>2. NoTask \in Task /\ NoCall \in Call
  BY <1>1 DEF NoTask, Task, NoCall, Call
<1> QED BY <1>1, <1>2 DEF Done, Yes, No, Message, Task, Call

LEMMA ReleasedType ==
  ASSUME TypeOK, NEW c \in Command
  PROVE  Released(c) \in [Node -> BOOLEAN]
BY DEF Released, TypeOK

LEMMA AnsweredType ==
  ASSUME TypeOK, NEW c \in Command, NEW u \in Url, NEW k \in Call
  PROVE  Answered(c, u, k) \in [Command -> [Url -> Call]]
<1>1. call[c] \in [Url -> Call] /\ call[c][u] \in Call
  BY DEF TypeOK
<1>2. [k EXCEPT !.client = call[c][u].client] \in Call
  BY <1>1 DEF Call
<1>3. \A m \in Call : [call[c] EXCEPT ![u] = m] \in [Url -> Call]
  BY <1>1
<1> QED BY <1>1, <1>2, <1>3, Values DEF Answered, TypeOK

LEMMA WithoutType ==
  ASSUME TypeOK, NEW c \in Command
  PROVE  Without(c) \in [Url -> Call]
BY Values DEF Without, TypeOK

LEMMA TaskTypes == ASSUME IInv, NEW c \in Command, TaskStep(c) PROVE TypeOK'
<1> USE HostAssumption
<1>1. TypeOK /\ Released(c) \in [Node -> BOOLEAN] /\ task[c] \in Task /\ call[c] \in [Url -> Call]
  BY ReleasedType DEF IInv, TypeOK
<1>2. task[c].url \in Url /\ (Active(c) => task[c].at \in Node)
  BY <1>1 DEF Task, IInv, TaskInv
<1>3. ASSUME NEW t \in Task, task' = [task EXCEPT ![c] = t] PROVE task' \in [Command -> Task]
  BY <1>1, <1>3 DEF TypeOK
<1>4. ASSUME NEW f \in [Url -> Call], call' = [call EXCEPT ![c] = f]
      PROVE  call' \in [Command -> [Url -> Call]]
  BY <1>1, <1>4 DEF TypeOK
<1>5. CASE StandAside(c) \/ Ordered(c) \/ Sends(c)
  <2>1. call' \in [Command -> [Url -> Call]]
    <3>1. [call[c] EXCEPT ![task[c].url] = NoCall] \in [Url -> Call]
      BY <1>1, <1>2, Values
    <3>2. call' = call \/ call' = [call EXCEPT ![c] = [call[c] EXCEPT ![task[c].url] = NoCall]]
      BY <1>5 DEF StandAside, Ordered, Sends, Close
    <3> QED BY <1>1, <1>4, <3>1, <3>2 DEF TypeOK
  <2>2. task' \in [Command -> Task] /\ running' \in [Node -> BOOLEAN]
    BY <1>1, <1>3, <1>5, Values DEF StandAside, Ordered, Sends, Close, Finish
  <2>3. UNCHANGED <<permit, file, left, power, accepted, changes>>
    BY <1>5 DEF StandAside, Ordered, Sends, host
  <2> QED BY <1>1, <2>1, <2>2, <2>3 DEF TypeOK
<1>6. CASE Ask(c)
  <2>1. [task[c] EXCEPT !.stage = "waiting"] \in Task
    BY <1>1 DEF Task
  <2>2. [call[c] EXCEPT ![1] = Message(task[c].at, "asked")] \in [Url -> Call]
    BY <1>1, <1>2, <1>6, Values DEF Ask, Active
  <2>3. task' = [task EXCEPT ![c] = [task[c] EXCEPT !.stage = "waiting"]]
    BY <1>6 DEF Ask
  <2>4. call' = [call EXCEPT ![c] = [call[c] EXCEPT ![1] = Message(task[c].at, "asked")]]
    BY <1>6 DEF Ask
  <2>5. task' \in [Command -> Task] /\ call' \in [Command -> [Url -> Call]]
    BY <1>3, <1>4, <2>1, <2>2, <2>3, <2>4
  <2>6. UNCHANGED <<running, permit, file, left, power, accepted, changes>>
    BY <1>6 DEF Ask, host
  <2> QED BY <1>1, <2>5, <2>6 DEF TypeOK
<1>7. CASE Hears(c)
  <2>1. [task[c] EXCEPT !.stage = "sending"] \in Task
    BY <1>1 DEF Task
  <2>2. task' = [task EXCEPT ![c] = [task[c] EXCEPT !.stage = "sending"]]
    BY <1>7 DEF Hears
  <2>3. UNCHANGED <<running, call, permit, file, left, power, accepted, changes>>
    BY <1>7 DEF Hears, host
  <2> QED BY <1>1, <1>3, <2>1, <2>2, <2>3 DEF TypeOK
<1>8. CASE TryNextUrl(c)
  <2> DEFINE k == Message(task[c].at, IF task[c].stage = "ordering" THEN "ordered" ELSE "asked")
  <2>1. task[c].url + 1 \in Url /\ k \in Call
    BY <1>2, <1>8, Values DEF TryNextUrl, CameToNothing, Waiting, Active, Url
  <2>2. [task[c] EXCEPT !.url = task[c].url + 1] \in Task
    BY <1>1, <2>1 DEF Task
  <2>3. [Without(c) EXCEPT ![task[c].url + 1] = k] \in [Url -> Call]
    BY <1>1, <2>1, WithoutType
  <2>4. task' = [task EXCEPT ![c] = [task[c] EXCEPT !.url = task[c].url + 1]]
    BY <1>8 DEF TryNextUrl
  <2>5. call' = [call EXCEPT ![c] = [Without(c) EXCEPT ![task[c].url + 1] = k]]
    BY <1>8 DEF TryNextUrl
  <2>6. task' \in [Command -> Task] /\ call' \in [Command -> [Url -> Call]]
    BY <1>3, <1>4, <2>2, <2>3, <2>4, <2>5
  <2>7. UNCHANGED <<running, permit, file, left, power, accepted, changes>>
    BY <1>8 DEF TryNextUrl, host
  <2> QED BY <1>1, <2>6, <2>7 DEF TypeOK
<1>9. CASE GiveUp(c)
  <2>1. call' \in [Command -> [Url -> Call]]
    BY <1>1, <1>4, <1>9, WithoutType DEF GiveUp
  <2>2. task' \in [Command -> Task] /\ running' \in [Node -> BOOLEAN]
    BY <1>1, <1>3, <1>9, Values DEF GiveUp, Finish
  <2>3. UNCHANGED <<permit, file, left, power, accepted, changes>>
    BY <1>9 DEF GiveUp, host
  <2> QED BY <1>1, <2>1, <2>2, <2>3 DEF TypeOK
<1> QED BY <1>5, <1>6, <1>7, <1>8, <1>9 DEF TaskStep

LEMMA TakeTypes ==
  ASSUME IInv, NEW c \in Command, NEW n \in Node,
         Begin(c, n) \/ TurnDown(c, n) \/ Order(c, n) \/ Wake(c, n)
  PROVE  TypeOK'
<1>1. TypeOK /\ task[c] \in Task /\ call[c] \in [Url -> Call]
  BY DEF IInv, TypeOK
<1>2. ASSUME NEW t \in Task, task' = [task EXCEPT ![c] = t] PROVE task' \in [Command -> Task]
  BY <1>1, <1>2 DEF TypeOK
<1>3. \A s \in {"begun", "ordering"} : [task[c] EXCEPT !.stage = s, !.at = n] \in Task
  BY <1>1 DEF Task
<1>4. CASE Begin(c, n)
  <2>1. task' = [task EXCEPT ![c] = [task[c] EXCEPT !.stage = "begun", !.at = n]]
    BY <1>4 DEF Begin
  <2>2. UNCHANGED <<call, permit, file, left, power, accepted, changes>>
    BY <1>4 DEF Begin, host
  <2>3. running' \in [Node -> BOOLEAN]
    BY <1>1, <1>4 DEF Begin, TypeOK
  <2> QED BY <1>1, <1>2, <1>3, <2>1, <2>2, <2>3 DEF TypeOK
<1>5. CASE TurnDown(c, n)
  BY <1>1, <1>2, <1>5, Values DEF TurnDown, host, TypeOK
<1>6. CASE Order(c, n)
  <2>1. task' = [task EXCEPT ![c] = [task[c] EXCEPT !.stage = "ordering", !.at = n]]
    BY <1>6 DEF Order
  <2>2. [call[c] EXCEPT ![1] = Message(n, "ordered")] \in [Url -> Call]
    BY <1>1, Values
  <2>3. call' = [call EXCEPT ![c] = [call[c] EXCEPT ![1] = Message(n, "ordered")]]
    BY <1>6 DEF Order
  <2>4. call' \in [Command -> [Url -> Call]]
    BY <1>1, <2>2, <2>3 DEF TypeOK
  <2>5. UNCHANGED <<running, permit, file, left, power, accepted, changes>>
    BY <1>6 DEF Order, host
  <2> QED BY <1>1, <1>2, <1>3, <2>1, <2>4, <2>5 DEF TypeOK
<1>7. CASE Wake(c, n)
  <2>1. task' \in [Command -> Task]
    BY <1>2, <1>7, Values DEF Wake
  <2>2. UNCHANGED <<running, call, permit, file, left, accepted, changes>>
    BY <1>7 DEF Wake
  <2>3. power' \in {"up", "stopping", "down"}
    BY <1>1, <1>7 DEF Wake, TypeOK
  <2> QED BY <1>1, <2>1, <2>2, <2>3 DEF TypeOK
<1> QED BY <1>4, <1>5, <1>6, <1>7

LEMMA CallTypes ==
  ASSUME IInv, NEW c \in Command, NEW u \in Url, CallStep(c, u)
  PROVE  TypeOK'
<1> USE HostAssumption
<1> DEFINE r == <<c, u>>
<1>1. /\ TypeOK /\ call[c] \in [Url -> Call] /\ call[c][u] \in Call
      /\ r \in Request /\ file[r] \in Content
  BY DEF IInv, TypeOK, Request
<1>2. ASSUME NEW k \in Call, call' = [call EXCEPT ![c] = [call[c] EXCEPT ![u] = k]]
      PROVE  call' \in [Command -> [Url -> Call]]
  <2>1. [call[c] EXCEPT ![u] = k] \in [Url -> Call]
    BY <1>1
  <2> QED BY <1>1, <1>2, <2>1 DEF TypeOK
<1>3. ASSUME NEW x \in Content, file' = [file EXCEPT ![r] = x] PROVE file' \in [Request -> Content]
  BY <1>1, <1>3 DEF TypeOK
<1>4. None \in Content /\ Gone \in Content
  BY DEF Content
<1>5. Closed(c, u) => file' \in [Request -> Content] /\ permit' \in Request \cup {None}
  BY <1>3, <1>4 DEF Closed, PathOf
<1>6. ASSUME Runs(c, u)
      PROVE  /\ call[c][u].prog \in Program
             /\ [call[c][u] EXCEPT !.prog = call[c][u].prog + 1] \in Call
             /\ WithLeft(c, u) \subseteq Command \X Url \X Program
             /\ \A w \in BOOLEAN : Drawn(c, u, w) \subseteq [Request -> Content]
  <2>1. call[c][u].prog \in Program
    <3>1. call[c][u].prog \in 0 .. Programs + 1 /\ call[c][u].prog =< Programs
      BY <1>1, <1>6 DEF Call, Runs
    <3>2. call[c][u].prog >= 1
      BY <1>6 DEF Runs, IInv, RequestInv, FileInv, Capturing
    <3> QED BY <3>1, <3>2 DEF Program
  <2>2. [call[c][u] EXCEPT !.prog = call[c][u].prog + 1] \in Call
    BY <1>1, <2>1 DEF Call, Program
  <2>3. WithLeft(c, u) \subseteq Command \X Url \X Program
    BY <1>1, <2>1 DEF WithLeft, TypeOK
  <2>4. \A w \in BOOLEAN : Drawing(c, u, call[c][u].prog, w) \in Content
    BY <1>1, <2>1 DEF Drawing, Content, Picture
  <2>5. \A w \in BOOLEAN : Drawn(c, u, w) \subseteq [Request -> Content]
    BY <1>1, <2>4 DEF Drawn, PathOf, TypeOK
  <2> QED BY <2>1, <2>2, <2>3, <2>5
<1>7. ASSUME NextProgram(c, u), Runs(c, u) PROVE call' \in [Command -> [Url -> Call]]
  <2>1. call' = [call EXCEPT ![c] = [call[c] EXCEPT ![u] =
                   [call[c][u] EXCEPT !.prog = call[c][u].prog + 1]]]
    BY <1>7 DEF NextProgram
  <2> QED BY <1>2, <1>6, <1>7, <2>1
<1>8. \A k \in Call : Answered(c, u, k) \in [Command -> [Url -> Call]]
  BY <1>1, AnsweredType
<1>9. CASE Admit(c, u)
  <2>1. [call[c][u] EXCEPT !.stage = "capturing", !.prog = 1] \in Call
    <3>1. 1 \in 0 .. Programs + 1
      OBVIOUS
    <3> QED BY <1>1, <3>1 DEF Call
  <2>2. call' = [call EXCEPT ![c] = [call[c] EXCEPT ![u] =
                   [call[c][u] EXCEPT !.stage = "capturing", !.prog = 1]]]
    BY <1>9 DEF Admit
  <2>3. call' \in [Command -> [Url -> Call]]
    BY <1>2, <2>1, <2>2
  <2>4. file' \in [Request -> Content]
    BY <1>3, <1>4, <1>9 DEF Admit, PathOf
  <2>5. permit' \in Request \cup {None}
    BY <1>1, <1>9 DEF Admit
  <2>6. UNCHANGED <<running, task, left, power, accepted, changes>>
    BY <1>9 DEF Admit
  <2> QED BY <1>1, <2>3, <2>4, <2>5, <2>6 DEF TypeOK
<1>10. CASE Refuse(c, u)
  BY <1>1, <1>8, <1>10, Values DEF Refuse, host, TypeOK
<1>11. CASE Accept(c, u)
  BY <1>1, <1>8, <1>11, Values DEF Accept, TypeOK
<1>12. CASE Succeeds(c, u)
  <2>1. Runs(c, u) /\ UNCHANGED <<running, task, permit, left, power, accepted, changes>>
    BY <1>12 DEF Succeeds
  <2>2. file' \in [Request -> Content]
    BY <1>6, <1>12 DEF Succeeds
  <2>3. call' \in [Command -> [Url -> Call]]
    <3>1. CASE NextProgram(c, u)
      BY <1>7, <2>1, <3>1
    <3>2. CASE call' = [call EXCEPT ![c][u].stage = "reading"]
      <4>1. call' = [call EXCEPT ![c] = [call[c] EXCEPT ![u] =
                       [call[c][u] EXCEPT !.stage = "reading"]]]
        BY <3>2
      <4>2. [call[c][u] EXCEPT !.stage = "reading"] \in Call
        BY <1>1 DEF Call
      <4> QED BY <1>2, <4>1, <4>2
    <3> QED BY <1>12, <3>1, <3>2 DEF Succeeds
  <2> QED BY <1>1, <2>1, <2>2, <2>3 DEF TypeOK
<1>13. CASE Fails(c, u)
  BY <1>1, <1>6, <1>7, <1>13 DEF Fails, TypeOK
<1>14. CASE TimesOut(c, u)
  BY <1>1, <1>6, <1>7, <1>14 DEF TimesOut, TypeOK
<1>15. CASE Exhausted(c, u)
  BY <1>1, <1>5, <1>8, <1>15, Values DEF Exhausted, TypeOK
<1>16. CASE Reads(c, u)
  <2>1. file[r] \in Picture
    BY <1>16 DEF Reads, IInv, RequestInv, FileInv
  <2>2. [Yes EXCEPT !.picture = file[r], !.prog = call[c][u].prog] \in Call
    BY <1>1, <2>1, Values DEF Call
  <2>3. call' \in [Command -> [Url -> Call]]
    BY <1>8, <1>16, <2>2, Values DEF Reads, PathOf
  <2> QED BY <1>1, <1>5, <1>16, <2>3 DEF Reads, TypeOK
<1>17. CASE Drop(c, u)
  <2>1. call' = [call EXCEPT ![c] = [call[c] EXCEPT ![u] = NoCall]]
    BY <1>17 DEF Drop
  <2>2. call' \in [Command -> [Url -> Call]]
    BY <1>2, <2>1, Values
  <2>3. left' \subseteq Command \X Url \X Program
    <3>1. CASE Runs(c, u)
      BY <1>6, <1>17, <3>1 DEF Drop
    <3>2. CASE ~Runs(c, u)
      BY <1>1, <1>17, <3>2 DEF Drop, WithLeft, TypeOK
    <3> QED BY <3>1, <3>2
  <2>4. file' \in [Request -> Content] /\ permit' \in Request \cup {None}
    BY <1>1, <1>5, <1>17 DEF Drop, TypeOK
  <2>5. UNCHANGED <<running, task, power, accepted, changes>>
    BY <1>17 DEF Drop
  <2> QED BY <1>1, <2>2, <2>3, <2>4, <2>5 DEF TypeOK
<1> QED BY <1>9, <1>10, <1>11, <1>12, <1>13, <1>14, <1>15, <1>16, <1>17 DEF CallStep, CaptureStep

LEMMA ChangeTypes ==
  ASSUME IInv,
         \/ \E x \in left : Lingers(x)
         \/ \E n \in Node : Restart(n) \/ RunRestarts(n)
         \/ GoesDown
         \/ UNCHANGED vars
  PROVE  TypeOK'
<1> USE HostAssumption
<1>1. TypeOK
  BY DEF IInv
<1>2. ASSUME NEW n \in Node, ProcessEnds(n)
      PROVE  /\ running' \in [Node -> BOOLEAN] /\ task' \in [Command -> Task]
             /\ call' \in [Command -> [Url -> Call]]
             /\ permit' \in Request \cup {None} /\ file' \in [Request -> Content]
  <2>1. running' \in [Node -> BOOLEAN] /\ task' \in [Command -> Task]
    BY <1>1, <1>2, Values DEF ProcessEnds, TypeOK
  <2>2. ASSUME NEW c \in Command, NEW u \in Url
        PROVE  call[c][u] \in Call /\ [No EXCEPT !.client = task[c].at] \in Call
    <3>1. call[c][u] \in Call /\ task[c].at \in Node \cup {None}
      BY <1>1 DEF TypeOK, Task
    <3> QED BY <3>1, Values DEF Call
  <2>3. call' \in [Command -> [Url -> Call]]
    BY <1>2, <2>2, Values DEF ProcessEnds
  <2>4. permit' \in Request \cup {None} /\ file' \in [Request -> Content]
    BY <1>1, <1>2 DEF ProcessEnds, TypeOK, Content
  <2> QED BY <2>1, <2>3, <2>4
<1>3. ASSUME NEW x \in left, Lingers(x) PROVE TypeOK'
  <2>1. UNCHANGED <<running, task, call, permit, power, accepted, changes>>
    BY <1>3 DEF Lingers
  <2>2. left' \subseteq Command \X Url \X Program
    BY <1>1, <1>3 DEF Lingers, TypeOK
  <2>3. file' \in [Request -> Content]
    <3>1. x[1] \in Command /\ x[2] \in Url /\ x[3] \in Program
      BY <1>1 DEF TypeOK
    <3>2. <<x[1], x[2]>> \in Request
      BY <3>1 DEF Request
    <3>3. Drawing(x[1], x[2], x[3], FALSE) \in Content
      BY <3>1, <3>2 DEF Drawing, Content, Picture
    <3> QED BY <1>1, <1>3, <3>2, <3>3 DEF Lingers, PathOf, TypeOK
  <2> QED BY <1>1, <2>1, <2>2, <2>3 DEF TypeOK
<1>4. ASSUME NEW n \in Node, Restart(n) PROVE TypeOK'
  <2>1. ProcessEnds(n) /\ changes' \in Nat /\ UNCHANGED <<power, accepted>>
    BY <1>1, <1>4 DEF Restart, Change, TypeOK
  <2>2. ASSUME NEW r \in Request, Runs(r[1], r[2])
        PROVE  <<r[1], r[2], call[r[1]][r[2]].prog>> \in Command \X Url \X Program
    <3>1. r[1] \in Command /\ r[2] \in Url
      BY DEF Request
    <3>2. call[r[1]][r[2]] \in Call
      BY <1>1, <3>1 DEF TypeOK
    <3>3. call[r[1]][r[2]].prog \in 0 .. Programs + 1 /\ call[r[1]][r[2]].prog =< Programs
      BY <2>2, <3>2 DEF Call, Runs
    <3>4. call[r[1]][r[2]].prog >= 1
      BY <2>2, <3>1 DEF Runs, IInv, RequestInv, FileInv, Capturing
    <3> QED BY <3>1, <3>3, <3>4 DEF Program
  <2>3. left' \subseteq Command \X Url \X Program
    <3>1. CASE n = Host
      BY <1>1, <1>4, <2>2, <3>1 DEF Restart, TypeOK
    <3>2. CASE n # Host
      BY <1>1, <1>4, <3>2 DEF Restart, TypeOK
    <3> QED BY <3>1, <3>2
  <2> QED BY <1>1, <1>2, <2>1, <2>3 DEF TypeOK
<1>5. CASE GoesDown
  <2>1. ProcessEnds(Host) /\ power' = "down" /\ left' = {} /\ UNCHANGED <<accepted, changes>>
    BY <1>5 DEF GoesDown
  <2> QED BY <1>1, <1>2, <2>1 DEF TypeOK
<1>6. ASSUME NEW n \in Node, RunRestarts(n) PROVE TypeOK'
  <2>1. \A c \in Command : [task[c] EXCEPT !.orphan = TRUE] \in Task
    BY <1>1 DEF TypeOK, Task
  <2>2. task' \in [Command -> Task] /\ running' \in [Node -> BOOLEAN]
    BY <1>1, <1>6, <2>1 DEF RunRestarts, TypeOK
  <2> QED BY <1>1, <1>6, <2>2 DEF RunRestarts, Change, host, TypeOK
<1>7. CASE UNCHANGED vars
  BY <1>1, <1>7 DEF vars, TypeOK
<1> QED BY <1>3, <1>4, <1>5, <1>6, <1>7

LEMMA NextTypeOK == IInv /\ [Next]_vars => TypeOK'
BY TakeTypes, TaskTypes, CallTypes, ChangeTypes DEF Next

-----------------------------------------------------------------------------
(* Requests and tasks.                                                     *)

\* A request that a step leaves alone.
LEMMA Untouched ==
  ASSUME NEW d, NEW v, RequestInv(d, v),
         task'[d] = task[d], call'[d][v] = call[d][v], file'[<<d, v>>] = file[<<d, v>>],
         accepted \subseteq accepted',
         \A i \in Program : <<d, v, i>> \in left' => <<d, v, i>> \in left,
         permit' = <<d, v>> <=> permit = <<d, v>>
  PROVE  RequestInv(d, v)'
BY DEF RequestInv, CallInv, LinkInv, LeftInv, FileInv, PermitInv, PictureInv, Used, Open, Capturing

\* What a leader's step leaves alone: other commands, and the host.
LEMMA OtherCommands ==
  ASSUME IInv, NEW c \in Command, UNCHANGED <<permit, file, left, accepted>>,
         \A d \in Command \ {c} : task'[d] = task[d] /\ call'[d] = call[d],
         TypeOK', TaskInv(c)', \A v \in Url : RequestInv(c, v)'
  PROVE  IInv'
<1>1. ASSUME NEW d \in Command, d # c PROVE TaskInv(d)' /\ \A v \in Url : RequestInv(d, v)'
  <2>1. TaskInv(d)'
    BY <1>1 DEF IInv, TaskInv, Active
  <2>2. ASSUME NEW v \in Url PROVE RequestInv(d, v)'
    BY <1>1, Untouched DEF IInv
  <2> QED BY <2>1, <2>2
<1> QED BY <1>1 DEF IInv

LEMMA TakeStep ==
  ASSUME IInv, NEW c \in Command, NEW n \in Node,
         Begin(c, n) \/ TurnDown(c, n) \/ Order(c, n) \/ Wake(c, n)
  PROVE  IInv'
<1>1. TypeOK' /\ TypeOK
  BY TakeTypes DEF IInv
<1>2. UNCHANGED <<permit, file, left, accepted>>
  BY DEF Begin, TurnDown, Order, Wake, host
<1>3. \A d \in Command \ {c} : task'[d] = task[d] /\ call'[d] = call[d]
  BY <1>1 DEF Begin, TurnDown, Order, Wake, TypeOK
<1>4. task[c].stage = "none" /\ task[c] \in Task /\ call[c] \in [Url -> Call]
  BY <1>1 DEF Begin, TurnDown, Order, Wake, Takes, TypeOK
<1>5. ASSUME NEW v \in Url
      PROVE  /\ call[c][v].stage = "none" /\ RequestInv(c, v)
             /\ \A i \in Program : <<c, v, i>> \notin left
  BY <1>4 DEF IInv, RequestInv, CallInv, LeftInv, Used, Open
<1>6. TaskInv(c)
  BY DEF IInv
<1>7. CASE Begin(c, n)
  <2>1. task'[c] = [task[c] EXCEPT !.stage = "begun", !.at = n] /\ call' = call
    BY <1>1, <1>7 DEF Begin, TypeOK
  <2>2. /\ task'[c].stage = "begun" /\ task'[c].at = n
        /\ task'[c].success = task[c].success /\ task'[c].url = task[c].url
    BY <1>4, <2>1 DEF Task
  <2>3. TaskInv(c)'
    BY <1>2, <1>4, <1>6, <2>2 DEF TaskInv
  <2>4. ASSUME NEW v \in Url PROVE RequestInv(c, v)'
    BY <1>2, <1>4, <1>5, <2>1, <2>2 DEF RequestInv, CallInv, LinkInv, LeftInv, FileInv, PermitInv,
                                   PictureInv, Used, Open, Capturing
  <2> QED BY <1>1, <1>2, <1>3, <2>3, <2>4, OtherCommands
<1>8. CASE TurnDown(c, n) \/ Wake(c, n)
  <2>1. task'[c] = Done(FALSE) /\ call' = call
    BY <1>1, <1>8 DEF TurnDown, Wake, TypeOK
  <2>2. task'[c].stage = "done" /\ task'[c].success = FALSE
    BY <2>1 DEF Done, NoTask
  <2>3. TaskInv(c)'
    BY <2>2 DEF TaskInv, Active
  <2>4. ASSUME NEW v \in Url PROVE RequestInv(c, v)'
    BY <1>2, <1>5, <2>1, <2>2 DEF RequestInv, CallInv, LinkInv, LeftInv, FileInv, PermitInv,
                                  PictureInv, Used, Open, Capturing
  <2> QED BY <1>1, <1>2, <1>3, <2>3, <2>4, OtherCommands
<1>9. CASE Order(c, n)
  <2>1. /\ task'[c] = [task[c] EXCEPT !.stage = "ordering", !.at = n]
        /\ \A v \in Url : call'[c][v] = IF v = 1 THEN Message(n, "ordered") ELSE call[c][v]
    BY <1>1, <1>9 DEF Order, TypeOK
  <2>2. /\ task'[c].stage = "ordering" /\ task'[c].at = n
        /\ task'[c].success = task[c].success /\ task'[c].url = task[c].url
    BY <1>4, <2>1 DEF Task
  <2>3. TaskInv(c)'
    BY <1>2, <1>6, <2>2 DEF TaskInv
  <2>4. task[c].url = 1
    BY <1>4, <1>6 DEF TaskInv
  <2>5. ASSUME NEW v \in Url, v # 1 PROVE RequestInv(c, v)'
    <3>1. call'[c][v] = call[c][v] /\ v > 1
      BY <2>1, <2>5, HostAssumption DEF Url
    <3> QED BY <1>2, <1>5, <2>2, <2>4, <3>1 DEF RequestInv, CallInv, LinkInv, LeftInv, FileInv,
                                       PermitInv, PictureInv, Used, Open, Capturing
  <2>6. RequestInv(c, 1)'
    <3>1. /\ call'[c][1].stage = "ordered" /\ call'[c][1].client = n
          /\ call'[c][1].picture = None
      BY <2>1, Values DEF Message, NoCall
    <3> QED BY <1>2, <1>5, <2>2, <2>4, <3>1, Values
            DEF RequestInv, CallInv, LinkInv, LeftInv, FileInv, PermitInv, PictureInv, Used, Open,
                Capturing
  <2> QED BY <1>1, <1>2, <1>3, <2>3, <2>5, <2>6, OtherCommands
<1> QED BY <1>7, <1>8, <1>9

LEMMA TaskStepInv == ASSUME IInv, NEW c \in Command, TaskStep(c) PROVE IInv'
<1>1. TypeOK' /\ TypeOK
  BY TaskTypes DEF IInv
<1>2. UNCHANGED <<permit, file, left, accepted>>
  BY DEF TaskStep, StandAside, Ask, Ordered, Hears, Sends, TryNextUrl, GiveUp, host
<1>3. \A d \in Command \ {c} : task'[d] = task[d] /\ call'[d] = call[d]
  BY <1>1 DEF TaskStep, StandAside, Ask, Ordered, Hears, Sends, TryNextUrl, GiveUp, Close, Finish,
              TypeOK
<1>4. task[c] \in Task /\ task[c].url \in Url /\ call[c] \in [Url -> Call]
  BY <1>1 DEF TypeOK, Task
<1>5. TaskInv(c) /\ \A v \in Url : RequestInv(c, v)
  BY DEF IInv
<1> USE DEF RequestInv, CallInv, LinkInv, LeftInv, FileInv, PermitInv, PictureInv, Used, Open,
            Capturing
<1>6. CASE StandAside(c)
  <2>1. task[c].stage = "begun" /\ task'[c] = Done(FALSE) /\ call' = call
    BY <1>1, <1>6 DEF StandAside, Finish, TypeOK
  <2>2. task'[c].stage = "done" /\ task'[c].success = FALSE
    BY <2>1 DEF Done, NoTask
  <2>3. TaskInv(c)'
    BY <2>2 DEF TaskInv, Active
  <2>4. ASSUME NEW v \in Url PROVE RequestInv(c, v)'
    BY <1>2, <1>5, <2>1, <2>2
  <2> QED BY <1>1, <1>2, <1>3, <2>3, <2>4, OtherCommands
<1>7. CASE Ask(c)
  <2>1. /\ task[c].stage = "begun" /\ task'[c] = [task[c] EXCEPT !.stage = "waiting"]
        /\ \A v \in Url : call'[c][v] = IF v = 1 THEN Message(task[c].at, "asked") ELSE call[c][v]
    BY <1>1, <1>7 DEF Ask, TypeOK
  <2>2. /\ task'[c].stage = "waiting" /\ task'[c].at = task[c].at
        /\ task'[c].success = task[c].success /\ task'[c].url = 1 /\ task[c].url = 1
    BY <1>4, <1>5, <2>1 DEF Task, TaskInv
  <2>3. TaskInv(c)'
    BY <1>2, <1>5, <2>1, <2>2 DEF TaskInv, Active
  <2>4. ASSUME NEW v \in Url, v # 1 PROVE RequestInv(c, v)'
    <3>1. call'[c][v] = call[c][v] /\ v > 1
      BY <2>1, <2>4, HostAssumption DEF Url
    <3> QED BY <1>2, <1>5, <2>1, <2>2, <3>1
  <2>5. RequestInv(c, 1)'
    <3>1. /\ call'[c][1].stage = "asked" /\ call'[c][1].client = task[c].at
          /\ call'[c][1].picture = None
      BY <2>1, Values DEF Message, NoCall
    <3>2. RequestInv(c, 1)
      BY <1>5, Values
    <3> QED BY <1>2, <2>1, <2>2, <3>1, <3>2
  <2> QED BY <1>1, <1>2, <1>3, <2>3, <2>4, <2>5, OtherCommands
<1>8. CASE Hears(c)
  <2>1. /\ task[c].stage = "waiting" /\ call[c][task[c].url].stage = "yes" /\ call' = call
        /\ task'[c] = [task[c] EXCEPT !.stage = "sending"]
    BY <1>1, <1>8 DEF Hears, Outcome, TypeOK
  <2>2. /\ task'[c].stage = "sending" /\ task'[c].at = task[c].at
        /\ task'[c].success = task[c].success /\ task'[c].url = task[c].url
    BY <1>4, <2>1 DEF Task
  <2>3. TaskInv(c)'
    BY <1>2, <1>5, <2>1, <2>2 DEF TaskInv, Active
  <2>4. ASSUME NEW v \in Url PROVE RequestInv(c, v)'
    BY <1>2, <1>5, <2>1, <2>2
  <2> QED BY <1>1, <1>2, <1>3, <2>3, <2>4, OtherCommands
<1>9. ASSUME task'[c].stage = "done", Open(c), task'[c].success => c \in accepted,
             \A v \in Url :
               \/ call'[c][v] = NoCall /\ call[c][v].stage \in {"yes", "no"}
               \/ call'[c][v] = call[c][v] /\ call[c][v].stage \notin {"yes", "no"}
      PROVE  IInv'
  <2>1. TaskInv(c)'
    BY <1>2, <1>9 DEF TaskInv, Active
  <2>2. ASSUME NEW v \in Url PROVE RequestInv(c, v)'
    <3>1. RequestInv(c, v)
      BY <1>5
    <3>2. CASE call'[c][v] = call[c][v] /\ call[c][v].stage \notin {"yes", "no"}
      BY <1>2, <1>9, <3>1, <3>2
    <3>3. CASE call'[c][v] = NoCall /\ call[c][v].stage \in {"yes", "no"}
      <4>1. /\ call'[c][v].stage = "none" /\ call'[c][v].picture = None
            /\ ~Capturing(c, v) /\ ~Capturing(c, v)'
        BY <3>3 DEF NoCall
      <4> QED BY <1>2, <1>9, <3>1, <4>1
    <3> QED BY <1>9, <3>2, <3>3
  <2> QED BY <1>1, <1>2, <1>3, <2>1, <2>2, OtherCommands
<1>10. \A v \in Url : v # task[c].url => call[c][v].stage \notin {"yes", "no"}
  BY <1>5
<1>11. CASE Ordered(c) \/ Sends(c)
  <2>1. /\ Open(c) /\ call[c][task[c].url].stage = "yes"
        /\ call' = [call EXCEPT ![c] = [call[c] EXCEPT ![task[c].url] = NoCall]]
    BY <1>4, <1>5, <1>11 DEF Ordered, Sends, Outcome, Close
  <2>2. \E b \in BOOLEAN : /\ task'[c] = Done(b)
                           /\ b => task[c].stage = "ordering"
    BY <1>1, <1>11 DEF Ordered, Sends, Close, Finish, TypeOK
  <2>3. task'[c].stage = "done" /\ (task'[c].success => task[c].stage = "ordering")
    BY <2>2 DEF Done, NoTask
  <2>4. task'[c].success => c \in accepted
    BY <1>4, <1>5, <2>1, <2>3
  <2>5. \A v \in Url : call'[c][v] = IF v = task[c].url THEN NoCall ELSE call[c][v]
    BY <1>1, <1>4, <2>1 DEF TypeOK
  <2> QED BY <1>9, <1>10, <2>1, <2>3, <2>4, <2>5
<1>12. \A v \in Url :
         Without(c)[v] = IF v = task[c].url /\ call[c][v].stage \in {"yes", "no"}
                         THEN NoCall ELSE call[c][v]
  BY <1>4 DEF Without, Outcome
<1>13. CASE GiveUp(c)
  <2>1. Open(c) /\ task'[c] = Done(FALSE)
    BY <1>1, <1>13 DEF GiveUp, CameToNothing, Waiting, Finish, TypeOK
  <2>2. task'[c].stage = "done" /\ task'[c].success = FALSE
    BY <2>1 DEF Done, NoTask
  <2>3. call'[c] = Without(c)
    BY <1>1, <1>13 DEF GiveUp, TypeOK
  <2> QED BY <1>9, <1>10, <1>12, <2>1, <2>2, <2>3
<1>14. CASE TryNextUrl(c)
  <2> DEFINE next == task[c].url + 1
             s == IF task[c].stage = "ordering" THEN "ordered" ELSE "asked"
  <2>1. /\ task[c].stage \in {"waiting", "ordering"} /\ next \in Url
        /\ task'[c] = [task[c] EXCEPT !.url = next]
    BY <1>1, <1>4, <1>14, HostAssumption DEF TryNextUrl, CameToNothing, Waiting, TypeOK, Url
  <2>2. /\ task'[c].stage = task[c].stage /\ task'[c].at = task[c].at
        /\ task'[c].success = task[c].success /\ task'[c].url = next
    BY <1>4, <2>1 DEF Task
  <2>3. \A v \in Url :
          call'[c][v] = IF v = next THEN Message(task[c].at, s) ELSE Without(c)[v]
    BY <1>1, <1>14, <2>1, WithoutType DEF TryNextUrl, TypeOK
  <2>4. TaskInv(c)'
    BY <1>2, <1>5, <2>1, <2>2 DEF TaskInv, Active
  <2>5. ASSUME NEW v \in Url, v = next PROVE RequestInv(c, v)'
    <3>1. /\ call'[c][v].stage = s /\ call'[c][v].client = task[c].at
          /\ call'[c][v].picture = None
      BY <2>1, <2>3, <2>5 DEF Message, NoCall
    <3>2. v > task[c].url /\ v =< task'[c].url
      BY <1>4, <2>1, <2>2, <2>5 DEF Url
    <3>3. ~Used(c, v)
      BY <1>4, <2>1, <3>2 DEF Url
    <3>4. RequestInv(c, v) /\ ~Used(c, v)
      BY <1>5, <3>3
    <3>5. Used(c, v)' /\ Open(c)' /\ ~Capturing(c, v) /\ ~Capturing(c, v)'
      <4>1. Open(c)' /\ Used(c, v)'
        BY <2>1, <2>2, <3>2
      <4>2. call[c][v].stage = "none"
        BY <3>4
      <4> QED BY <3>1, <4>1, <4>2
    <3>6. \A i \in Program : <<c, v, i>> \notin left
      BY <3>4
    <3>7. CallInv(c, v)' /\ LinkInv(c, v)'
      BY <2>1, <2>2, <3>1, <3>5
    <3>8. LeftInv(c, v)' /\ FileInv(c, v)' /\ PermitInv(c, v)' /\ PictureInv(c, v)'
      BY <1>2, <3>1, <3>4, <3>5, <3>6
    <3> QED BY <3>7, <3>8
  <2>6. ASSUME NEW v \in Url, v # next PROVE RequestInv(c, v)'
    <3>1. /\ RequestInv(c, v) /\ (Used(c, v) => Used(c, v)')
          /\ v = task[c].url => call[c][v].stage # "none"
      <4>1. RequestInv(c, v)
        BY <1>5
      <4>2. task[c].url =< task'[c].url
        BY <1>4, <2>1, <2>2 DEF Url
      <4>3. Used(c, v) => Used(c, v)'
        BY <1>4, <2>1, <2>2, <4>2 DEF Url
      <4>4. v = task[c].url => call[c][v].stage # "none"
        BY <2>1, <4>1
      <4> QED BY <4>1, <4>3, <4>4
    <3>2. ~Used(c, v) => ~Used(c, v)'
      BY <1>4, <2>1, <2>2, <2>6 DEF Url
    <3>3. CASE call'[c][v] = call[c][v] /\ call[c][v].stage \notin {"yes", "no"}
      BY <1>2, <2>1, <2>2, <2>6, <3>1, <3>2, <3>3
    <3>4. CASE call'[c][v] = NoCall /\ call[c][v].stage \in {"yes", "no"}
      <4>1. /\ call'[c][v].stage = "none" /\ call'[c][v].picture = None
            /\ ~Capturing(c, v) /\ ~Capturing(c, v)'
        BY <3>4 DEF NoCall
      <4> QED BY <1>2, <2>1, <2>2, <2>6, <3>1, <3>2, <4>1
    <3>5. \/ call'[c][v] = NoCall /\ call[c][v].stage \in {"yes", "no"}
          \/ call'[c][v] = call[c][v] /\ call[c][v].stage \notin {"yes", "no"}
      BY <1>10, <1>12, <2>3, <2>6
    <3> QED BY <3>3, <3>4, <3>5
  <2> QED BY <1>1, <1>2, <1>3, <2>4, <2>5, <2>6, OtherCommands
<1> QED BY <1>6, <1>7, <1>8, <1>11, <1>13, <1>14 DEF TaskStep

\* What a step of a request leaves alone: the tasks and other requests.
LEMMA OtherRequests ==
  ASSUME IInv, NEW c \in Command, NEW u \in Url, task' = task, accepted \subseteq accepted',
         \A d \in Command, v \in Url : d # c \/ v # u =>
           /\ call'[d][v] = call[d][v] /\ file'[<<d, v>>] = file[<<d, v>>]
           /\ \A i \in Program : <<d, v, i>> \in left' => <<d, v, i>> \in left
           /\ permit' = <<d, v>> <=> permit = <<d, v>>,
         TypeOK', RequestInv(c, u)'
  PROVE  IInv'
<1>1. \A d \in Command : TaskInv(d)'
  BY DEF IInv, TaskInv, Active
<1>2. ASSUME NEW d \in Command, NEW v \in Url, d # c \/ v # u PROVE RequestInv(d, v)'
  BY <1>2, Untouched DEF IInv
<1> QED BY <1>1, <1>2 DEF IInv

LEMMA CallStepInv ==
  ASSUME IInv, NEW c \in Command, NEW u \in Url, CallStep(c, u)
  PROVE  IInv'
<1> DEFINE r == <<c, u>>
           k == call[c][u]
<1> USE ValueAssumption
<1>1. TypeOK' /\ TypeOK
  BY CallTypes DEF IInv
<1>2. /\ task[c] \in Task /\ call[c] \in [Url -> Call] /\ k \in Call /\ r \in Request
      /\ file \in [Request -> Content] /\ None # r
  BY <1>1 DEF TypeOK, Request
<1>3. task' = task /\ accepted \subseteq accepted'
  BY DEF CallStep, CaptureStep, Admit, Refuse, Accept, Succeeds, Fails, TimesOut, Exhausted, Reads,
         Drop, host
<1>4. k.stage \in AtHost
  BY DEF CallStep, CaptureStep, Admit, Refuse, Accept, Succeeds, Fails, TimesOut, Exhausted, Reads,
         Drop, Arrived, Arrives, Runs, Abandoned, AtHost
<1>5. RequestInv(c, u) /\ Used(c, u) /\ Used(c, u)'
  BY <1>3, <1>4 DEF IInv, RequestInv, CallInv, AtHost, Used, Open
<1>6. \A d \in Command, v \in Url : d # c \/ v # u => <<d, v>> # r /\ <<d, v>> \in Request
  BY DEF Request
<1>7. ASSUME NEW x, call' = [call EXCEPT ![c][u] = x]
      PROVE  /\ call'[c][u] = x
             /\ \A d \in Command, v \in Url : d # c \/ v # u => call'[d][v] = call[d][v]
  BY <1>1, <1>7 DEF TypeOK
<1>8. ASSUME NEW x, file' = [file EXCEPT ![r] = x]
      PROVE  /\ file'[r] = x
             /\ \A d \in Command, v \in Url : d # c \/ v # u => file'[<<d, v>>] = file[<<d, v>>]
  BY <1>2, <1>6, <1>8
<1>9. \A d \in Command, v \in Url : d # c \/ v # u =>
        \A i \in Program : <<d, v, i>> \in WithLeft(c, u) => <<d, v, i>> \in left
  BY DEF WithLeft
<1>10. Closed(c, u) =>
         /\ file' = [file EXCEPT ![r] = Gone] /\ file'[r] \notin Picture /\ permit' = None
         /\ \A d \in Command, v \in Url : d # c \/ v # u => file'[<<d, v>>] = file[<<d, v>>]
  BY <1>8 DEF Closed, PathOf
<1>11. \A d \in Command, v \in Url : (d # c \/ v # u) /\ (permit = None \/ Capturing(c, u)) =>
         permit # <<d, v>>
  BY <1>5, <1>6 DEF RequestInv, PermitInv, Request
<1>12. ASSUME call'[c][u].stage \in {"none", "yes", "no"},
              Awaited(c, u) => call'[c][u].stage # "none" /\ call'[c][u].client = k.client,
              ~Awaited(c, u) => call'[c][u].stage = "none",
              task[c].stage = "ordering" /\ call'[c][u].stage = "yes" => c \in accepted',
              file'[r] \in Picture => file'[r].by = r,
              permit' # r, PictureInv(c, u)'
       PROVE  RequestInv(c, u)'
  <2>1. ~Capturing(c, u)'
    BY <1>12 DEF Capturing
  <2>2. CallInv(c, u)' /\ LinkInv(c, u)'
    BY <1>3, <1>4, <1>5, <1>12 DEF RequestInv, CallInv, LinkInv, Awaited, Waiting, Open, AtHost
  <2>3. LeftInv(c, u)' /\ FileInv(c, u)' /\ PermitInv(c, u)'
    BY <1>5, <1>12, <2>1 DEF LeftInv, FileInv, PermitInv, Capturing
  <2> QED BY <1>12, <2>2, <2>3 DEF RequestInv
<1>13. ASSUME NEW m \in Call, m.stage \in {"yes", "no"}, call' = Answered(c, u, m)
       PROVE  /\ \A d \in Command, v \in Url : d # c \/ v # u => call'[d][v] = call[d][v]
              /\ Awaited(c, u) =>
                   /\ call'[c][u].stage = m.stage /\ call'[c][u].client = k.client
                   /\ call'[c][u].picture = m.picture /\ call'[c][u].prog = m.prog
              /\ ~Awaited(c, u) => call'[c][u] = NoCall
  <2>1. call' = [call EXCEPT ![c][u] = IF Awaited(c, u)
                                       THEN [m EXCEPT !.client = k.client] ELSE NoCall]
    BY <1>13 DEF Answered
  <2>2. /\ call'[c][u] = IF Awaited(c, u) THEN [m EXCEPT !.client = k.client] ELSE NoCall
        /\ \A d \in Command, v \in Url : d # c \/ v # u => call'[d][v] = call[d][v]
    BY <1>7, <2>1
  <2> QED BY <1>13, <2>2 DEF Call
<1>14. ASSUME Runs(c, u), NEW w \in BOOLEAN, file' \in Drawn(c, u, w), permit' = permit,
              \A i \in Program : <<c, u, i>> \in left' => <<c, u, i>> \in left \/ i = k.prog,
              NextProgram(c, u)
       PROVE  RequestInv(c, u)'
  <2>1. /\ call'[c][u] = [k EXCEPT !.prog = k.prog + 1] /\ k.stage = "capturing"
        /\ k.prog \in Int
    <3>1. call' = [call EXCEPT ![c][u] = [k EXCEPT !.prog = k.prog + 1]]
      BY <1>14 DEF NextProgram
    <3>2. call'[c][u] = [k EXCEPT !.prog = k.prog + 1]
      BY <1>7, <3>1
    <3> QED BY <1>2, <1>14, <3>2 DEF Runs, Call
  <2>2. /\ call'[c][u].stage = "capturing" /\ call'[c][u].client = k.client
        /\ call'[c][u].picture = k.picture /\ call'[c][u].prog = k.prog + 1
    BY <1>2, <2>1 DEF Call
  <2>3. file'[r] = file[r] \/ file'[r] = Drawing(c, u, k.prog, w)
    BY <1>2, <1>14 DEF Drawn, PathOf
  <2>4. file'[r] \in Picture => file'[r].by = r /\ file'[r].prog < k.prog + 1
    <3>1. CASE file'[r] = file[r]
      <4>1. file[r] \in Picture => file[r].prog \in Int
        BY DEF Picture, Program
      <4> QED BY <1>5, <2>1, <3>1, <4>1 DEF RequestInv, FileInv
    <3>2. CASE file'[r] = Drawing(c, u, k.prog, w)
      BY <2>1, <3>2 DEF Drawing
    <3> QED BY <2>3, <3>1, <3>2
  <2>5. FileInv(c, u)'
    BY <1>5, <2>1, <2>2, <2>4 DEF RequestInv, FileInv, Capturing
  <2>6. LeftInv(c, u)'
    <3>1. \A i \in Program : i \in Int
      BY DEF Program
    <3> QED BY <1>5, <1>14, <2>1, <2>2, <3>1 DEF RequestInv, LeftInv, Capturing
  <2>7. CallInv(c, u)' /\ LinkInv(c, u)'
    BY <1>3, <1>5, <2>1, <2>2 DEF RequestInv, CallInv, LinkInv, Open
  <2>8. PermitInv(c, u)'
    BY <1>5, <1>14, <2>1, <2>2 DEF RequestInv, PermitInv, Capturing
  <2>9. PictureInv(c, u)'
    <3>1. k.picture = None
      BY <1>5, <2>1 DEF RequestInv, PictureInv
    <3> QED BY <2>2, <3>1 DEF PictureInv
  <2> QED BY <2>5, <2>6, <2>7, <2>8, <2>9 DEF RequestInv
<1>15. CASE Admit(c, u)
  <2>1. k.stage = "asked" /\ permit' = r /\ permit = None /\ left' = left
    BY <1>15 DEF Admit
  <2>2. call' = [call EXCEPT ![c][u] = [k EXCEPT !.stage = "capturing", !.prog = 1]]
    BY <1>15 DEF Admit
  <2>3. /\ call'[c][u].stage = "capturing" /\ call'[c][u].prog = 1
        /\ call'[c][u].client = k.client /\ call'[c][u].picture = k.picture
    <3>1. call'[c][u] = [k EXCEPT !.stage = "capturing", !.prog = 1]
      BY <1>7, <2>2
    <3> QED BY <1>2, <3>1 DEF Call
  <2>4. file'[r] = None
    BY <1>8, <1>15 DEF Admit, PathOf
  <2>5. task[c].stage # "ordering" /\ \A i \in Program : <<c, u, i>> \notin left
    BY <1>5, <2>1 DEF RequestInv, CallInv, LeftInv
  <2>6. CallInv(c, u)' /\ LinkInv(c, u)'
    BY <1>3, <1>5, <2>1, <2>3, <2>5 DEF RequestInv, CallInv, LinkInv, Open
  <2>7. LeftInv(c, u)' /\ FileInv(c, u)' /\ PermitInv(c, u)' /\ PictureInv(c, u)'
    BY <1>5, <2>1, <2>3, <2>4, <2>5
    DEF RequestInv, LeftInv, FileInv, PermitInv, PictureInv, Capturing
  <2>8. \A d \in Command, v \in Url : d # c \/ v # u =>
          /\ call'[d][v] = call[d][v] /\ file'[<<d, v>>] = file[<<d, v>>]
          /\ permit' # <<d, v>> /\ permit # <<d, v>>
    <3>1. file' = [file EXCEPT ![r] = None]
      BY <1>15 DEF Admit, PathOf
    <3>2. \A d \in Command, v \in Url : d # c \/ v # u =>
            call'[d][v] = call[d][v] /\ file'[<<d, v>>] = file[<<d, v>>]
      BY <1>7, <1>8, <2>2, <3>1
    <3>3. \A d \in Command, v \in Url : d # c \/ v # u => permit' # <<d, v>> /\ permit # <<d, v>>
      BY <1>6, <1>11, <2>1
    <3> QED BY <3>2, <3>3
  <2> QED BY <1>1, <1>3, <2>1, <2>6, <2>7, <2>8, OtherRequests DEF RequestInv
<1>16. CASE Refuse(c, u)
  <2>1. Arrives(c, u) /\ call' = Answered(c, u, No) /\ UNCHANGED <<permit, file, left>>
    BY <1>16 DEF Refuse, Arrived, host
  <2>2. No \in Call /\ No.stage = "no" /\ No.picture = None /\ NoCall.picture = None
        /\ NoCall.stage = "none"
    BY Values DEF No, NoCall
  <2>3. permit # r
    BY <1>5, <2>1 DEF RequestInv, PermitInv, Capturing, Arrives
  <2>4. RequestInv(c, u)'
    BY <1>5, <1>12, <1>13, <2>1, <2>2, <2>3 DEF RequestInv, FileInv, PictureInv
  <2> QED BY <1>1, <1>3, <1>13, <2>1, <2>2, <2>4, OtherRequests
<1>17. CASE Accept(c, u)
  <2>1. /\ Arrives(c, u) /\ call' = Answered(c, u, Yes) /\ UNCHANGED <<permit, file, left>>
        /\ c \in accepted'
    BY <1>17 DEF Accept, Arrived
  <2>2. Yes \in Call /\ Yes.stage = "yes" /\ Yes.picture = None /\ NoCall.picture = None
        /\ NoCall.stage = "none"
    BY Values DEF Yes, NoCall
  <2>3. permit # r
    BY <1>5, <2>1 DEF RequestInv, PermitInv, Capturing, Arrives
  <2>4. RequestInv(c, u)'
    BY <1>5, <1>12, <1>13, <2>1, <2>2, <2>3 DEF RequestInv, FileInv, PictureInv
  <2> QED BY <1>1, <1>3, <1>13, <2>1, <2>2, <2>4, OtherRequests
<1>18. CASE Succeeds(c, u) /\ file'[r] \in Picture
  <2>1. /\ Runs(c, u) /\ file' \in Drawn(c, u, TRUE) /\ UNCHANGED <<permit, left>>
        /\ call' = [call EXCEPT ![c][u].stage = "reading"] /\ k.stage = "capturing"
    BY <1>18 DEF Succeeds, PathOf, Runs
  <2>2. call' = [call EXCEPT ![c][u] = [k EXCEPT !.stage = "reading"]]
    BY <2>1
  <2>3. /\ call'[c][u].stage = "reading" /\ call'[c][u].prog = k.prog
        /\ call'[c][u].client = k.client /\ call'[c][u].picture = k.picture
        /\ \A d \in Command, v \in Url : d # c \/ v # u => call'[d][v] = call[d][v]
    <3>1. /\ call'[c][u] = [k EXCEPT !.stage = "reading"]
          /\ \A d \in Command, v \in Url : d # c \/ v # u => call'[d][v] = call[d][v]
      BY <1>7, <2>2
    <3> QED BY <1>2, <3>1 DEF Call
  <2>4. /\ file'[r] = file[r] \/ file'[r] = Drawing(c, u, k.prog, TRUE)
        /\ \A d \in Command, v \in Url : d # c \/ v # u => file'[<<d, v>>] = file[<<d, v>>]
    BY <1>2, <1>8, <2>1 DEF Drawn, PathOf
  <2>5. file'[r].by = r /\ (file'[r].whole \/ file'[r].prog # k.prog)
    <3>1. CASE file'[r] = file[r]
      <4>1. file[r].by = r /\ file[r].prog < k.prog
        BY <1>5, <1>18, <2>1, <3>1 DEF RequestInv, FileInv
      <4>2. file[r].prog \in Int /\ k.prog \in Int
        BY <1>2, <1>18, <3>1 DEF Picture, Program, Call
      <4> QED BY <3>1, <4>1, <4>2
    <3>2. CASE file'[r] = Drawing(c, u, k.prog, TRUE)
      BY <3>2 DEF Drawing
    <3> QED BY <2>4, <3>1, <3>2
  <2>6. CallInv(c, u)' /\ LinkInv(c, u)'
    BY <1>3, <1>5, <2>1, <2>3 DEF RequestInv, CallInv, LinkInv, Open
  <2>7. LeftInv(c, u)' /\ FileInv(c, u)' /\ PermitInv(c, u)' /\ PictureInv(c, u)'
    BY <1>5, <1>18, <2>1, <2>3, <2>5
    DEF RequestInv, LeftInv, FileInv, PermitInv, PictureInv, Capturing
  <2> QED BY <1>1, <1>3, <2>1, <2>3, <2>4, <2>6, <2>7, OtherRequests DEF RequestInv
<1>19. CASE \/ Succeeds(c, u) /\ file'[r] \notin Picture
            \/ Fails(c, u) \/ TimesOut(c, u)
  <2>1. Runs(c, u) /\ NextProgram(c, u) /\ permit' = permit /\ k.stage = "capturing"
    BY <1>19 DEF Succeeds, Fails, TimesOut, PathOf, Runs
  <2>2. PICK w \in BOOLEAN : file' \in Drawn(c, u, w)
    BY <1>19 DEF Succeeds, Fails, TimesOut
  <2>3. left' = left \/ left' = WithLeft(c, u)
    BY <1>19 DEF Succeeds, Fails, TimesOut
  <2>4. \A i \in Program : <<c, u, i>> \in left' => <<c, u, i>> \in left \/ i = k.prog
    BY <2>3 DEF WithLeft
  <2>5. RequestInv(c, u)'
    BY <1>14, <2>1, <2>2, <2>4
  <2>6. \A d \in Command, v \in Url : d # c \/ v # u => file'[<<d, v>>] = file[<<d, v>>]
    BY <1>8, <2>2 DEF Drawn, PathOf
  <2>7. \A d \in Command, v \in Url : d # c \/ v # u => call'[d][v] = call[d][v]
    BY <1>7, <2>1 DEF NextProgram
  <2> QED BY <1>1, <1>3, <1>9, <2>1, <2>3, <2>5, <2>6, <2>7, OtherRequests
<1>20. CASE Exhausted(c, u)
  <2>1. Closed(c, u) /\ call' = Answered(c, u, No) /\ left' = left /\ Capturing(c, u)
    BY <1>20 DEF Exhausted, Capturing
  <2>2. No \in Call /\ No.stage = "no" /\ No.picture = None /\ NoCall.picture = None
        /\ NoCall.stage = "none"
    BY Values DEF No, NoCall
  <2>3. RequestInv(c, u)'
    BY <1>2, <1>10, <1>12, <1>13, <2>1, <2>2 DEF PictureInv
  <2>4. \A d \in Command, v \in Url : d # c \/ v # u => permit # <<d, v>> /\ permit' # <<d, v>>
    BY <1>6, <1>10, <1>11, <2>1
  <2> QED BY <1>1, <1>3, <1>10, <1>13, <2>1, <2>2, <2>3, <2>4, OtherRequests
<1>21. CASE Reads(c, u)
  <2> DEFINE m == [Yes EXCEPT !.picture = file[r], !.prog = k.prog]
  <2>1. /\ Closed(c, u) /\ left' = left /\ Capturing(c, u) /\ k.stage = "reading"
        /\ call' = Answered(c, u, m) \/ call' = Answered(c, u, No)
    BY <1>21 DEF Reads, Capturing, PathOf
  <2>2. /\ No \in Call /\ No.stage = "no" /\ No.picture = None /\ NoCall.picture = None
        /\ NoCall.stage = "none"
    BY Values DEF No, NoCall
  <2>3. /\ file[r] \in Picture /\ file[r].by = r
        /\ file[r].whole \/ file[r].prog # k.prog
        /\ task[c].stage # "ordering"
    BY <1>5, <2>1 DEF RequestInv, FileInv, CallInv
  <2>4. m \in Call /\ m.stage = "yes" /\ m.picture = file[r] /\ m.prog = k.prog
    <3>1. Yes.stage = "yes"
      BY DEF Yes, NoCall
    <3> QED BY <1>2, <2>3, <3>1, Values DEF Call
  <2>5. RequestInv(c, u)'
    <3>1. CASE call' = Answered(c, u, m)
      <4>1. /\ Awaited(c, u) =>
                 /\ call'[c][u].stage = "yes" /\ call'[c][u].client = k.client
                 /\ call'[c][u].picture = file[r] /\ call'[c][u].prog = k.prog
            /\ ~Awaited(c, u) => call'[c][u] = NoCall
        BY <1>13, <2>4, <3>1
      <4>2. PictureInv(c, u)'
        BY <2>2, <2>3, <4>1 DEF PictureInv
      <4>3. permit' # r /\ file'[r] \notin Picture
        BY <1>2, <1>10, <2>1
      <4> QED BY <1>12, <2>2, <2>3, <4>1, <4>2, <4>3
    <3>2. CASE call' = Answered(c, u, No)
      BY <1>2, <1>10, <1>12, <1>13, <2>1, <2>2, <3>2 DEF PictureInv
    <3> QED BY <2>1, <3>1, <3>2
  <2>6. \A d \in Command, v \in Url : d # c \/ v # u => call'[d][v] = call[d][v]
    BY <1>13, <2>1, <2>2, <2>4
  <2>7. \A d \in Command, v \in Url : d # c \/ v # u => permit # <<d, v>> /\ permit' # <<d, v>>
    BY <1>6, <1>10, <1>11, <2>1
  <2> QED BY <1>1, <1>3, <1>10, <2>1, <2>5, <2>6, <2>7, OtherRequests
<1>22. CASE Drop(c, u)
  <2>1. /\ call' = [call EXCEPT ![c][u] = NoCall] /\ left' = WithLeft(c, u)
        /\ ~Awaited(c, u)
        /\ IF Arrives(c, u) THEN UNCHANGED <<file, permit>> ELSE Closed(c, u)
    BY <1>22 DEF Drop, Abandoned
  <2>2. /\ call'[c][u] = NoCall
        /\ \A d \in Command, v \in Url : d # c \/ v # u => call'[d][v] = call[d][v]
    BY <1>7, <2>1
  <2>3. NoCall.stage = "none" /\ NoCall.picture = None
    BY DEF NoCall
  <2>4. CASE Arrives(c, u)
    <3>1. permit # r /\ UNCHANGED <<file, permit>>
      BY <1>5, <2>1, <2>4 DEF RequestInv, PermitInv, Capturing, Arrives
    <3>2. RequestInv(c, u)'
      BY <1>5, <1>12, <2>1, <2>2, <2>3, <3>1 DEF RequestInv, FileInv, PictureInv
    <3> QED BY <1>1, <1>3, <1>9, <2>1, <2>2, <3>1, <3>2, OtherRequests
  <2>5. CASE ~Arrives(c, u)
    <3>1. Closed(c, u) /\ Capturing(c, u)
      BY <1>4, <2>1, <2>5 DEF Arrives, AtHost, Capturing
    <3>2. RequestInv(c, u)'
      BY <1>2, <1>10, <1>12, <2>1, <2>2, <2>3, <3>1 DEF PictureInv
    <3>3. \A d \in Command, v \in Url : d # c \/ v # u => permit # <<d, v>> /\ permit' # <<d, v>>
      BY <1>6, <1>10, <1>11, <3>1
    <3> QED BY <1>1, <1>3, <1>9, <1>10, <2>1, <2>2, <3>1, <3>2, <3>3, OtherRequests
  <2> QED BY <2>4, <2>5
<1> QED BY <1>15, <1>16, <1>17, <1>18, <1>19, <1>20, <1>21, <1>22 DEF CallStep, CaptureStep

-----------------------------------------------------------------------------
(* What changes around them.                                               *)

LEMMA LingersInv == ASSUME IInv, NEW x \in left, Lingers(x) PROVE IInv'
<1>1. TypeOK' /\ TypeOK
  BY ChangeTypes DEF IInv
<1>2. UNCHANGED <<task, call, permit, accepted>> /\ left' \subseteq left
  BY DEF Lingers
<1>3. \A c \in Command : TaskInv(c)'
  BY <1>2 DEF IInv, TaskInv, Active
<1>4. ASSUME NEW c \in Command, NEW u \in Url PROVE RequestInv(c, u)'
  <2>1. RequestInv(c, u) /\ <<c, u>> \in Request
    BY DEF IInv, Request
  <2>2. CASE file'[<<c, u>>] = file[<<c, u>>]
    BY <1>2, <2>1, <2>2, Untouched
  <2>3. CASE file'[<<c, u>>] # file[<<c, u>>]
    <3>1. x[1] \in Command /\ x[2] \in Url /\ x[3] \in Program /\ x = <<x[1], x[2], x[3]>>
      BY <1>1 DEF TypeOK
    <3>2. file' = [file EXCEPT ![<<x[1], x[2]>>] = Drawing(x[1], x[2], x[3], FALSE)]
      BY <2>3 DEF Lingers, PathOf
    <3>3. x[1] = c /\ x[2] = u /\ file'[<<c, u>>] = Drawing(c, u, x[3], FALSE)
      BY <1>1, <2>1, <2>3, <3>2 DEF TypeOK
    <3>4. <<c, u, x[3]>> \in left /\ (Capturing(c, u) => x[3] < call[c][u].prog)
      BY <2>1, <3>1, <3>3 DEF RequestInv, LeftInv
    <3>5. file'[<<c, u>>] \in Picture /\ file'[<<c, u>>].by = <<c, u>> /\ file'[<<c, u>>].prog = x[3]
      BY <2>1, <3>1, <3>3 DEF Drawing, Picture
    <3>6. x[3] \in Int /\ call[c][u].prog \in Int
      BY <1>1, <3>1 DEF Program, TypeOK, Call
    <3>7. FileInv(c, u)'
      BY <1>2, <2>1, <3>4, <3>5, <3>6 DEF RequestInv, FileInv, Capturing
    <3> QED BY <1>2, <2>1, <3>7 DEF RequestInv, CallInv, LinkInv, LeftInv, PermitInv, PictureInv,
                                    Used, Open, Capturing
  <2> QED BY <2>2, <2>3
<1> QED BY <1>1, <1>3, <1>4 DEF IInv

\* What the end of a process makes of the tasks and requests, if the programs it has
\* left are among those that ran.
LEMMA ProcessEndsInv ==
  ASSUME IInv, TypeOK', NEW n \in Node, ProcessEnds(n), accepted' = accepted,
         n # Host => left' \subseteq left,
         \A c \in Command, u \in Url, i \in Program :
           <<c, u, i>> \in left' => <<c, u, i>> \in left \/ Runs(c, u)
  PROVE  IInv'
<1>1. TypeOK /\ Host \in Node
  BY HostAssumption DEF IInv
<1>2. ASSUME NEW c \in Command
      PROVE  /\ Active(c) /\ task[c].at = n => task'[c].stage = "done" /\ ~task'[c].success
             /\ ~(Active(c) /\ task[c].at = n) => task'[c] = task[c]
  BY DEF ProcessEnds, Done, NoTask
<1>3. \A c \in Command : TaskInv(c)'
  BY <1>2 DEF IInv, TaskInv, Active
<1>4. ASSUME NEW c \in Command, NEW u \in Url PROVE RequestInv(c, u)'
  <2> DEFINE k == call[c][u]
  <2>1. RequestInv(c, u) /\ TaskInv(c) /\ task[c] \in Task /\ k \in Call /\ <<c, u>> \in Request
    BY <1>1 DEF IInv, TypeOK, Request
  <2>2. /\ Open(c) => Active(c)
        /\ Used(c, u) => Used(c, u)'
        /\ Open(c)' => task'[c] = task[c] /\ task[c].at # n
        /\ ~Used(c, u) /\ k.stage # "none" => FALSE
    BY <1>2, <2>1 DEF Used, Open, Active, RequestInv, CallInv
  <2>3. call'[c][u] = IF k.stage \in AtHost
                      THEN IF n # Host THEN k
                           ELSE IF Awaited(c, u) /\ Remote(c)
                                THEN [No EXCEPT !.client = task[c].at] ELSE NoCall
                      ELSE IF k.client = n THEN NoCall ELSE k
    BY DEF ProcessEnds
  <2>4. CASE n = Host
    <3>1. permit' = None /\ file' = [q \in Request |-> Gone]
      BY <2>4 DEF ProcessEnds
    <3>2. permit' # <<c, u>> /\ file'[<<c, u>>] \notin Picture
      BY <2>1, <3>1, ValueAssumption
    <3>3. ~Capturing(c, u)'
      BY <2>3, <2>4 DEF Capturing, AtHost, No, NoCall
    <3>4. /\ k.stage \in AtHost => call'[c][u].stage \in {"none", "no"}
          /\ k.stage \notin AtHost /\ k.client = Host => call'[c][u].stage = "none"
          /\ k.stage \notin AtHost /\ k.client # Host => call'[c][u] = k
      BY <2>3, <2>4 DEF No, NoCall
    <3>5. k.stage \in AtHost /\ Awaited(c, u) /\ Remote(c) =>
            call'[c][u].stage = "no" /\ call'[c][u].client = task[c].at
      BY <2>3, <2>4, Values DEF No, Call
    <3>6. k.stage \in AtHost /\ ~(Awaited(c, u) /\ Remote(c)) => call'[c][u].stage = "none"
      BY <2>3, <2>4 DEF NoCall
    <3>7. Awaited(c, u) => Open(c) /\ u = task[c].url
      BY DEF Awaited, Waiting, Open
    <3>8. CallInv(c, u)'
      <4>1. ~Used(c, u)' => call'[c][u].stage = "none"
        BY <2>2, <3>4 DEF AtHost
      <4>2. call'[c][u].stage \in {"yes", "no"} => Open(c)' /\ u = task'[c].url
        <5>1. CASE k.stage \in AtHost
          BY <1>2, <2>4, <3>5, <3>6, <3>7, <5>1 DEF Remote, Open
        <5>2. CASE k.stage \notin AtHost
          BY <1>2, <2>1, <2>4, <3>4, <5>2 DEF RequestInv, CallInv, LinkInv, Open
        <5> QED BY <5>1, <5>2
      <4>3. task'[c].stage = "ordering" =>
              /\ call'[c][u].stage \in {"none", "ordered", "yes", "no"}
              /\ call'[c][u].stage = "yes" => c \in accepted'
        BY <2>1, <2>2, <3>4 DEF RequestInv, CallInv, Open
      <4> QED BY <4>1, <4>2, <4>3 DEF CallInv
    <3>9. LinkInv(c, u)'
      <4> SUFFICES ASSUME u = task'[c].url, Open(c)'
                   PROVE  /\ call'[c][u].stage # "none" /\ call'[c][u].client = task'[c].at
                          /\ task'[c].stage = "sending" => call'[c][u].stage = "yes"
        BY DEF LinkInv, Open
      <4>1. task'[c] = task[c] /\ task[c].at # Host /\ Open(c)
        BY <2>2, <2>4 DEF Open
      <4>2. k.stage # "none" /\ k.client = task[c].at /\ (task[c].stage = "sending" => k.stage = "yes")
        BY <2>1, <4>1 DEF RequestInv, LinkInv
      <4>3. CASE k.stage \in AtHost
        <5>1. Awaited(c, u) /\ Remote(c) /\ task[c].stage # "sending"
          BY <4>1, <4>2, <4>3 DEF Awaited, Waiting, Remote, Open, AtHost
        <5> QED BY <3>5, <4>1, <4>3, <5>1
      <4>4. CASE k.stage \notin AtHost
        BY <3>4, <4>1, <4>2, <4>4
      <4> QED BY <4>3, <4>4
    <3>10. LeftInv(c, u)'
      <4>1. call'[c][u].stage # "asked"
        BY <3>4 DEF AtHost
      <4>2. Runs(c, u) => Used(c, u)
        BY <2>1 DEF Runs, RequestInv, CallInv
      <4> QED BY <2>1, <2>2, <3>3, <4>1, <4>2 DEF RequestInv, LeftInv
    <3>11. PictureInv(c, u)'
      <4>1. call'[c][u].picture = None \/ call'[c][u] = k
        BY <2>3, Values DEF No, NoCall, Call
      <4> QED BY <2>1, <4>1 DEF RequestInv, PictureInv
    <3> QED BY <3>2, <3>3, <3>8, <3>9, <3>10, <3>11
            DEF RequestInv, FileInv, PermitInv, Capturing
  <2>5. CASE n # Host
    <3>1. UNCHANGED <<permit, file>> /\ left' \subseteq left
      BY <2>5 DEF ProcessEnds
    <3>2. call'[c][u] = k \/ (call'[c][u] = NoCall /\ k.stage \notin AtHost /\ k.client = n)
      BY <2>3, <2>5
    <3>3. CASE call'[c][u] = k
      <4>1. k.stage \in {"yes", "no"} => task'[c] = task[c]
        <5> SUFFICES ASSUME k.stage \in {"yes", "no"}, k.client = n PROVE FALSE
          BY <1>2, <2>1 DEF RequestInv, CallInv, LinkInv
        <5> QED BY <2>3, <2>5, <3>3 DEF AtHost, NoCall
      <4>2. CallInv(c, u)' /\ LinkInv(c, u)'
        BY <2>1, <2>2, <3>3, <4>1 DEF RequestInv, CallInv, LinkInv, Open
      <4>3. LeftInv(c, u)'
        BY <2>1, <2>2, <3>1, <3>3 DEF RequestInv, LeftInv, Capturing
      <4> QED BY <2>1, <3>1, <3>3, <4>2, <4>3
              DEF RequestInv, FileInv, PermitInv, PictureInv, Capturing
    <3>4. CASE call'[c][u] = NoCall /\ k.stage \notin AtHost /\ k.client = n
      <4>1. call'[c][u].stage = "none" /\ call'[c][u].picture = None /\ ~Capturing(c, u)
            /\ ~Capturing(c, u)'
        BY <3>4 DEF NoCall, Capturing, AtHost
      <4>2. ~(Open(c)' /\ u = task'[c].url)
        BY <2>1, <2>2, <3>4 DEF RequestInv, LinkInv, Open
      <4>3. CallInv(c, u)' /\ LinkInv(c, u)'
        BY <4>1, <4>2 DEF CallInv, LinkInv, Open
      <4>4. LeftInv(c, u)'
        BY <2>1, <2>2, <3>1, <4>1 DEF RequestInv, LeftInv
      <4> QED BY <2>1, <3>1, <4>1, <4>3, <4>4
              DEF RequestInv, FileInv, PermitInv, PictureInv, Capturing
    <3> QED BY <3>2, <3>3, <3>4
  <2> QED BY <2>4, <2>5
<1> QED BY <1>1, <1>3, <1>4 DEF IInv

LEMMA NextIInv == IInv /\ [Next]_vars => IInv'
<1> SUFFICES ASSUME IInv, [Next]_vars PROVE IInv'
  OBVIOUS
<1>1. TypeOK' /\ TypeOK
  BY NextTypeOK DEF IInv
<1>2. ASSUME NEW n \in Node, Restart(n) PROVE IInv'
  <2>1. ProcessEnds(n) /\ accepted' = accepted /\ (n # Host => left' \subseteq left)
    BY <1>2 DEF Restart
  <2>2. ASSUME NEW c \in Command, NEW u \in Url, NEW i \in Program, <<c, u, i>> \in left'
        PROVE  <<c, u, i>> \in left \/ Runs(c, u)
    <3>1. CASE n # Host
      BY <2>1, <2>2, <3>1
    <3>2. CASE n = Host
      <4> SUFFICES ASSUME <<c, u, i>> \notin left PROVE Runs(c, u)
        OBVIOUS
      <4>1. PICK r \in {q \in Request : Runs(q[1], q[2])} :
              <<c, u, i>> = <<r[1], r[2], call[r[1]][r[2]].prog>>
        BY <1>2, <2>2, <3>2 DEF Restart
      <4> QED BY <4>1
    <3> QED BY <3>1, <3>2
  <2> QED BY <1>1, <2>1, <2>2, ProcessEndsInv
<1>3. ASSUME NEW n \in Node, RunRestarts(n) PROVE IInv'
  <2>1. UNCHANGED <<call, permit, file, left, accepted>>
    BY <1>3 DEF RunRestarts, host
  <2>2. ASSUME NEW c \in Command
        PROVE  /\ task'[c].stage = task[c].stage /\ task'[c].at = task[c].at
               /\ task'[c].url = task[c].url /\ task'[c].success = task[c].success
    <3>1. task'[c] = task[c] \/ task'[c] = [task[c] EXCEPT !.orphan = TRUE]
      BY <1>3 DEF RunRestarts
    <3>2. task[c] \in Task
      BY <1>1 DEF TypeOK
    <3> QED BY <3>1, <3>2 DEF Task
  <2>3. \A c \in Command : TaskInv(c)'
    BY <2>1, <2>2 DEF IInv, TaskInv, Active
  <2>4. ASSUME NEW c \in Command, NEW u \in Url PROVE RequestInv(c, u)'
    <3>1. RequestInv(c, u)
      BY DEF IInv
    <3> QED BY <2>1, <2>2, <3>1 DEF RequestInv, CallInv, LinkInv, LeftInv, FileInv, PermitInv,
                                    PictureInv, Used, Open, Capturing
  <2> QED BY <1>1, <2>3, <2>4 DEF IInv
<1>4. CASE GoesDown
  <2>1. ProcessEnds(Host) /\ accepted' = accepted /\ left' = {} /\ Host \in Node
    BY <1>4, HostAssumption DEF GoesDown
  <2> QED BY <1>1, <2>1, ProcessEndsInv
<1>5. CASE UNCHANGED vars
  <2>1. \A c \in Command : TaskInv(c)'
    BY <1>5 DEF vars, IInv, TaskInv, Active
  <2>2. ASSUME NEW c \in Command, NEW u \in Url PROVE RequestInv(c, u)'
    BY <1>5, Untouched DEF vars, IInv
  <2> QED BY <1>1, <2>1, <2>2 DEF IInv
<1> QED BY <1>2, <1>3, <1>4, <1>5, TakeStep, TaskStepInv, CallStepInv, LingersInv DEF Next

LEMMA AlwaysIInv == Spec => []IInv
BY InitIInv, NextIInv, PTL DEF Spec

-----------------------------------------------------------------------------

\* The variables have their types: in particular no capture goes past the list of
\* programs, and no task is at a node that does not exist.
THEOREM TypeCorrect == Spec => []TypeOK
<1>1. IInv => TypeOK
  BY DEF IInv
<1> QED BY <1>1, AlwaysIInv, PTL

\* A picture that reaches a leader is of its own request, whatever the programs of
\* requests that were given up draw meanwhile: each capture has its own directory,
\* which goes with it.
THEOREM AlwaysFresh == Spec => []FreshPicture
<1>1. IInv => FreshPicture
  BY DEF IInv, RequestInv, PictureInv, FreshPicture
<1> QED BY <1>1, AlwaysIInv, PTL

\* It is whole, unless another program than the one that succeeded has drawn it: a
\* program nobody waits for is never the one the capture waits for.
THEOREM AlwaysWhole == Spec => []WholePicture
<1>1. IInv => WholePicture
  BY DEF IInv, RequestInv, PictureInv, WholePicture
<1> QED BY <1>1, AlwaysIInv, PTL

\* The permit of screenshot_limiter is held by a request exactly while that request
\* captures, however it ends: answered, given up, dropped or with its process.
THEOREM PermitReturned == Spec => []PermitIsCapture
<1>1. IInv => PermitIsCapture
  BY DEF IInv, RequestInv, PermitInv, Capturing, PermitIsCapture
<1> QED BY <1>1, AlwaysIInv, PTL

\* An /off that is reported as carried out was: a shutdown program of the host has
\* taken this command's request, on whatever address and however often it was sent.
THEOREM OffIsHonest == Spec => []OffHonest
<1>1. IInv => OffHonest
  BY DEF IInv, TaskInv, OffHonest
<1> QED BY <1>1, AlwaysIInv, PTL
=============================================================================
