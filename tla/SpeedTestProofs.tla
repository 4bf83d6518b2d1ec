--------------------------- MODULE SpeedTestProofs ---------------------------
(***************************************************************************)
(* One transfer per node, and no failure of a test that nothing hindered,  *)
(* for any number of hosts, tests, addresses, crashes and attempts that go *)
(* on after they were given up.                                            *)
(***************************************************************************)
EXTENDS SpeedTest, FiniteSetTheorems, TLAPS

-----------------------------------------------------------------------------
(* Type correctness.                                                       *)

Streams == [Url -> StreamStage]

\* What a step does to one request.
LEMMA HandlerPut ==
  ASSUME handler \in [Test -> [Url -> Handler]], NEW x \in Test, NEW u \in Url,
         NEW h \in Handler, handler' = [handler EXCEPT ![x][u] = h]
  PROVE  /\ handler' \in [Test -> [Url -> Handler]]
         /\ handler'[x][u] = h
         /\ \A y \in Test, w \in Url : y # x \/ w # u => handler'[y][w] = handler[y][w]
OBVIOUS

\* And to its downloads.
LEMMA StreamPut ==
  ASSUME stream \in [Test -> [Url -> Streams]], NEW x \in Test, NEW u \in Url,
         NEW s \in Streams, stream' = [stream EXCEPT ![x][u] = s]
  PROVE  /\ stream' \in [Test -> [Url -> Streams]]
         /\ stream'[x][u] = s
         /\ \A y \in Test, w \in Url : y # x \/ w # u => stream'[y][w] = stream[y][w]
OBVIOUS

LEMMA StoppedStreams ==
  ASSUME TypeOK, NEW x \in Test, NEW u \in Url, NEW v \in Url
  PROVE  /\ Stopped(x, u, v) \in Streams
         /\ \A w \in Url : Stopped(x, u, v)[w] =
              IF w = v /\ stream[x][u][v] # "streaming" THEN "none" ELSE stream[x][u][w]
<1>1. stream[x][u] \in Streams
  BY DEF TypeOK, Streams
<1> QED BY <1>1 DEF Stopped, Streams, StreamStage

\* A handler ends.
LEMMA HandlerEnds ==
  ASSUME TypeOK, NEW x \in Test, NEW u \in Url, NEW answer \in {"yes", "no"},
         Ends(x, u, answer)
  PROVE  \E h \in Handler :
           /\ handler' = [handler EXCEPT ![x][u] = h]
           /\ h.stage = IF Asked(x, u) THEN answer ELSE "none"
<1> DEFINE h == IF Asked(x, u) THEN [stage |-> answer, url |-> 1] ELSE NoHandler
<1>1. 1 \in Url
  BY SpeedTestAssumption DEF Url
<1>2. h \in Handler /\ h.stage = IF Asked(x, u) THEN answer ELSE "none"
  BY <1>1 DEF Handler, NoHandler
<1>3. handler' = [handler EXCEPT ![x][u] = h]
  BY DEF Ends
<1> QED BY <1>2, <1>3

\* The handler and the downloads that a step of the source puts.
HandlerPuts(x, u, h, s) ==
  /\ handler' = [handler EXCEPT ![x][u] = h]
  /\ stream' = [stream EXCEPT ![x][u] = s]
  /\ \/ Admit(x, u) /\ h = [stage |-> "loading", url |-> 1]
        /\ s = [stream[x][u] EXCEPT ![1] = "sent"]
     \/ (TargetUnknown(x, u) \/ Refuse(x, u)) /\ s = stream[x][u]
        /\ h.stage = IF Asked(x, u) THEN "no" ELSE "none"
     \/ NextAddress(x, u)
        /\ h = [stage |-> "loading", url |-> handler[x][u].url + 1]
        /\ s = [Stopped(x, u, handler[x][u].url) EXCEPT
                  ![handler[x][u].url + 1] = "sent"]
     \/ Loaded(x, u) /\ s = Stopped(x, u, handler[x][u].url)
        /\ h.stage = IF Asked(x, u) THEN "yes" ELSE "none"
     \/ LoadFails(x, u) /\ s = Stopped(x, u, handler[x][u].url)
        /\ h.stage = IF Asked(x, u) THEN "no" ELSE "none"
     \/ DropHandler(x, u) /\ s = Stopped(x, u, handler[x][u].url)
        /\ h.stage = "none"

\* Every step of the source puts the handler and its downloads.
LEMMA HandlerStepPuts ==
  ASSUME TypeOK, NEW x \in Test, NEW u \in Url, HandlerStep(x, u)
  PROVE  /\ UNCHANGED test
         /\ \E h \in Handler, s \in Streams : HandlerPuts(x, u, h, s)
<1> USE DEF HandlerPuts
<1> DEFINE v == handler[x][u].url
<1>0. /\ handler[x][u] \in Handler /\ v \in Url /\ stream[x][u] \in Streams /\ 1 \in Url
      /\ stream \in [Test -> [Url -> Streams]] /\ handler \in [Test -> [Url -> Handler]]
  <2>1. stream \in [Test -> [Url -> Streams]] /\ handler \in [Test -> [Url -> Handler]]
    BY DEF TypeOK, Streams
  <2>2. handler[x][u] \in Handler /\ stream[x][u] \in Streams
    BY <2>1
  <2>3. v \in Url /\ 1 \in Url
    BY <2>2, SpeedTestAssumption DEF Handler, Url
  <2> QED BY <2>1, <2>2, <2>3
<1>1. Stopped(x, u, v) \in Streams
  BY <1>0, StoppedStreams
<1>2. UNCHANGED test
  BY DEF HandlerStep, Admit, TargetUnknown, Refuse, Loaded, NextAddress, LoadFails, DropHandler
<1>3. CASE Admit(x, u)
  <2> DEFINE h == [stage |-> "loading", url |-> 1]
             s == [stream[x][u] EXCEPT ![1] = "sent"]
  <2>1. h \in Handler /\ s \in Streams
    BY <1>0 DEF Handler, Streams, StreamStage
  <2>2. handler' = [handler EXCEPT ![x][u] = h] /\ stream' = [stream EXCEPT ![x][u] = s]
    BY <1>3 DEF Admit
  <2> QED BY <1>2, <1>3, <2>1, <2>2
<1>4. CASE TargetUnknown(x, u) \/ Refuse(x, u)
  <2>1. PICK h \in Handler : /\ handler' = [handler EXCEPT ![x][u] = h]
                             /\ h.stage = IF Asked(x, u) THEN "no" ELSE "none"
    BY <1>4, HandlerEnds DEF TargetUnknown, Refuse
  <2>2. stream' = [stream EXCEPT ![x][u] = stream[x][u]]
    BY <1>0, <1>4 DEF TargetUnknown, Refuse
  <2> QED BY <1>0, <1>2, <1>4, <2>1, <2>2
<1>5. CASE NextAddress(x, u)
  <2> DEFINE h == [stage |-> "loading", url |-> v + 1]
             s == [Stopped(x, u, v) EXCEPT ![v + 1] = "sent"]
  <2>1. handler[x][u].stage = "loading" /\ v < Urls
    BY <1>5 DEF NextAddress
  <2>2. v + 1 \in Url
    BY <1>0, <2>1, SpeedTestAssumption DEF Url
  <2>3. h \in Handler /\ s \in Streams
    BY <1>0, <1>1, <2>2 DEF Handler, Streams, StreamStage
  <2>4. [handler[x][u] EXCEPT !.url = v + 1] = h
    BY <1>0, <2>1 DEF Handler
  <2>5. handler' = [handler EXCEPT ![x][u].url = v + 1] /\ stream' = [stream EXCEPT ![x][u] = s]
    BY <1>5 DEF NextAddress
  <2>6. handler' = [handler EXCEPT ![x][u] = h]
    BY <1>0, <2>4, <2>5
  <2> QED BY <1>2, <1>5, <2>3, <2>5, <2>6
<1>6. CASE Loaded(x, u)
  <2>1. PICK h \in Handler : /\ handler' = [handler EXCEPT ![x][u] = h]
                             /\ h.stage = IF Asked(x, u) THEN "yes" ELSE "none"
    BY <1>6, HandlerEnds DEF Loaded
  <2>2. stream' = [stream EXCEPT ![x][u] = Stopped(x, u, v)]
    BY <1>6 DEF Loaded
  <2> QED BY <1>1, <1>2, <1>6, <2>1, <2>2
<1>7. CASE LoadFails(x, u)
  <2>1. PICK h \in Handler : /\ handler' = [handler EXCEPT ![x][u] = h]
                             /\ h.stage = IF Asked(x, u) THEN "no" ELSE "none"
    BY <1>7, HandlerEnds DEF LoadFails
  <2>2. stream' = [stream EXCEPT ![x][u] = Stopped(x, u, v)]
    BY <1>7 DEF LoadFails
  <2> QED BY <1>1, <1>2, <1>7, <2>1, <2>2
<1>8. CASE DropHandler(x, u)
  <2>1. NoHandler \in Handler /\ NoHandler.stage = "none"
    BY <1>0 DEF Handler, NoHandler
  <2>2. handler' = [handler EXCEPT ![x][u] = NoHandler]
    BY <1>8 DEF DropHandler
  <2>3. stream' = [stream EXCEPT ![x][u] = Stopped(x, u, v)]
    BY <1>8 DEF DropHandler
  <2> QED BY <1>1, <1>2, <1>8, <2>1, <2>2, <2>3
<1> QED BY <1>3, <1>4, <1>5, <1>6, <1>7, <1>8 DEF HandlerStep

\* Every step of the target puts one download.
LEMMA StreamStepPuts ==
  ASSUME TypeOK, NEW x \in Test, NEW u \in Url, NEW v \in Url, StreamStep(x, u, v)
  PROVE  /\ UNCHANGED <<test, handler>>
         /\ \E g \in StreamStage, s \in Streams :
              /\ s = [stream[x][u] EXCEPT ![v] = g]
              /\ stream' = [stream EXCEPT ![x][u] = s]
              /\ \/ Serve(x, u, v) /\ g = "streaming"
                 \/ (TooManyBytes(x, u, v) \/ TurnAway(x, u, v)) /\ g = "refused"
                 \/ ServeInternet(x, u, v) /\ g = "served"
                 \/ Served(x, u, v) /\ g = IF Wanted(x, u, v) THEN "served" ELSE "none"
<1>0. stream[x][u] \in Streams /\ stream \in [Test -> [Url -> Streams]]
  BY DEF TypeOK, Streams
<1>1. UNCHANGED <<test, handler>>
  BY DEF StreamStep, Serve, TooManyBytes, TurnAway, ServeInternet, Served
<1>2. \A g \in StreamStage : [stream[x][u] EXCEPT ![v] = g] \in Streams
  BY <1>0 DEF Streams
<1>3. PICK g \in StreamStage :
        /\ stream' = [stream EXCEPT ![x][u][v] = g]
        /\ \/ Serve(x, u, v) /\ g = "streaming"
           \/ (TooManyBytes(x, u, v) \/ TurnAway(x, u, v)) /\ g = "refused"
           \/ ServeInternet(x, u, v) /\ g = "served"
           \/ Served(x, u, v) /\ g = IF Wanted(x, u, v) THEN "served" ELSE "none"
  BY DEF StreamStep, Serve, TooManyBytes, TurnAway, ServeInternet, Served, StreamStage
<1>4. stream' = [stream EXCEPT ![x][u] = [stream[x][u] EXCEPT ![v] = g]]
  BY <1>0, <1>3
<1> QED BY <1>1, <1>2, <1>3, <1>4

\* A request that is given up: its handler stays if it works, and the next is sent.
LEMMA HandlersWithout ==
  ASSUME TypeOK, NEW x \in Test, NEW u \in Url
  PROVE  /\ Without(x, u) \in [Url -> Handler]
         /\ \A w \in Url : Without(x, u)[w] =
              IF w = u /\ handler[x][u].stage # "loading" THEN NoHandler ELSE handler[x][w]
<1>1. 1 \in Url /\ handler[x] \in [Url -> Handler]
  BY SpeedTestAssumption DEF Url, TypeOK
<1>2. NoHandler \in Handler
  BY <1>1 DEF NoHandler, Handler
<1> QED BY <1>1, <1>2 DEF Without

\* A handler is asked.
Sent(h) == [h EXCEPT !.stage = "sent"]

\* The test and the handlers that a step of the leader puts.
TestPuts(x, t, k) ==
  /\ test' = [test EXCEPT ![x] = t] /\ handler' = [handler EXCEPT ![x] = k]
  /\ t.at = test[x].at /\ t.src = Source(x) /\ t.dst = Destination(x)
  /\ \/ /\ TryNextUrl(x)
        /\ t.stage = "waiting" /\ t.url = test[x].url + 1
        /\ k = [Without(x, test[x].url) EXCEPT ![t.url] = Sent(@)]
     \/ /\ Fails(x) /\ t.stage = "failed" /\ t.url = test[x].url
        /\ k = Without(x, test[x].url)
     \/ /\ Hears(x) /\ t.stage = "done" /\ t.url = test[x].url
        /\ k = Without(x, test[x].url)

\* What a step of the leader does to the handlers of its test.
LEMMA TestStepPuts ==
  ASSUME TypeOK, NEW x \in Test, TestStep(x)
  PROVE  /\ UNCHANGED <<free, stream>>
         /\ \E t \in TestRecord, k \in [Url -> Handler] : TestPuts(x, t, k)
<1> USE DEF TestPuts
<1> DEFINE u == test[x].url
<1>0. /\ test[x] \in TestRecord /\ u \in Url /\ handler[x] \in [Url -> Handler]
      /\ test \in [Test -> TestRecord] /\ handler \in [Test -> [Url -> Handler]]
  BY DEF TypeOK, TestRecord
<1>1. UNCHANGED <<free, stream>>
  BY DEF TestStep, Hears, TryNextUrl, Fails
<1>2. Without(x, u) \in [Url -> Handler]
  BY <1>0, HandlersWithout
<1>3. CASE Hears(x)
  <2> DEFINE t == [test[x] EXCEPT !.stage = "done"]
  <2>1. t \in TestRecord /\ t.stage = "done" /\ t.url = u /\ t.at = test[x].at
        /\ t.src = test[x].src /\ t.dst = test[x].dst
    BY <1>0 DEF TestRecord
  <2>2. test' = [test EXCEPT ![x] = t]
    BY <1>0, <1>3 DEF Hears
  <2>3. handler' = [handler EXCEPT ![x] = Without(x, u)]
    BY <1>0, <1>3 DEF Hears, Without
  <2> HIDE DEF t
  <2> QED BY <1>1, <1>2, <1>3, <2>1, <2>2, <2>3 DEF Source, Destination
<1>4. CASE Fails(x)
  <2> DEFINE t == [test[x] EXCEPT !.stage = "failed"]
  <2>1. t \in TestRecord /\ t.stage = "failed" /\ t.url = u /\ t.at = test[x].at
        /\ t.src = test[x].src /\ t.dst = test[x].dst
    BY <1>0 DEF TestRecord
  <2>2. test' = [test EXCEPT ![x] = t]
    BY <1>0, <1>4 DEF Fails
  <2>3. handler' = [handler EXCEPT ![x] = Without(x, u)]
    BY <1>4 DEF Fails
  <2> HIDE DEF t
  <2> QED BY <1>1, <1>2, <1>4, <2>1, <2>2, <2>3 DEF Source, Destination
<1>5. CASE TryNextUrl(x)
  <2> DEFINE t == [test[x] EXCEPT !.url = u + 1]
             k == [Without(x, u) EXCEPT ![u + 1] = Sent(@)]
  <2>1. u + 1 \in Url /\ test[x].stage = "waiting"
    BY <1>0, <1>5, SpeedTestAssumption DEF TryNextUrl, Url
  <2>2. t \in TestRecord /\ t.stage = "waiting" /\ t.url = u + 1 /\ t.at = test[x].at
        /\ t.src = test[x].src /\ t.dst = test[x].dst
    BY <1>0, <2>1 DEF TestRecord
  <2>3. test' = [test EXCEPT ![x] = t]
    BY <1>0, <1>5 DEF TryNextUrl
  <2>4. k \in [Url -> Handler]
    BY <1>2, <2>1 DEF Handler, Sent
  <2>5. handler' = [handler EXCEPT ![x] = k]
    BY <1>5 DEF TryNextUrl, Sent
  <2> HIDE DEF t
  <2> QED BY <1>1, <1>5, <2>2, <2>3, <2>4, <2>5 DEF Source, Destination
<1> QED BY <1>3, <1>4, <1>5 DEF TestStep

\* The leader starts a test, or a node's process ends.
LEMMA StartPuts ==
  ASSUME TypeOK, NEW x \in Test, NEW n \in Node, NEW s \in Node,
         NEW t \in Node \cup {Internet}, Start(x, n, s, t)
  PROVE  \E r \in TestRecord, h \in Handler :
           /\ test' = [test EXCEPT ![x] = r]
           /\ handler' = [handler EXCEPT ![x][1] = h]
           /\ r = [stage |-> "waiting", at |-> n, src |-> s, dst |-> t, url |-> 1]
           /\ h = Sent(handler[x][1])
<1> DEFINE r == [stage |-> "waiting", at |-> n, src |-> s, dst |-> t, url |-> 1]
           h == Sent(handler[x][1])
<1>1. 1 \in Url
  BY SpeedTestAssumption DEF Url
<1>2. r \in TestRecord
  BY <1>1 DEF TestRecord
<1>3. handler[x][1] \in Handler /\ handler \in [Test -> [Url -> Handler]]
  BY <1>1 DEF TypeOK
<1>4. h \in Handler
  BY <1>3 DEF Handler, Sent
<1>5. test' = [test EXCEPT ![x] = r]
  BY DEF Start
<1>6. handler' = [handler EXCEPT ![x][1] = h]
  BY <1>1, <1>3 DEF Start, Sent
<1> QED BY <1>2, <1>4, <1>5, <1>6

\* The requests at a source whose process ends.
LEMMA CrashHandlers ==
  ASSUME TypeOK, NEW n \in Node, Crash(n)
  PROVE  /\ handler' \in [Test -> [Url -> Handler]]
         /\ \A x \in Test, u \in Url :
              /\ Source(x) # n => handler'[x][u] = handler[x][u]
              /\ Source(x) = n => handler'[x][u].stage # "loading"
              /\ \/ handler'[x][u] = handler[x][u]
                 \/ handler'[x][u].stage = "none"
                 \/ handler'[x][u].stage = "no" /\ handler[x][u].stage # "none"
<1> DEFINE k(x, u) ==
       IF Source(x) # n THEN handler[x][u]
       ELSE IF ~Asked(x, u) \/ test[x].at = n THEN NoHandler
       ELSE IF handler[x][u].stage \in {"sent", "loading"} THEN [stage |-> "no", url |-> 1]
       ELSE handler[x][u]
<1>1. 1 \in Url /\ handler \in [Test -> [Url -> Handler]]
  BY SpeedTestAssumption DEF Url, TypeOK
<1>2. handler' = [x \in Test |-> [u \in Url |-> k(x, u)]]
  BY DEF Crash
<1>3. \A x \in Test, u \in Url :
        /\ k(x, u) \in Handler
        /\ Source(x) # n => k(x, u) = handler[x][u]
        /\ Source(x) = n => k(x, u).stage # "loading"
        /\ \/ k(x, u) = handler[x][u]
           \/ k(x, u).stage = "none"
           \/ k(x, u).stage = "no" /\ handler[x][u].stage # "none"
  <2> SUFFICES ASSUME NEW x \in Test, NEW u \in Url
               PROVE  /\ k(x, u) \in Handler
                      /\ Source(x) # n => k(x, u) = handler[x][u]
                      /\ Source(x) = n => k(x, u).stage # "loading"
                      /\ \/ k(x, u) = handler[x][u]
                         \/ k(x, u).stage = "none"
                         \/ k(x, u).stage = "no" /\ handler[x][u].stage # "none"
    OBVIOUS
  <2>1. handler[x][u] \in Handler
    BY <1>1
  <2>2. /\ [stage |-> "no", url |-> 1] \in Handler
        /\ NoHandler \in Handler /\ NoHandler.stage = "none"
    BY <1>1 DEF Handler, NoHandler
  <2> QED BY <2>1, <2>2
<1> HIDE DEF k
<1> QED BY <1>2, <1>3

\* And the downloads from it and to it.
LEMMA CrashStreams ==
  ASSUME TypeOK, NEW n \in Node, Crash(n)
  PROVE  /\ stream' \in [Test -> [Url -> Streams]]
         /\ \A x \in Test, u \in Url, v \in Url :
              stream'[x][u][v] =
                IF Destination(x) = n /\ stream[x][u][v] \in {"sent", "streaming"}
                THEN IF Wanted(x, u, v) THEN "refused" ELSE "none"
                ELSE IF Source(x) = n /\ stream[x][u][v] # "streaming" THEN "none"
                ELSE stream[x][u][v]
<1> DEFINE g(x, u, v) ==
       IF Destination(x) = n /\ stream[x][u][v] \in {"sent", "streaming"}
       THEN IF Wanted(x, u, v) THEN "refused" ELSE "none"
       ELSE IF Source(x) = n /\ stream[x][u][v] # "streaming" THEN "none"
       ELSE stream[x][u][v]
<1>1. \A x \in Test, u \in Url, v \in Url : stream[x][u][v] \in StreamStage
  BY DEF TypeOK
<1>2. stream' = [x \in Test |-> [u \in Url |-> [v \in Url |-> g(x, u, v)]]]
  BY DEF Crash
<1>3. \A x \in Test, u \in Url, v \in Url : g(x, u, v) \in StreamStage
  BY <1>1 DEF StreamStage
<1>4. \A x \in Test, u \in Url, v \in Url : stream'[x][u][v] = g(x, u, v)
  BY <1>2
<1>5. stream' \in [Test -> [Url -> Streams]]
  <2> HIDE DEF g
  <2> QED BY <1>2, <1>3 DEF Streams
<1> QED BY <1>4, <1>5

\* The tests a node leads when its process ends.
LEMMA CrashTests ==
  ASSUME TypeOK, NEW n \in Node, Crash(n)
  PROVE  /\ test' \in [Test -> TestRecord]
         /\ \A x \in Test :
              /\ test'[x].url = test[x].url /\ test'[x].src = test[x].src
              /\ test'[x].dst = test[x].dst
              /\ test'[x].stage \in {test[x].stage, "dead"}
              /\ test'[x].stage = "dead" \/ test'[x] = test[x]
              /\ test[x].stage = "none" => test'[x].stage = "none"
<1> DEFINE t(x) == IF test[x].stage = "waiting" /\ test[x].at = n
                   THEN [test[x] EXCEPT !.stage = "dead"] ELSE test[x]
<1>1. test' = [x \in Test |-> t(x)]
  BY DEF Crash
<1>2. ASSUME NEW x \in Test
      PROVE  /\ t(x) \in TestRecord /\ t(x).url = test[x].url /\ t(x).src = test[x].src
             /\ t(x).dst = test[x].dst /\ t(x).stage \in {test[x].stage, "dead"}
             /\ t(x).stage = "dead" \/ t(x) = test[x]
             /\ test[x].stage = "none" => t(x).stage = "none"
  <2>1. test[x] \in TestRecord
    BY DEF TypeOK
  <2> QED BY <2>1 DEF TestRecord
<1> HIDE DEF t
<1> QED BY <1>1, <1>2

LEMMA InitType == Init => TypeOK
<1> SUFFICES ASSUME Init PROVE TypeOK
  OBVIOUS
<1>1. 1 \in Url
  BY SpeedTestAssumption DEF Url
<1>2. NoHandler \in Handler
  BY <1>1 DEF NoHandler, Handler
<1>3. test \in [Test -> TestRecord]
  BY <1>1 DEF Init, TestRecord
<1> QED BY <1>2, <1>3 DEF Init, TypeOK, StreamStage

LEMMA NextType ==
  ASSUME TypeOK, [Next]_vars
  PROVE  TypeOK'
<1> USE DEF Streams
<1>0. /\ free \in [Node -> BOOLEAN] /\ test \in [Test -> TestRecord]
      /\ handler \in [Test -> [Url -> Handler]] /\ stream \in [Test -> [Url -> Streams]]
      /\ hindered \in SUBSET Test /\ trouble \in Nat
  BY DEF TypeOK
<1>1. ASSUME NEW x \in Test, NEW n \in Node, NEW s \in Node, NEW t \in Node \cup {Internet},
             Start(x, n, s, t)
      PROVE  TypeOK'
  <2>1. PICK r \in TestRecord, h \in Handler :
          test' = [test EXCEPT ![x] = r] /\ handler' = [handler EXCEPT ![x][1] = h]
    BY <1>1, StartPuts
  <2>2. test' \in [Test -> TestRecord]
    BY <1>0, <2>1
  <2>3. 1 \in Url
    BY SpeedTestAssumption DEF Url
  <2>4. handler' \in [Test -> [Url -> Handler]]
    BY <1>0, <2>1, <2>3, HandlerPut
  <2>5. UNCHANGED <<free, stream, hindered, trouble>>
    BY <1>1 DEF Start
  <2> QED BY <1>0, <2>2, <2>4, <2>5 DEF TypeOK
<1>2. ASSUME NEW x \in Test, TestStep(x) PROVE TypeOK'
  <2>1. UNCHANGED <<free, stream>>
    BY <1>2, TestStepPuts
  <2>2. PICK t \in TestRecord, k \in [Url -> Handler] :
          test' = [test EXCEPT ![x] = t] /\ handler' = [handler EXCEPT ![x] = k]
    BY <1>2, TestStepPuts DEF TestPuts
  <2>3. test' \in [Test -> TestRecord] /\ handler' \in [Test -> [Url -> Handler]]
    BY <1>0, <2>2
  <2>4. hindered' \in SUBSET Test /\ trouble' \in Nat
    BY <1>0, <1>2 DEF TestStep, Hears, TryNextUrl, Fails, AttemptFails, Trouble
  <2> QED BY <1>0, <2>1, <2>3, <2>4 DEF TypeOK
<1>3. ASSUME NEW x \in Test, NEW u \in Url, HandlerStep(x, u) PROVE TypeOK'
  <2>1. UNCHANGED test
    BY <1>3, HandlerStepPuts
  <2>2. PICK h \in Handler, s \in Streams :
          handler' = [handler EXCEPT ![x][u] = h] /\ stream' = [stream EXCEPT ![x][u] = s]
    BY <1>3, HandlerStepPuts DEF HandlerPuts
  <2>3. handler' \in [Test -> [Url -> Handler]] /\ stream' \in [Test -> [Url -> Streams]]
    BY <1>0, <2>2, HandlerPut, StreamPut
  <2>4. hindered' \in SUBSET Test /\ trouble' \in Nat
    BY <1>0, <1>3 DEF HandlerStep, Admit, TargetUnknown, Refuse, Loaded, NextAddress, LoadFails,
       DropHandler, DownloadFails, Trouble
  <2>5. free' \in [Node -> BOOLEAN]
    BY <1>0, <1>3 DEF HandlerStep, Admit, TargetUnknown, Refuse, Loaded, NextAddress,
       LoadFails, DropHandler
  <2> QED BY <1>0, <2>1, <2>3, <2>4, <2>5 DEF TypeOK
<1>4. ASSUME NEW x \in Test, NEW u \in Url, NEW v \in Url, StreamStep(x, u, v) PROVE TypeOK'
  <2>1. UNCHANGED <<test, handler>>
    BY <1>4, StreamStepPuts
  <2>2. PICK s \in Streams : stream' = [stream EXCEPT ![x][u] = s]
    BY <1>4, StreamStepPuts
  <2>3. stream' \in [Test -> [Url -> Streams]]
    BY <1>0, <2>2, StreamPut
  <2>4. hindered' \in SUBSET Test /\ trouble' \in Nat
    BY <1>0, <1>4 DEF StreamStep, Serve, TooManyBytes, TurnAway, ServeInternet, Served
  <2>5. free' \in [Node -> BOOLEAN]
    BY <1>0, <1>4 DEF StreamStep, Serve, TooManyBytes, TurnAway, ServeInternet, Served
  <2> QED BY <1>0, <2>1, <2>3, <2>4, <2>5 DEF TypeOK
<1>5. ASSUME NEW n \in Node, Crash(n) PROVE TypeOK'
  <2>1. /\ test' \in [Test -> TestRecord] /\ handler' \in [Test -> [Url -> Handler]]
        /\ stream' \in [Test -> [Url -> Streams]]
    BY <1>5, CrashTests, CrashHandlers, CrashStreams
  <2>2. free' \in [Node -> BOOLEAN] /\ hindered' \in SUBSET Test /\ trouble' \in Nat
    BY <1>0, <1>5 DEF Crash, Trouble
  <2> QED BY <2>1, <2>2 DEF TypeOK
<1>6. CASE UNCHANGED vars
  BY <1>6 DEF vars, TypeOK
<1> QED BY <1>1, <1>2, <1>3, <1>4, <1>5, <1>6 DEF Next

-----------------------------------------------------------------------------
(* The order of a test.                                                    *)

\* A handler and its streams before their time: no request is sent, and no download.
Unused(h, s) == h.stage = "none" /\ \A v \in Url : s[v] = "none"

\* What a test, its handler behind URL u and that handler's streams may be together.
Ordered(t, u, h, s) ==
  /\ t.stage # "none" =>
       t.src \in Node /\ t.dst \in Node \cup {Internet} /\ t.src # t.dst
  /\ t.stage = "none" \/ u > t.url => Unused(h, s)
  /\ h.stage = "sent" => \A v \in Url : s[v] = "none"
  /\ h.stage = "loading" => \A v \in Url : v > h.url => s[v] = "none"
  /\ \A v \in Url : s[v] = "streaming" => t.dst \in Node

OrderInv == \A x \in Test, u \in Url : Ordered(test[x], u, handler[x][u], stream[x][u])

LEMMA OrderedPut ==
  ASSUME TypeOK, OrderInv, UNCHANGED test, NEW x \in Test, NEW u \in Url,
         NEW h \in Handler, NEW s \in Streams,
         handler' = [handler EXCEPT ![x][u] = h], stream' = [stream EXCEPT ![x][u] = s],
         Ordered(test[x], u, h, s)
  PROVE  OrderInv'
<1>1. /\ handler \in [Test -> [Url -> Handler]] /\ stream \in [Test -> [Url -> Streams]]
  BY DEF TypeOK, Streams
<1>2. /\ handler'[x][u] = h /\ stream'[x][u] = s
      /\ \A y \in Test, w \in Url : y # x \/ w # u =>
           handler'[y][w] = handler[y][w] /\ stream'[y][w] = stream[y][w]
  BY <1>1, HandlerPut, StreamPut
<1> SUFFICES ASSUME NEW y \in Test, NEW w \in Url
             PROVE  Ordered(test[y], w, handler'[y][w], stream'[y][w])
  BY DEF OrderInv
<1>3. CASE y = x /\ w = u
  BY <1>2, <1>3
<1>4. CASE y # x \/ w # u
  BY <1>2, <1>4 DEF OrderInv
<1> QED BY <1>3, <1>4

\* What has a handler at work has been begun.
LEMMA OrderedBegun ==
  ASSUME NEW t, NEW u, NEW h, NEW s, Ordered(t, u, h, s), ~Unused(h, s)
  PROVE  /\ t.stage # "none" /\ ~(u > t.url)
         /\ t.src \in Node /\ t.dst \in Node \cup {Internet} /\ t.src # t.dst
BY DEF Ordered

LEMMA HandlerStepOrder ==
  ASSUME TypeOK, OrderInv, NEW x \in Test, NEW u \in Url, HandlerStep(x, u)
  PROVE  OrderInv'
<1> DEFINE h0 == handler[x][u]
           s0 == stream[x][u]
<1>1. UNCHANGED test
  BY HandlerStepPuts
<1>2. PICK h \in Handler, s \in Streams : HandlerPuts(x, u, h, s)
  BY HandlerStepPuts
<1> USE DEF HandlerPuts
<1>3. /\ Ordered(test[x], u, h0, s0) /\ h0.stage \in {"sent", "loading"}
      /\ h0 \in Handler /\ s0 \in Streams /\ h0.url \in Url
  <2>1. Ordered(test[x], u, h0, s0) /\ h0 \in Handler /\ s0 \in Streams
    BY DEF OrderInv, TypeOK, Streams
  <2>2. h0.stage \in {"sent", "loading"}
    BY DEF HandlerStep, Admit, TargetUnknown, Refuse, Loaded, NextAddress, LoadFails, DropHandler
  <2> QED BY <2>1, <2>2 DEF Handler
<1>4. /\ test[x].stage # "none" /\ ~(u > test[x].url)
      /\ test[x].src \in Node /\ test[x].dst \in Node \cup {Internet}
      /\ test[x].src # test[x].dst
  BY <1>3, OrderedBegun DEF Unused
<1>5. \A w \in Url : Stopped(x, u, h0.url)[w] =
        IF w = h0.url /\ s0[w] # "streaming" THEN "none" ELSE s0[w]
  BY <1>3, StoppedStreams
<1>6. \A w \in Url : s0[w] = "streaming" => test[x].dst \in Node
  BY <1>3 DEF Ordered
<1>7. Url \subseteq Nat /\ 1 \in Url
  BY SpeedTestAssumption DEF Url
<1>8. Ordered(test[x], u, h, s)
  <2>1. CASE Admit(x, u) /\ h = [stage |-> "loading", url |-> 1]
             /\ s = [s0 EXCEPT ![1] = "sent"]
    <3>1. \A w \in Url : s0[w] = "none"
      BY <1>3, <2>1 DEF Admit, Ordered
    <3>2. \A w \in Url : s[w] = IF w = 1 THEN "sent" ELSE "none"
      BY <1>3, <1>7, <2>1, <3>1 DEF Streams
    <3> QED BY <1>4, <1>7, <2>1, <3>2 DEF Ordered
  <2>2. CASE NextAddress(x, u) /\ h = [stage |-> "loading", url |-> h0.url + 1]
             /\ s = [Stopped(x, u, h0.url) EXCEPT ![h0.url + 1] = "sent"]
    <3>1. \A w \in Url : w > h0.url => s0[w] = "none"
      BY <1>3, <2>2 DEF NextAddress, Ordered
    <3>2. Stopped(x, u, h0.url) \in Streams
      BY <1>3, StoppedStreams
    <3>3. \A w \in Url : s[w] = IF w = h0.url + 1 THEN "sent" ELSE Stopped(x, u, h0.url)[w]
      BY <2>2, <3>2 DEF Streams
    <3>4. ASSUME NEW w \in Url, w > h0.url + 1 PROVE s[w] = "none"
      <4>1. w \in Nat /\ h0.url \in Nat
        BY <1>3, <1>7
      <4>2. w > h0.url /\ w # h0.url + 1
        BY <3>4, <4>1
      <4>3. s0[w] = "none" /\ s[w] = Stopped(x, u, h0.url)[w]
        BY <3>1, <3>3, <4>2
      <4> QED BY <1>5, <4>3
    <3>5. \A w \in Url : s[w] = "streaming" => s0[w] = "streaming"
      BY <1>5, <3>3
    <3> QED BY <1>4, <1>6, <2>2, <3>4, <3>5 DEF Ordered
  <2>3. CASE h.stage \in {"yes", "no", "none"} /\ (s = s0 \/ s = Stopped(x, u, h0.url))
    <3>1. \A w \in Url : s[w] = "streaming" => s0[w] = "streaming"
      BY <1>5, <2>3
    <3> QED BY <1>4, <1>6, <2>3, <3>1 DEF Ordered
  <2> QED BY <1>2, <2>1, <2>2, <2>3
<1> QED BY <1>1, <1>2, <1>8, OrderedPut

LEMMA StreamStepOrder ==
  ASSUME TypeOK, OrderInv, NEW x \in Test, NEW u \in Url, NEW v \in Url, StreamStep(x, u, v)
  PROVE  OrderInv'
<1> DEFINE h == handler[x][u]
           s0 == stream[x][u]
<1>1. UNCHANGED <<test, handler>>
  BY StreamStepPuts
<1>2. PICK g \in StreamStage, s \in Streams :
              /\ s = [s0 EXCEPT ![v] = g]
              /\ stream' = [stream EXCEPT ![x][u] = s]
              /\ g = "streaming" => Serve(x, u, v)
  BY StreamStepPuts
<1>3. /\ Ordered(test[x], u, h, s0) /\ h \in Handler /\ s0 \in Streams
      /\ handler \in [Test -> [Url -> Handler]]
  BY DEF OrderInv, TypeOK, Streams
<1>4. s0[v] # "none"
  BY DEF StreamStep, Serve, TooManyBytes, TurnAway, ServeInternet, Served
<1>5. /\ test[x].stage # "none" /\ ~(u > test[x].url)
      /\ test[x].src \in Node /\ test[x].dst \in Node \cup {Internet}
      /\ test[x].src # test[x].dst
  BY <1>3, <1>4, OrderedBegun DEF Unused
<1>6. h.stage # "sent" /\ (h.stage = "loading" => ~(v > h.url))
  BY <1>3, <1>4 DEF Ordered
<1>7. \A w \in Url : s[w] = IF w = v THEN g ELSE s0[w]
  BY <1>2, <1>3 DEF Streams
<1>8. g = "streaming" => test[x].dst \in Node
  BY <1>2, <1>5 DEF Serve, Destination
<1>9. Ordered(test[x], u, h, s)
  BY <1>3, <1>5, <1>6, <1>7, <1>8 DEF Ordered
<1>10. handler' = [handler EXCEPT ![x][u] = h]
  BY <1>1, <1>3
<1> QED BY <1>1, <1>2, <1>3, <1>9, <1>10, OrderedPut

LEMMA TestStepOrder ==
  ASSUME TypeOK, OrderInv, NEW x \in Test, TestStep(x)
  PROVE  OrderInv'
<1>1. UNCHANGED stream
  BY TestStepPuts
<1>2. PICK t \in TestRecord, k \in [Url -> Handler] : TestPuts(x, t, k)
  BY TestStepPuts
<1> USE DEF TestPuts
<1>3. /\ test \in [Test -> TestRecord] /\ handler \in [Test -> [Url -> Handler]]
      /\ test[x].url \in Url /\ test[x].stage = "waiting" /\ Url \subseteq Nat
  <2>1. test[x].stage = "waiting"
    BY DEF TestStep, Hears, TryNextUrl, Fails
  <2> QED BY <2>1, SpeedTestAssumption DEF TypeOK, TestRecord, Url
<1>4. /\ Without(x, test[x].url) \in [Url -> Handler]
      /\ \A w \in Url : Without(x, test[x].url)[w] =
           IF w = test[x].url /\ handler[x][w].stage # "loading" THEN NoHandler ELSE handler[x][w]
  <2>1. \A u \in Url :
          /\ Without(x, u) \in [Url -> Handler]
          /\ \A w \in Url : Without(x, u)[w] =
               IF w = u /\ handler[x][u].stage # "loading" THEN NoHandler ELSE handler[x][w]
    BY HandlersWithout
  <2> QED BY <1>3, <2>1
<1> SUFFICES ASSUME NEW y \in Test, NEW w \in Url
             PROVE  Ordered(test'[y], w, handler'[y][w], stream[y][w])
  BY <1>1 DEF OrderInv
<1>5. Ordered(test[y], w, handler[y][w], stream[y][w])
  BY DEF OrderInv
<1>6. CASE y # x
  BY <1>2, <1>3, <1>5, <1>6
<1>7. CASE y = x
  <2>1. test'[x] = t /\ handler'[x][w] = k[w]
    BY <1>2, <1>3
  <2>2. /\ test[x].src \in Node /\ test[x].dst \in Node \cup {Internet}
        /\ test[x].src # test[x].dst
    BY <1>3, <1>5, <1>7 DEF Ordered
  <2>3. NoHandler.stage = "none"
    BY DEF NoHandler
  <2>4. CASE k[w] = Without(x, test[x].url)[w] /\ t.url \in {test[x].url, test[x].url + 1}
             /\ t.stage # "none"
    <3>1. CASE k[w] = handler[x][w]
      <4>1. w > t.url => w > test[x].url
        <5>1. w \in Nat /\ test[x].url \in Nat
          BY <1>3
        <5> QED BY <2>4, <5>1
      <4> QED BY <1>2, <1>5, <1>7, <2>1, <2>2, <2>4, <3>1, <4>1 DEF Ordered, Source, Destination
    <3>2. CASE k[w] = NoHandler /\ w = test[x].url
      <4>1. ~(w > t.url)
        BY <1>3, <2>4, <3>2
      <4> QED BY <1>2, <1>5, <1>7, <2>1, <2>2, <2>3, <2>4, <3>2, <4>1
              DEF Ordered, Source, Destination
    <3> QED BY <1>4, <2>4, <3>1, <3>2
  <2>5. CASE w = t.url /\ t.url = test[x].url + 1 /\ k[w] = Sent(handler[x][w])
             /\ t.stage = "waiting"
    <3>1. w > test[x].url /\ ~(w > t.url)
      BY <1>3, <2>5
    <3>2. \A v \in Url : stream[x][w][v] = "none"
      BY <1>5, <1>7, <3>1 DEF Ordered, Unused
    <3>3. Sent(handler[x][w]).stage = "sent"
      BY <1>3 DEF Sent, Handler
    <3> QED BY <1>2, <1>7, <2>1, <2>2, <2>5, <3>1, <3>2, <3>3 DEF Ordered, Source, Destination
  <2>6. \/ k[w] = Without(x, test[x].url)[w] /\ t.url \in {test[x].url, test[x].url + 1}
             /\ t.stage # "none"
        \/ w = t.url /\ t.url = test[x].url + 1 /\ k[w] = Sent(handler[x][w])
             /\ t.stage = "waiting"
    <3>1. CASE /\ t.stage = "waiting" /\ t.url = test[x].url + 1
               /\ k = [Without(x, test[x].url) EXCEPT ![t.url] = Sent(@)]
      <4>1. CASE w # t.url
        BY <1>4, <3>1, <4>1
      <4>2. CASE w = t.url
        <5>1. k[w] = Sent(Without(x, test[x].url)[w])
          BY <1>4, <3>1, <4>2
        <5>2. w # test[x].url
          BY <1>3, <3>1, <4>2
        <5> QED BY <1>4, <3>1, <4>2, <5>1, <5>2
      <4> QED BY <4>1, <4>2
    <3>2. CASE t.stage \in {"done", "failed"} /\ t.url = test[x].url
               /\ k = Without(x, test[x].url)
      BY <3>2
    <3> QED BY <1>2, <3>1, <3>2
  <2> QED BY <1>7, <2>4, <2>5, <2>6
<1> QED BY <1>6, <1>7

LEMMA NextOrder ==
  ASSUME TypeOK, OrderInv, [Next]_vars
  PROVE  OrderInv'
<1>1. ASSUME NEW x \in Test, NEW n \in Node, NEW s \in Node, NEW t \in Node \cup {Internet},
             Start(x, n, s, t)
      PROVE  OrderInv'
  <2>1. PICK r \in TestRecord, h \in Handler :
           /\ test' = [test EXCEPT ![x] = r]
           /\ handler' = [handler EXCEPT ![x][1] = h]
           /\ r = [stage |-> "waiting", at |-> n, src |-> s, dst |-> t, url |-> 1]
           /\ h = Sent(handler[x][1])
    BY <1>1, StartPuts
  <2>2. /\ test \in [Test -> TestRecord] /\ handler \in [Test -> [Url -> Handler]]
        /\ 1 \in Url /\ Url \subseteq Nat
    BY SpeedTestAssumption DEF TypeOK, Url
  <2>3. UNCHANGED stream /\ test[x].stage = "none" /\ s # t
    BY <1>1 DEF Start
  <2> SUFFICES ASSUME NEW y \in Test, NEW w \in Url
               PROVE  Ordered(test'[y], w, handler'[y][w], stream[y][w])
    BY <2>3 DEF OrderInv
  <2>4. Ordered(test[y], w, handler[y][w], stream[y][w])
    BY DEF OrderInv
  <2>5. CASE y # x
    BY <2>1, <2>2, <2>4, <2>5
  <2>6. CASE y = x
    <3>1. Unused(handler[x][w], stream[x][w])
      BY <2>3, <2>4, <2>6 DEF Ordered
    <3>2. test'[x] = r /\ r.stage = "waiting" /\ r.url = 1 /\ r.src = s /\ r.dst = t
      BY <2>1, <2>2
    <3>3. handler'[x][w] = IF w = 1 THEN h ELSE handler[x][w]
      BY <2>1, <2>2
    <3>4. h.stage = "sent"
      BY <2>1, <2>2 DEF Sent, Handler
    <3> QED BY <2>2, <2>3, <2>6, <3>1, <3>2, <3>3, <3>4 DEF Ordered, Unused
  <2> QED BY <2>5, <2>6
<1>2. ASSUME NEW x \in Test, TestStep(x) PROVE OrderInv'
  BY <1>2, TestStepOrder
<1>3. ASSUME NEW x \in Test, NEW u \in Url, HandlerStep(x, u) PROVE OrderInv'
  BY <1>3, HandlerStepOrder
<1>4. ASSUME NEW x \in Test, NEW u \in Url, NEW v \in Url, StreamStep(x, u, v) PROVE OrderInv'
  BY <1>4, StreamStepOrder
<1>5. ASSUME NEW n \in Node, Crash(n) PROVE OrderInv'
  <2> SUFFICES ASSUME NEW y \in Test, NEW w \in Url
               PROVE  Ordered(test'[y], w, handler'[y][w], stream'[y][w])
    BY DEF OrderInv
  <2>1. Ordered(test[y], w, handler[y][w], stream[y][w])
    BY DEF OrderInv
  <2>2. /\ test'[y].url = test[y].url /\ test'[y].src = test[y].src
        /\ test'[y].dst = test[y].dst /\ test'[y].stage \in {test[y].stage, "dead"}
        /\ test[y].stage = "none" => test'[y].stage = "none"
    BY <1>5, CrashTests
  <2>3. \/ handler'[y][w] = handler[y][w]
        \/ handler'[y][w].stage = "no" /\ handler[y][w].stage # "none"
        \/ handler'[y][w].stage = "none"
    BY <1>5, CrashHandlers
  <2>4. \A v \in Url : stream'[y][w][v] =
          IF Destination(y) = n /\ stream[y][w][v] \in {"sent", "streaming"}
          THEN IF Wanted(y, w, v) THEN "refused" ELSE "none"
          ELSE IF Source(y) = n /\ stream[y][w][v] # "streaming" THEN "none"
          ELSE stream[y][w][v]
    BY <1>5, CrashStreams
  <2>5. \A v \in Url : /\ stream[y][w][v] = "none" => stream'[y][w][v] = "none"
                       /\ stream'[y][w][v] = "streaming" => stream[y][w][v] = "streaming"
    BY <2>4
  <2>6. test'[y].stage = "none" \/ w > test'[y].url => Unused(handler'[y][w], stream'[y][w])
    <3> SUFFICES ASSUME test'[y].stage = "none" \/ w > test'[y].url
                 PROVE  Unused(handler'[y][w], stream'[y][w])
      OBVIOUS
    <3>1. Unused(handler[y][w], stream[y][w])
      BY <2>1, <2>2 DEF Ordered
    <3> QED BY <2>3, <2>5, <3>1 DEF Unused
  <2> QED BY <2>1, <2>2, <2>3, <2>5, <2>6 DEF Ordered
<1>6. CASE UNCHANGED vars
  BY <1>6 DEF vars, OrderInv
<1> QED BY <1>1, <1>2, <1>3, <1>4, <1>5, <1>6 DEF Next

-----------------------------------------------------------------------------
(* Permits.                                                                *)

\* Slot 0 of a handler is its download, slot v the stream from the target's URL v.
Slot == 0 .. Urls

Holds(x, u, v, n) ==
  IF v = 0 THEN Source(x) = n /\ handler[x][u].stage = "loading"
           ELSE Destination(x) = n /\ stream[x][u][v] = "streaming"

\* A permit that is not there is held by one activity.
PermitInv ==
  \A n \in Node :
    /\ free[n] <=> \A x \in Test, u \in Url, v \in Slot : ~Holds(x, u, v, n)
    /\ \A x, y \in Test, u, w \in Url, v, z \in Slot :
         Holds(x, u, v, n) /\ Holds(y, w, z, n) => x = y /\ u = w /\ v = z

LEMMA PermitsSame ==
  ASSUME PermitInv, UNCHANGED free,
         \A x \in Test, u \in Url, v \in Slot, n \in Node : Holds(x, u, v, n)' <=> Holds(x, u, v, n)
  PROVE  PermitInv'
BY DEF PermitInv

\* Where no permit was held, one is.
Takes(x, u, v, m) ==
  /\ free' = [free EXCEPT ![m] = FALSE]
  /\ \A y \in Test, w \in Url, z \in Slot : ~Holds(y, w, z, m)
  /\ \A y \in Test, w \in Url, z \in Slot, n \in Node :
       Holds(y, w, z, n)' <=> Holds(y, w, z, n) \/ (y = x /\ w = u /\ z = v /\ n = m)

LEMMA PermitTaken ==
  ASSUME PermitInv, free \in [Node -> BOOLEAN],
         NEW x \in Test, NEW u \in Url, NEW v \in Slot, NEW m \in Node, Takes(x, u, v, m)
  PROVE  PermitInv'
<1> SUFFICES ASSUME NEW n \in Node
             PROVE  /\ free'[n] <=> \A y \in Test, w \in Url, z \in Slot : ~Holds(y, w, z, n)'
                    /\ \A y, a \in Test, w, b \in Url, z, d \in Slot :
                         Holds(y, w, z, n)' /\ Holds(a, b, d, n)' => y = a /\ w = b /\ z = d
  BY DEF PermitInv
<1>1. CASE n = m
  BY <1>1 DEF Takes
<1>2. CASE n # m
  BY <1>2 DEF PermitInv, Takes
<1> QED BY <1>1, <1>2

LEMMA PermitGiven ==
  ASSUME PermitInv, free \in [Node -> BOOLEAN],
         NEW x \in Test, NEW u \in Url, NEW v \in Slot, NEW m \in Node,
         Holds(x, u, v, m), free' = [free EXCEPT ![m] = TRUE],
         \A y \in Test, w \in Url, z \in Slot, n \in Node :
           Holds(y, w, z, n)' <=> Holds(y, w, z, n) /\ ~(y = x /\ w = u /\ z = v)
  PROVE  PermitInv'
<1> SUFFICES ASSUME NEW n \in Node
             PROVE  /\ free'[n] <=> \A y \in Test, w \in Url, z \in Slot : ~Holds(y, w, z, n)'
                    /\ \A y, a \in Test, w, b \in Url, z, d \in Slot :
                         Holds(y, w, z, n)' /\ Holds(a, b, d, n)' => y = a /\ w = b /\ z = d
  BY DEF PermitInv
<1>1. CASE n = m
  <2>1. \A y \in Test, w \in Url, z \in Slot : Holds(y, w, z, m) => y = x /\ w = u /\ z = v
    BY DEF PermitInv
  <2> QED BY <1>1, <2>1
<1>2. CASE n # m
  <2>1. ~Holds(x, u, v, n)
    BY <1>2 DEF Holds
  <2>2. \A y \in Test, w \in Url, z \in Slot : Holds(y, w, z, n)' <=> Holds(y, w, z, n)
    BY <2>1
  <2> QED BY <1>2, <2>2 DEF PermitInv
<1> QED BY <1>1, <1>2

LEMMA HandlerStepPermit ==
  ASSUME TypeOK, OrderInv, PermitInv, NEW x \in Test, NEW u \in Url, HandlerStep(x, u)
  PROVE  PermitInv'
<1> DEFINE h0 == handler[x][u]
           s0 == stream[x][u]
<1>1. UNCHANGED test
  BY HandlerStepPuts
<1>2. PICK h \in Handler, s \in Streams : HandlerPuts(x, u, h, s)
  BY HandlerStepPuts
<1> USE DEF HandlerPuts
<1>3. /\ Ordered(test[x], u, h0, s0) /\ h0.stage \in {"sent", "loading"}
      /\ h0 \in Handler /\ s0 \in Streams /\ h0.url \in Url
      /\ handler \in [Test -> [Url -> Handler]] /\ stream \in [Test -> [Url -> Streams]]
      /\ free \in [Node -> BOOLEAN]
  <2>1. Ordered(test[x], u, h0, s0) /\ h0 \in Handler /\ s0 \in Streams
    BY DEF OrderInv, TypeOK, Streams
  <2>2. h0.stage \in {"sent", "loading"}
    BY DEF HandlerStep, Admit, TargetUnknown, Refuse, Loaded, NextAddress, LoadFails, DropHandler
  <2> QED BY <2>1, <2>2 DEF Handler, TypeOK, Streams
<1>4. Source(x) \in Node
  BY <1>3, OrderedBegun DEF Unused, Source
<1>5. \A w \in Url : Stopped(x, u, h0.url)[w] =
        IF w = h0.url /\ s0[w] # "streaming" THEN "none" ELSE s0[w]
  BY <1>3, StoppedStreams
<1>6. /\ Url \subseteq Nat /\ 1 \in Url /\ 0 \in Slot
      /\ \A v \in Slot : v = 0 \/ v \in Url
  BY SpeedTestAssumption DEF Url, Slot
<1>7. \A w \in Url : s[w] = "streaming" <=> s0[w] = "streaming"
  <2>1. CASE Admit(x, u) /\ s = [s0 EXCEPT ![1] = "sent"]
    <3>1. \A w \in Url : s0[w] = "none"
      BY <1>3, <2>1 DEF Admit, Ordered
    <3> QED BY <1>3, <2>1, <3>1 DEF Streams
  <2>2. CASE NextAddress(x, u) /\ s = [Stopped(x, u, h0.url) EXCEPT ![h0.url + 1] = "sent"]
    <3>1. Stopped(x, u, h0.url) \in Streams
      BY <1>3, StoppedStreams
    <3>2. \A w \in Url : s[w] = IF w = h0.url + 1 THEN "sent" ELSE Stopped(x, u, h0.url)[w]
      BY <2>2, <3>1 DEF Streams
    <3>3. \A w \in Url : w > h0.url => s0[w] = "none"
      BY <1>3, <2>2 DEF NextAddress, Ordered
    <3>4. ASSUME NEW w \in Url, w = h0.url + 1 PROVE s0[w] = "none"
      <4>1. h0.url \in Nat
        BY <1>3, <1>6
      <4>2. w > h0.url
        BY <3>4, <4>1
      <4> QED BY <3>3, <4>2
    <3> QED BY <1>5, <3>2, <3>4
  <2>3. CASE s = s0 \/ s = Stopped(x, u, h0.url)
    BY <1>5, <2>3
  <2> QED BY <1>2, <2>1, <2>2, <2>3
<1>8. /\ handler'[x][u] = h /\ stream'[x][u] = s
      /\ \A y \in Test, w \in Url : y # x \/ w # u =>
           handler'[y][w] = handler[y][w] /\ stream'[y][w] = stream[y][w]
  BY <1>2, <1>3, HandlerPut, StreamPut
<1>9. \A y \in Test, w \in Url, z \in Url :
        stream'[y][w][z] = "streaming" <=> stream[y][w][z] = "streaming"
  BY <1>7, <1>8
<1>10. \A y \in Test : Source(y)' = Source(y) /\ Destination(y)' = Destination(y)
  BY <1>1 DEF Source, Destination
<1>11. ASSUME NEW y \in Test, NEW w \in Url, NEW z \in Slot, NEW n \in Node
       PROVE  Holds(y, w, z, n)' <=>
                IF y = x /\ w = u /\ z = 0 THEN Source(x) = n /\ h.stage = "loading"
                ELSE Holds(y, w, z, n)
  <2>1. CASE z = 0
    BY <1>8, <1>10, <2>1 DEF Holds
  <2>2. CASE z # 0
    BY <1>6, <1>9, <1>10, <2>2 DEF Holds
  <2> QED BY <2>1, <2>2
<1>12. CASE Admit(x, u) /\ h.stage = "loading"
  <2> PICK m \in Node : m = Source(x)
    BY <1>4
  <2>1. free[m] /\ free' = [free EXCEPT ![m] = FALSE] /\ h0.stage = "sent"
    BY <1>12 DEF Admit
  <2>2. \A n \in Node : ~Holds(x, u, 0, n)
    BY <2>1 DEF Holds
  <2>3. \A y \in Test, w \in Url, z \in Slot, n \in Node :
          Holds(y, w, z, n)' <=> Holds(y, w, z, n) \/ (y = x /\ w = u /\ z = 0 /\ n = m)
    BY <1>11, <1>12, <2>2
  <2>4. \A y \in Test, w \in Url, z \in Slot : ~Holds(y, w, z, m)
    BY <2>1 DEF PermitInv
  <2>5. Takes(x, u, 0, m)
    BY <2>1, <2>3, <2>4 DEF Takes
  <2> QED BY <1>3, <1>6, <2>5, PermitTaken
<1>13. CASE \/ (TargetUnknown(x, u) \/ Refuse(x, u)) /\ h.stage # "loading"
            \/ NextAddress(x, u) /\ h.stage = "loading"
  <2>1. UNCHANGED free /\ (h.stage = "loading" <=> h0.stage = "loading")
    BY <1>13 DEF TargetUnknown, Refuse, NextAddress
  <2>2. \A y \in Test, w \in Url, z \in Slot, n \in Node :
          Holds(y, w, z, n)' <=> Holds(y, w, z, n)
    BY <1>11, <2>1 DEF Holds
  <2> QED BY <2>1, <2>2, PermitsSame
<1>14. CASE (Loaded(x, u) \/ LoadFails(x, u) \/ DropHandler(x, u)) /\ h.stage # "loading"
  <2>1. free' = [free EXCEPT ![Source(x)] = TRUE] /\ h0.stage = "loading"
    BY <1>14 DEF Loaded, LoadFails, DropHandler
  <2>2. Holds(x, u, 0, Source(x))
    BY <2>1 DEF Holds
  <2>3. \A y \in Test, w \in Url, z \in Slot, n \in Node : Holds(y, w, z, n)' <=>
          Holds(y, w, z, n) /\ ~(y = x /\ w = u /\ z = 0)
    BY <1>11, <1>14
  <2> QED BY <1>3, <1>4, <1>6, <2>1, <2>2, <2>3, PermitGiven
<1> QED BY <1>2, <1>12, <1>13, <1>14

LEMMA StreamStepPermit ==
  ASSUME TypeOK, OrderInv, PermitInv, NEW x \in Test, NEW u \in Url, NEW v \in Url,
         StreamStep(x, u, v)
  PROVE  PermitInv'
<1> DEFINE s0 == stream[x][u]
           d == Destination(x)
<1>1. UNCHANGED <<test, handler>>
  BY StreamStepPuts
<1>2. PICK g \in StreamStage, s \in Streams :
              /\ s = [s0 EXCEPT ![v] = g]
              /\ stream' = [stream EXCEPT ![x][u] = s]
              /\ \/ Serve(x, u, v) /\ g = "streaming"
                 \/ (TooManyBytes(x, u, v) \/ TurnAway(x, u, v)) /\ g = "refused"
                 \/ ServeInternet(x, u, v) /\ g = "served"
                 \/ Served(x, u, v) /\ g = IF Wanted(x, u, v) THEN "served" ELSE "none"
  BY StreamStepPuts
<1>3. /\ Ordered(test[x], u, handler[x][u], s0) /\ s0 \in Streams
      /\ stream \in [Test -> [Url -> Streams]] /\ free \in [Node -> BOOLEAN]
      /\ s0[v] # "none"
  BY DEF OrderInv, TypeOK, Streams, StreamStep, Serve, TooManyBytes, TurnAway, ServeInternet, Served
<1>4. d \in Node \cup {Internet} /\ (s0[v] = "streaming" => d \in Node)
  BY <1>3, OrderedBegun DEF Unused, Destination, Ordered
<1>5. v \in Slot /\ v # 0 /\ \A z \in Slot : z = 0 \/ z \in Url
  BY SpeedTestAssumption DEF Url, Slot
<1>6. /\ stream'[x][u] = s
      /\ \A y \in Test, w \in Url : y # x \/ w # u => stream'[y][w] = stream[y][w]
  <2>1. stream' = [stream EXCEPT ![x][u] = s] /\ stream \in [Test -> [Url -> Streams]]
    BY <1>2, <1>3
  <2> QED BY <2>1, StreamPut
<1>7. \A y \in Test, w \in Url, z \in Url :
        stream'[y][w][z] = IF y = x /\ w = u /\ z = v THEN g ELSE stream[y][w][z]
  BY <1>2, <1>3, <1>6 DEF Streams
<1>8. \A y \in Test : Source(y)' = Source(y) /\ Destination(y)' = Destination(y)
  BY <1>1 DEF Source, Destination
<1>9. ASSUME NEW y \in Test, NEW w \in Url, NEW z \in Slot, NEW n \in Node
      PROVE  Holds(y, w, z, n)' <=>
                IF y = x /\ w = u /\ z = v THEN d = n /\ g = "streaming"
                ELSE Holds(y, w, z, n)
  <2>1. CASE z = 0
    BY <1>1, <1>5, <1>8, <2>1 DEF Holds
  <2>2. CASE z # 0
    BY <1>5, <1>7, <1>8, <2>2 DEF Holds
  <2> QED BY <2>1, <2>2
<1>10. CASE Serve(x, u, v) /\ g = "streaming"
  <2> PICK m \in Node : m = d
    BY <1>4, <1>10 DEF Serve
  <2>1. free[m] /\ free' = [free EXCEPT ![m] = FALSE] /\ s0[v] = "sent"
    BY <1>10 DEF Serve
  <2>2. \A n \in Node : ~Holds(x, u, v, n)
    BY <1>5, <2>1 DEF Holds
  <2>3. \A y \in Test, w \in Url, z \in Slot, n \in Node :
          Holds(y, w, z, n)' <=> Holds(y, w, z, n) \/ (y = x /\ w = u /\ z = v /\ n = m)
    BY <1>9, <1>10, <2>2
  <2>4. \A y \in Test, w \in Url, z \in Slot : ~Holds(y, w, z, m)
    BY <2>1 DEF PermitInv
  <2>5. Takes(x, u, v, m)
    BY <2>1, <2>3, <2>4 DEF Takes
  <2> QED BY <1>3, <1>5, <2>5, PermitTaken
<1>11. CASE /\ TooManyBytes(x, u, v) \/ TurnAway(x, u, v) \/ ServeInternet(x, u, v)
            /\ g # "streaming"
  <2>1. UNCHANGED free /\ s0[v] # "streaming"
    BY <1>11 DEF TooManyBytes, TurnAway, ServeInternet
  <2>2. \A y \in Test, w \in Url, z \in Slot, n \in Node :
          Holds(y, w, z, n)' <=> Holds(y, w, z, n)
    BY <1>5, <1>9, <1>11, <2>1 DEF Holds
  <2> QED BY <2>1, <2>2, PermitsSame
<1>12. CASE Served(x, u, v) /\ g # "streaming"
  <2>1. free' = [free EXCEPT ![d] = TRUE] /\ s0[v] = "streaming" /\ d \in Node
    BY <1>4, <1>12 DEF Served
  <2>2. Holds(x, u, v, d)
    BY <1>5, <2>1 DEF Holds
  <2>3. \A y \in Test, w \in Url, z \in Slot, n \in Node : Holds(y, w, z, n)' <=>
          Holds(y, w, z, n) /\ ~(y = x /\ w = u /\ z = v)
    BY <1>9, <1>12
  <2> QED BY <1>3, <1>5, <2>1, <2>2, <2>3, PermitGiven
<1> QED BY <1>2, <1>10, <1>11, <1>12

LEMMA TestStepPermit ==
  ASSUME TypeOK, OrderInv, PermitInv, NEW x \in Test, TestStep(x)
  PROVE  PermitInv'
<1>1. UNCHANGED <<free, stream>>
  BY TestStepPuts
<1>2. PICK t \in TestRecord, k \in [Url -> Handler] : TestPuts(x, t, k)
  BY TestStepPuts
<1> USE DEF TestPuts
<1>3. /\ test \in [Test -> TestRecord] /\ handler \in [Test -> [Url -> Handler]]
      /\ test[x].url \in Url /\ Url \subseteq Nat
  BY SpeedTestAssumption DEF TypeOK, TestRecord, Url
<1>4. /\ Without(x, test[x].url) \in [Url -> Handler]
      /\ \A w \in Url : Without(x, test[x].url)[w] =
           IF w = test[x].url /\ handler[x][w].stage # "loading" THEN NoHandler ELSE handler[x][w]
  <2>1. \A u \in Url :
          /\ Without(x, u) \in [Url -> Handler]
          /\ \A w \in Url : Without(x, u)[w] =
               IF w = u /\ handler[x][u].stage # "loading" THEN NoHandler ELSE handler[x][w]
    BY HandlersWithout
  <2> QED BY <1>3, <2>1
<1>5. \A w \in Url : Without(x, test[x].url)[w].stage = "loading" <=> handler[x][w].stage = "loading"
  BY <1>4 DEF NoHandler
<1>6. ASSUME NEW w \in Url PROVE k[w].stage = "loading" <=> handler[x][w].stage = "loading"
  <2>1. CASE k[w] = Without(x, test[x].url)[w]
    BY <1>5, <2>1
  <2>2. CASE w = test[x].url + 1 /\ k[w] = Sent(Without(x, test[x].url)[w])
    <3>1. w > test[x].url
      <4>1. w \in Nat /\ test[x].url \in Nat
        BY <1>3
      <4> QED BY <2>2, <4>1
    <3>2. handler[x][w].stage = "none"
      BY <3>1 DEF OrderInv, Ordered, Unused
    <3>3. k[w].stage = "sent"
      BY <1>4, <2>2 DEF Sent, Handler
    <3> QED BY <3>2, <3>3
  <2>3. \/ k[w] = Without(x, test[x].url)[w]
        \/ w = test[x].url + 1 /\ k[w] = Sent(Without(x, test[x].url)[w])
    BY <1>2, <1>4
  <2> QED BY <2>1, <2>2, <2>3
<1>7. \A y \in Test : Source(y)' = Source(y) /\ Destination(y)' = Destination(y)
  BY <1>2, <1>3 DEF Source, Destination
<1>8. \A y \in Test, w \in Url : handler'[y][w].stage = "loading" <=> handler[y][w].stage = "loading"
  BY <1>2, <1>3, <1>6
<1> QED BY <1>1, <1>7, <1>8, PermitsSame DEF Holds

LEMMA NextPermit ==
  ASSUME TypeOK, OrderInv, PermitInv, [Next]_vars
  PROVE  PermitInv'
<1>1. ASSUME NEW x \in Test, NEW n \in Node, NEW s \in Node, NEW t \in Node \cup {Internet},
             Start(x, n, s, t)
      PROVE  PermitInv'
  <2>1. PICK r \in TestRecord, h \in Handler :
           /\ test' = [test EXCEPT ![x] = r]
           /\ handler' = [handler EXCEPT ![x][1] = h]
           /\ h = Sent(handler[x][1])
    BY <1>1, StartPuts
  <2>2. /\ test \in [Test -> TestRecord] /\ handler \in [Test -> [Url -> Handler]]
        /\ 1 \in Url /\ \A v \in Slot : v = 0 \/ v \in Url
    BY SpeedTestAssumption DEF TypeOK, Url, Slot
  <2>3. UNCHANGED <<stream, free>> /\ test[x].stage = "none"
    BY <1>1 DEF Start
  <2>4. \A w \in Url : Unused(handler[x][w], stream[x][w])
    BY <2>3 DEF OrderInv, Ordered
  <2>5. handler'[x][1] = h /\ h.stage = "sent"
    BY <2>1, <2>2 DEF Sent, Handler
  <2>6. \A w \in Url : handler'[x][w].stage # "loading"
    BY <2>1, <2>2, <2>4, <2>5 DEF Unused
  <2>7. ASSUME NEW y \in Test, NEW w \in Url, NEW v \in Slot, NEW m \in Node
        PROVE  Holds(y, w, v, m)' <=> Holds(y, w, v, m)
    <3>1. CASE y = x
      BY <2>2, <2>3, <2>4, <2>6, <3>1 DEF Holds, Unused
    <3>2. CASE y # x
      BY <2>1, <2>2, <2>3, <3>2 DEF Holds, Source, Destination
    <3> QED BY <3>1, <3>2
  <2> QED BY <2>3, <2>7, PermitsSame
<1>2. ASSUME NEW x \in Test, TestStep(x) PROVE PermitInv'
  BY <1>2, TestStepPermit
<1>3. ASSUME NEW x \in Test, NEW u \in Url, HandlerStep(x, u) PROVE PermitInv'
  BY <1>3, HandlerStepPermit
<1>4. ASSUME NEW x \in Test, NEW u \in Url, NEW v \in Url, StreamStep(x, u, v) PROVE PermitInv'
  BY <1>4, StreamStepPermit
<1>5. ASSUME NEW n \in Node, Crash(n) PROVE PermitInv'
  <2>1. \A y \in Test : Source(y)' = Source(y) /\ Destination(y)' = Destination(y)
    BY <1>5, CrashTests DEF Source, Destination
  <2>2. \A y \in Test, w \in Url :
          handler'[y][w].stage = "loading" <=> handler[y][w].stage = "loading" /\ Source(y) # n
    BY <1>5, CrashHandlers
  <2>3. \A y \in Test, w \in Url, v \in Url :
          stream'[y][w][v] = "streaming" <=> stream[y][w][v] = "streaming" /\ Destination(y) # n
    BY <1>5, CrashStreams
  <2>4. \A v \in Slot : v = 0 \/ v \in Url
    BY SpeedTestAssumption DEF Url, Slot
  <2>5. \A y \in Test, w \in Url, v \in Slot, m \in Node :
          Holds(y, w, v, m)' <=> Holds(y, w, v, m) /\ m # n
    BY <2>1, <2>2, <2>3, <2>4 DEF Holds
  <2>6. free' = [free EXCEPT ![n] = TRUE] /\ free \in [Node -> BOOLEAN]
    BY <1>5 DEF Crash, TypeOK
  <2> QED BY <2>5, <2>6 DEF PermitInv
<1>6. CASE UNCHANGED vars
  BY <1>6, PermitsSame DEF vars, Holds, Source, Destination
<1> QED BY <1>1, <1>2, <1>3, <1>4, <1>5, <1>6 DEF Next

-----------------------------------------------------------------------------
(* Causes of failure.                                                      *)

\* A test that nothing has hindered is at its first addresses, and not refused.
Smooth(x) ==
  /\ test[x].url = 1
  /\ handler[x][1].stage \in {"sent", "loading", "yes"}
  /\ handler[x][1].stage = "loading" => handler[x][1].url = 1
  /\ \A u \in Url : u # 1 => handler[x][u].stage = "none"
  /\ \A u, v \in Url : stream[x][u][v] # "none" => u = 1 /\ v = 1
  /\ stream[x][1][1] # "refused"

CauseInv ==
  \A x \in Test : x \notin hindered =>
    /\ test[x].stage # "failed"
    /\ test[x].stage = "waiting" => Smooth(x)

\* Only this test's handlers, downloads and causes change.
LEMMA CauseKept ==
  ASSUME CauseInv, UNCHANGED test, NEW x \in Test, hindered \subseteq hindered',
         \A y \in Test : y # x => handler'[y] = handler[y] /\ stream'[y] = stream[y],
         x \notin hindered' /\ test[x].stage = "waiting" => Smooth(x)'
  PROVE  CauseInv'
<1> SUFFICES ASSUME NEW y \in Test, y \notin hindered'
             PROVE  /\ test'[y].stage # "failed"
                    /\ test'[y].stage = "waiting" => Smooth(y)'
  BY DEF CauseInv
<1>1. /\ test'[y] = test[y] /\ test[y].stage # "failed"
      /\ test[y].stage = "waiting" => Smooth(y)
  BY DEF CauseInv
<1>2. CASE y = x
  BY <1>1, <1>2
<1>3. CASE y # x
  BY <1>1, <1>3 DEF Smooth
<1> QED BY <1>2, <1>3

\* A permit that is not there is held by someone's activity.
LEMMA PermitHeld ==
  ASSUME PermitInv, NEW n \in Node, ~free[n]
  PROVE  \E y \in Test, w \in Url, z \in Slot : Holds(y, w, z, n)
BY DEF PermitInv

LEMMA HolderActs ==
  ASSUME NEW x \in Test, NEW y \in Test, NEW w \in Url, NEW z \in Slot, NEW n \in Node,
         Holds(y, w, z, n), y # x
  PROVE  OthersAt(x, n)
<1>1. z = 0 \/ z \in Url
  BY SpeedTestAssumption DEF Slot, Url
<1>2. CASE z = 0
  <2>1. <<w, 0>> \in Activities(y, n)
    BY <1>2 DEF Holds, Activities
  <2> QED BY <2>1 DEF OthersAt
<1>3. CASE z # 0
  <2> DEFINE q == <<w, z>>
  <2>1. q \in Url \X Url /\ q[1] = w /\ q[2] = z
    BY <1>1, <1>3
  <2>2. q \in Activities(y, n)
    BY <1>3, <2>1 DEF Holds, Activities
  <2> QED BY <2>2 DEF OthersAt
<1> QED BY <1>2, <1>3

LEMMA HandlerStepCause ==
  ASSUME TypeOK, OrderInv, PermitInv, CauseInv, NEW x \in Test, NEW u \in Url,
         HandlerStep(x, u)
  PROVE  CauseInv'
<1>1. UNCHANGED test
  BY HandlerStepPuts
<1>2. PICK h \in Handler, s \in Streams : HandlerPuts(x, u, h, s)
  BY HandlerStepPuts
<1> USE DEF HandlerPuts
<1>3. /\ handler \in [Test -> [Url -> Handler]] /\ stream \in [Test -> [Url -> Streams]]
      /\ handler[x][u].stage \in {"sent", "loading"} /\ handler[x][u].url \in Url
  BY DEF TypeOK, Streams, Handler, HandlerStep, Admit, TargetUnknown, Refuse, Loaded,
         NextAddress, LoadFails, DropHandler
<1>4. /\ handler'[x][u] = h /\ stream'[x][u] = s
      /\ \A y \in Test, w \in Url : y # x \/ w # u =>
           handler'[y][w] = handler[y][w] /\ stream'[y][w] = stream[y][w]
  BY <1>2, <1>3, HandlerPut, StreamPut
<1>5. \A y \in Test : y # x => handler'[y] = handler[y] /\ stream'[y] = stream[y]
  BY <1>2, <1>3
<1>6. hindered \subseteq hindered'
  BY DEF HandlerStep, Admit, TargetUnknown, Refuse, Loaded, NextAddress, LoadFails,
         DropHandler, DownloadFails
<1>7. 1 \in Url /\ Url \subseteq Nat
  BY SpeedTestAssumption DEF Url
<1>8. ASSUME x \notin hindered', test[x].stage = "waiting" PROVE Smooth(x)'
  <2>1. Smooth(x) /\ u = 1 /\ Asked(x, u)
    <3>1. Smooth(x)
      BY <1>6, <1>8 DEF CauseInv
    <3>2. u = 1
      BY <1>3, <3>1 DEF Smooth
    <3> QED BY <1>8, <3>1, <3>2 DEF Smooth, Asked
  <2>2. test'[x].url = 1 /\ \A w \in Url : w # 1 => handler'[x][w].stage = "none"
    BY <1>1, <1>4, <2>1 DEF Smooth
  <2>3. \A w, v \in Url : w # 1 => stream'[x][w][v] = "none"
    BY <1>4, <2>1 DEF Smooth
  <2>4. \A v \in Url : v # 1 => stream[x][1][v] = "none"
    BY <1>7, <2>1 DEF Smooth
  <2>5. CASE Admit(x, u) /\ h = [stage |-> "loading", url |-> 1]
             /\ s = [stream[x][u] EXCEPT ![1] = "sent"]
    <3>1. \A v \in Url : s[v] = IF v = 1 THEN "sent" ELSE "none"
      BY <1>3, <1>7, <2>1, <2>4, <2>5 DEF Streams
    <3>2. handler'[x][1].stage = "loading" /\ handler'[x][1].url = 1
      BY <1>4, <2>1, <2>5
    <3>3. \A v \in Url : stream'[x][1][v] = IF v = 1 THEN "sent" ELSE "none"
      BY <1>4, <2>1, <3>1
    <3> QED BY <1>7, <2>2, <2>3, <3>2, <3>3 DEF Smooth
  <2>6. CASE Refuse(x, u)
    <3>1. Source(x) \in Node /\ Source(x) # Destination(x)
      BY <1>3, OrderedBegun DEF OrderInv, Unused, Source, Destination
    <3>2. PICK y \in Test, w \in Url, z \in Slot : Holds(y, w, z, Source(x))
      BY <2>6, <3>1, PermitHeld DEF Refuse
    <3>3. y # x
      BY <2>1, <2>6, <3>1, <3>2 DEF Holds, Smooth, Refuse
    <3>4. OthersAt(x, Source(x))
      BY <3>1, <3>2, <3>3, HolderActs
    <3> QED BY <1>8, <2>6, <3>4 DEF Refuse
  <2>7. CASE Loaded(x, u) /\ s = Stopped(x, u, handler[x][u].url)
             /\ h.stage = IF Asked(x, u) THEN "yes" ELSE "none"
    <3>1. \A v \in Url : Stopped(x, u, handler[x][u].url)[v] \in {"none", stream[x][u][v]}
      BY <1>3, StoppedStreams
    <3>2. /\ \A v \in Url : v # 1 => s[v] = "none"
          /\ s[1] # "refused"
      BY <1>7, <2>1, <2>4, <2>7, <3>1 DEF Smooth
    <3> QED BY <1>4, <1>7, <2>1, <2>2, <2>3, <2>7, <3>2 DEF Smooth
  <2>8. CASE NextAddress(x, u) \/ LoadFails(x, u)
    <3>1. DownloadFails(x, u, handler[x][u].url)
      BY <2>8 DEF NextAddress, LoadFails
    <3>2. stream[x][u][handler[x][u].url] # "refused"
      BY <1>3, <2>1, <2>4 DEF Smooth
    <3> QED BY <1>8, <3>1, <3>2 DEF DownloadFails
  <2>9. ~DropHandler(x, u) /\ ~TargetUnknown(x, u)
    BY <1>8, <2>1 DEF DropHandler, TargetUnknown
  <2> QED BY <1>2, <2>5, <2>6, <2>7, <2>8, <2>9
<1> QED BY <1>1, <1>5, <1>6, <1>8, CauseKept

LEMMA StreamStepCause ==
  ASSUME TypeOK, OrderInv, PermitInv, CauseInv, NEW x \in Test, NEW u \in Url, NEW v \in Url,
         StreamStep(x, u, v)
  PROVE  CauseInv'
<1>1. UNCHANGED <<test, handler>>
  BY StreamStepPuts
<1>2. PICK g \in StreamStage, s \in Streams :
              /\ s = [stream[x][u] EXCEPT ![v] = g]
              /\ stream' = [stream EXCEPT ![x][u] = s]
              /\ g = "refused" => TooManyBytes(x, u, v) \/ TurnAway(x, u, v)
  BY StreamStepPuts
<1>3. /\ stream \in [Test -> [Url -> Streams]] /\ stream[x][u][v] # "none"
  BY DEF TypeOK, Streams, StreamStep, Serve, TooManyBytes, TurnAway, ServeInternet, Served
<1>4. /\ stream'[x][u] = s
      /\ \A y \in Test, w \in Url : y # x \/ w # u => stream'[y][w] = stream[y][w]
  BY <1>2, <1>3, StreamPut
<1>5. \A y \in Test : y # x => handler'[y] = handler[y] /\ stream'[y] = stream[y]
  BY <1>1, <1>2, <1>3
<1>6. hindered \subseteq hindered'
  BY DEF StreamStep, Serve, TooManyBytes, TurnAway, ServeInternet, Served
<1>7. \A w, z \in Url :
        stream'[x][w][z] = IF w = u /\ z = v THEN g ELSE stream[x][w][z]
  BY <1>2, <1>3, <1>4 DEF Streams
<1>8. ASSUME x \notin hindered', test[x].stage = "waiting" PROVE Smooth(x)'
  <2>1. Smooth(x) /\ u = 1 /\ v = 1
    <3>1. Smooth(x)
      BY <1>6, <1>8 DEF CauseInv
    <3> QED BY <1>3, <3>1 DEF Smooth
  <2>2. CASE g # "refused"
    BY <1>1, <1>7, <2>1, <2>2 DEF Smooth
  <2>3. CASE TurnAway(x, u, v)
    <3>1. Source(x) # Destination(x) /\ Destination(x) \in Node
      BY <1>3, <2>3, OrderedBegun DEF OrderInv, Unused, Source, Destination, TurnAway
    <3>2. PICK y \in Test, w \in Url, z \in Slot : Holds(y, w, z, Destination(x))
      BY <2>3, <3>1, PermitHeld DEF TurnAway
    <3>3. y # x
      <4> SUFFICES ASSUME y = x PROVE FALSE
        OBVIOUS
      <4>1. z # 0 /\ stream[x][w][z] = "streaming" /\ z \in Url
        BY <3>1, <3>2, SpeedTestAssumption DEF Holds, Slot, Url
      <4>2. w = 1 /\ z = 1
        BY <2>1, <4>1 DEF Smooth
      <4> QED BY <2>1, <2>3, <4>1, <4>2 DEF TurnAway
    <3>4. OthersAt(x, Destination(x))
      BY <3>1, <3>2, <3>3, HolderActs
    <3> QED BY <1>8, <2>3, <3>4 DEF TurnAway
  <2>4. ~TooManyBytes(x, u, v)
    BY <1>8 DEF TooManyBytes
  <2> QED BY <1>2, <2>2, <2>3, <2>4
<1> QED BY <1>1, <1>5, <1>6, <1>8, CauseKept

LEMMA TestStepCause ==
  ASSUME TypeOK, CauseInv, NEW x \in Test, TestStep(x)
  PROVE  CauseInv'
<1>0. test \in [Test -> TestRecord] /\ handler \in [Test -> [Url -> Handler]]
  BY DEF TypeOK
<1>1. UNCHANGED stream /\ hindered \subseteq hindered'
  BY DEF TestStep, Hears, TryNextUrl, Fails, AttemptFails
<1>2. \A y \in Test : y # x => test'[y] = test[y] /\ handler'[y] = handler[y]
  BY <1>0, TestStepPuts DEF TestPuts
<1>3. test[x].stage = "waiting"
  BY DEF TestStep, Hears, TryNextUrl, Fails
<1>4. Hears(x) \/ x \in hindered'
  <2> SUFFICES ASSUME ~Hears(x), x \notin hindered' PROVE FALSE
    OBVIOUS
  <2>1. Smooth(x)
    BY <1>1, <1>3 DEF CauseInv
  <2>2. AttemptFails(x, test[x].url)
    BY DEF TestStep, TryNextUrl, Fails
  <2>3. handler[x][test[x].url].stage # "no"
    BY <2>1 DEF Smooth
  <2> QED BY <2>2, <2>3 DEF AttemptFails
<1> SUFFICES ASSUME NEW y \in Test, y \notin hindered'
             PROVE  /\ test'[y].stage # "failed"
                    /\ test'[y].stage = "waiting" => Smooth(y)'
  BY DEF CauseInv
<1>5. CASE y = x
  <2>1. test'[x].stage = "done"
    BY <1>0, <1>4, <1>5 DEF Hears, TestRecord
  <2> QED BY <1>5, <2>1
<1>6. CASE y # x
  BY <1>1, <1>2, <1>6 DEF CauseInv, Smooth
<1> QED BY <1>5, <1>6

LEMMA NextCause ==
  ASSUME TypeOK, OrderInv, PermitInv, CauseInv, [Next]_vars
  PROVE  CauseInv'
<1>1. ASSUME NEW x \in Test, NEW n \in Node, NEW s \in Node, NEW t \in Node \cup {Internet},
             Start(x, n, s, t)
      PROVE  CauseInv'
  <2>1. PICK r \in TestRecord, h \in Handler :
           /\ test' = [test EXCEPT ![x] = r]
           /\ handler' = [handler EXCEPT ![x][1] = h]
           /\ r = [stage |-> "waiting", at |-> n, src |-> s, dst |-> t, url |-> 1]
           /\ h = Sent(handler[x][1])
    BY <1>1, StartPuts
  <2>2. /\ test \in [Test -> TestRecord] /\ handler \in [Test -> [Url -> Handler]]
        /\ 1 \in Url
    BY SpeedTestAssumption DEF TypeOK, Url
  <2>3. UNCHANGED <<stream, hindered>> /\ test[x].stage = "none"
    BY <1>1 DEF Start
  <2>4. \A w \in Url : Unused(handler[x][w], stream[x][w])
    BY <2>3 DEF OrderInv, Ordered
  <2>5. handler'[x][1] = h /\ h.stage = "sent"
    BY <2>1, <2>2 DEF Sent, Handler
  <2>6. test'[x].stage = "waiting" /\ test'[x].url = 1
    BY <2>1, <2>2
  <2>7. \A w \in Url : w # 1 => handler'[x][w].stage = "none"
    BY <2>1, <2>2, <2>4 DEF Unused
  <2>8. Smooth(x)'
    BY <2>2, <2>3, <2>4, <2>5, <2>6, <2>7 DEF Smooth, Unused
  <2> SUFFICES ASSUME NEW y \in Test, y \notin hindered
               PROVE  /\ test'[y].stage # "failed"
                      /\ test'[y].stage = "waiting" => Smooth(y)'
    BY <2>3 DEF CauseInv
  <2>9. CASE y = x
    BY <2>6, <2>8, <2>9
  <2>10. CASE y # x
    <3>1. test'[y] = test[y] /\ handler'[y] = handler[y]
      BY <2>1, <2>2, <2>10
    <3> QED BY <2>3, <3>1 DEF CauseInv, Smooth
  <2> QED BY <2>9, <2>10
<1>2. ASSUME NEW x \in Test, TestStep(x) PROVE CauseInv'
  BY <1>2, TestStepCause
<1>3. ASSUME NEW x \in Test, NEW u \in Url, HandlerStep(x, u) PROVE CauseInv'
  BY <1>3, HandlerStepCause
<1>4. ASSUME NEW x \in Test, NEW u \in Url, NEW v \in Url, StreamStep(x, u, v) PROVE CauseInv'
  BY <1>4, StreamStepCause
<1>5. ASSUME NEW n \in Node, Crash(n) PROVE CauseInv'
  <2> SUFFICES ASSUME NEW y \in Test, y \notin hindered'
               PROVE  /\ test'[y].stage # "failed"
                      /\ test'[y].stage = "waiting" => Smooth(y)'
    BY DEF CauseInv
  <2>1. y \notin hindered /\ Source(y) # n /\ Destination(y) # n
    BY <1>5 DEF Crash
  <2>2. \A w \in Url : handler'[y][w] = handler[y][w]
    BY <1>5, <2>1, CrashHandlers
  <2>3. \A w, v \in Url : stream'[y][w][v] = stream[y][w][v]
    BY <1>5, <2>1, CrashStreams
  <2>4. test'[y].stage = "dead" \/ test'[y] = test[y]
    BY <1>5, CrashTests
  <2>5. 1 \in Url
    BY SpeedTestAssumption DEF Url
  <2>6. test[y].stage # "failed" /\ (test[y].stage = "waiting" => Smooth(y))
    BY <2>1 DEF CauseInv
  <2> QED BY <2>2, <2>3, <2>4, <2>5, <2>6 DEF Smooth
<1>6. CASE UNCHANGED vars
  BY <1>6 DEF vars, CauseInv, Smooth
<1> QED BY <1>1, <1>2, <1>3, <1>4, <1>5, <1>6 DEF Next

-----------------------------------------------------------------------------
(* The theorems.                                                           *)

SpeedTestInv == TypeOK /\ OrderInv /\ PermitInv /\ CauseInv

LEMMA SpeedTestInvariant == Spec => []SpeedTestInv
<1>1. Init => SpeedTestInv
  <2> SUFFICES ASSUME Init PROVE SpeedTestInv
    OBVIOUS
  <2>1. TypeOK
    BY InitType
  <2>2. OrderInv
    BY DEF Init, OrderInv, Ordered, Unused, NoHandler
  <2>3. \A x \in Test, u \in Url, v \in Slot, n \in Node : ~Holds(x, u, v, n)
    BY SpeedTestAssumption DEF Init, Holds, NoHandler, Slot, Url
  <2>4. PermitInv
    BY <2>3 DEF Init, PermitInv
  <2>5. CauseInv
    BY DEF Init, CauseInv
  <2> QED BY <2>1, <2>2, <2>4, <2>5 DEF SpeedTestInv
<1>2. SpeedTestInv /\ [Next]_vars => SpeedTestInv'
  BY NextType, NextOrder, NextPermit, NextCause DEF SpeedTestInv
<1> QED BY <1>1, <1>2, PTL DEF Spec

\* Type correctness of the leader's, the source's and the target's side of a test.
THEOREM SpeedTestsTypeCorrect == Spec => []TypeOK
BY SpeedTestInvariant, PTL DEF SpeedTestInv

\* speedtest_limiter lets one download or stream of a node run at a time: of whatever
\* tests, over whatever addresses, and beside whatever has been given up.
THEOREM AlwaysOneTransfer == Spec => []OneTransferPerNode
<1>1. PermitInv => OneTransferPerNode
  <2> SUFFICES ASSUME PermitInv, NEW n \in Node
               PROVE  Cardinality(UNION {{x} \X Activities(x, n) : x \in Test}) =< 1
    BY DEF OneTransferPerNode
  <2> DEFINE A == UNION {{x} \X Activities(x, n) : x \in Test}
  <2>1. \A a \in A : \E x \in Test, u \in Url, v \in Slot :
          a = <<x, <<u, v>>>> /\ Holds(x, u, v, n)
    <3> SUFFICES ASSUME NEW x \in Test, NEW p \in Activities(x, n)
                 PROVE  \E u \in Url, v \in Slot : p = <<u, v>> /\ Holds(x, u, v, n)
      OBVIOUS
    <3>1. 0 \in Slot /\ \A v \in Url : v \in Slot /\ v # 0
      BY SpeedTestAssumption DEF Slot, Url
    <3>2. CASE p \in {<<u, 0>> : u \in {w \in Url :
                        Source(x) = n /\ handler[x][w].stage = "loading"}}
      BY <3>1, <3>2 DEF Holds
    <3>3. CASE p \in Url \X Url /\ Destination(x) = n /\ stream[x][p[1]][p[2]] = "streaming"
      <4>1. PICK u \in Url, v \in Url : p = <<u, v>>
        BY <3>3
      <4> QED BY <3>1, <3>3, <4>1 DEF Holds
    <3> QED BY <3>2, <3>3 DEF Activities
  <2>2. \A a, b \in A : a = b
    BY <2>1 DEF PermitInv
  <2> HIDE DEF A
  <2>3. Cardinality(A) =< 1
    <3>1. CASE A = {}
      BY <3>1, FS_EmptySet
    <3>2. CASE A # {}
      <4>1. PICK a \in A : A = {a}
        BY <2>2, <3>2
      <4> QED BY <4>1, FS_Singleton
    <3> QED BY <3>1, <3>2
  <2> QED BY <2>3 DEF A
<1> QED BY <1>1, SpeedTestInvariant, PTL DEF SpeedTestInv

\* A test fails only where something outside it has hindered it, which is another test,
\* the network, a crash, or that source and target are configured so that they refuse
\* it: what a test gives up itself never refuses it, as it gives up only what the network
\* has broken.
THEOREM FailureAlwaysHasCause == Spec => []FailureHasCause
<1>1. CauseInv => FailureHasCause
  BY DEF CauseInv, FailureHasCause
<1> QED BY <1>1, SpeedTestInvariant, PTL DEF SpeedTestInv
=============================================================================
