----------------------------- MODULE SpeedTest ------------------------------
(***************************************************************************)
(* /speedtest <host> and /speedtest <source> <target>: the leader asks the *)
(* source (src/cluster.rs), the source takes its permit and downloads from *)
(* the target or the internet (src/speedtest.rs, src/http.rs), and the     *)
(* target takes its own permit, which goes with the stream it serves.      *)
(*                                                                         *)
(* Permits are tried and never waited for.  Leader and source try one      *)
(* address after the other; what they give up may go on for a while at its *)
(* server, with the permit.  The flag that lets a leader run one test at a *)
(* time is left out, so tests may overlap in every way.                    *)
(***************************************************************************)
EXTENDS Integers, FiniteSets

CONSTANTS
  Node,        \* the hosts
  Known,       \* <<s, t>>: t is one of the peers of s
  Allowed,     \* <<s, t>>: peer_bytes of s is within max_bytes of t
  Internet,    \* the target of /speedtest <host>
  Test,        \* speed tests
  Urls,        \* addresses of each peer, and download URLs
  None,        \* no host
  MaxTrouble   \* bound: attempts that go on after they are given up, and crashes

ASSUME SpeedTestAssumption ==
  /\ Known \subseteq Node \X Node /\ Allowed \subseteq Node \X Node
  /\ Internet \notin Node /\ None \notin Node \cup {Internet}
  /\ Urls \in Nat \ {0}
  /\ MaxTrouble \in Nat

VARIABLES
  free,      \* whether speedtest_limiter of each node has its permit
  test,      \* the leader's side of each test
  handler,   \* what became of the request at the source, by the source's URL
  stream,    \* and of each download of that request, by the target's URL
  hindered,  \* tests that something outside them has hindered
  trouble    \* attempts left behind and crashes so far

vars == <<free, test, handler, stream, hindered, trouble>>

Url == 1 .. Urls

TestRecord == [stage : {"none", "waiting", "done", "failed", "dead"},
               at : Node \cup {None}, src : Node \cup {None},
               dst : Node \cup {Internet, None}, url : Url]

Handler == [stage : {"none", "sent", "loading", "yes", "no"}, url : Url]

StreamStage == {"none", "sent", "streaming", "served", "refused"}

NoHandler == [stage |-> "none", url |-> 1]

Source(x) == test[x].src
Destination(x) == test[x].dst

\* The leader waits for this request, the source for this download.
Asked(x, u) == test[x].stage = "waiting" /\ test[x].url = u
Wanted(x, u, v) == handler[x][u].stage = "loading" /\ handler[x][u].url = v

\* What a test does at a node: its downloads there and the streams it is served.
Activities(x, n) ==
  {<<u, 0>> : u \in {w \in Url : Source(x) = n /\ handler[x][w].stage = "loading"}}
  \cup {p \in Url \X Url : Destination(x) = n /\ stream[x][p[1]][p[2]] = "streaming"}

OthersAt(x, n) == \E y \in Test \ {x} : Activities(y, n) # {}

Init ==
  /\ free = [n \in Node |-> TRUE]
  /\ test = [x \in Test |-> [stage |-> "none", at |-> None, src |-> None,
                             dst |-> None, url |-> 1]]
  /\ handler = [x \in Test |-> [u \in Url |-> NoHandler]]
  /\ stream = [x \in Test |-> [u \in Url |-> [v \in Url |-> "none"]]]
  /\ hindered = {}
  /\ trouble = 0

Trouble == trouble < MaxTrouble /\ trouble' = trouble + 1

-----------------------------------------------------------------------------
(* The leader.                                                             *)

\* speedtest_between_hosts or speedtest_internet_for_host: the source is asked at its
\* first URL, or is this node.  Hosts that this node does not know start no test.
Start(x, n, s, t) ==
  /\ test[x].stage = "none"
  /\ s # t /\ {s, t} \subseteq {n, Internet} \cup {p \in Node : <<n, p>> \in Known}
  /\ test' = [test EXCEPT ![x] = [stage |-> "waiting", at |-> n, src |-> s,
                                  dst |-> t, url |-> 1]]
  /\ handler' = [handler EXCEPT ![x][1].stage = "sent"]
  /\ UNCHANGED <<free, stream, hindered, trouble>>

\* The source's answer.
Hears(x) ==
  /\ test[x].stage = "waiting"
  /\ handler[x][test[x].url].stage = "yes"
  /\ test' = [test EXCEPT ![x].stage = "done"]
  /\ handler' = [handler EXCEPT ![x][test[x].url] = NoHandler]
  /\ UNCHANGED <<free, stream, hindered, trouble>>

\* An attempt has failed, by an error of the source or of the connection, or by
\* rpc_timeout_seconds, when the source may still be at work.  A local call has
\* neither connection nor timeout.
AttemptFails(x, u) ==
  \/ handler[x][u].stage = "no" /\ UNCHANGED <<hindered, trouble>>
  \/ /\ handler[x][u].stage \in {"sent", "yes"} /\ Source(x) # test[x].at
     /\ hindered' = hindered \cup {x} /\ UNCHANGED trouble
  \/ /\ handler[x][u].stage = "loading" /\ Source(x) # test[x].at
     /\ hindered' = hindered \cup {x} /\ Trouble

\* The handlers of a test without one that no longer works.
Without(x, u) == IF handler[x][u].stage = "loading" THEN handler[x]
                 ELSE [handler[x] EXCEPT ![u] = NoHandler]

TryNextUrl(x) ==
  /\ test[x].stage = "waiting" /\ Source(x) # test[x].at /\ test[x].url < Urls
  /\ AttemptFails(x, test[x].url)
  /\ test' = [test EXCEPT ![x].url = @ + 1]
  /\ handler' = [handler EXCEPT ![x] =
                   [Without(x, test[x].url) EXCEPT ![test[x].url + 1].stage = "sent"]]
  /\ UNCHANGED <<free, stream>>

Fails(x) ==
  /\ test[x].stage = "waiting"
  /\ Source(x) = test[x].at \/ test[x].url = Urls
  /\ AttemptFails(x, test[x].url)
  /\ test' = [test EXCEPT ![x].stage = "failed"]
  /\ handler' = [handler EXCEPT ![x] = Without(x, test[x].url)]
  /\ UNCHANGED <<free, stream>>

-----------------------------------------------------------------------------
(* The source: speedtest_peer and speedtest_internet.                      *)

\* The handler's end, for a leader that waits or for no one.
Ends(x, u, answer) ==
  handler' = [handler EXCEPT ![x][u] =
                IF Asked(x, u) THEN [stage |-> answer, url |-> 1] ELSE NoHandler]

KnowsTarget(x) == Destination(x) = Internet \/ <<Source(x), Destination(x)>> \in Known

\* try_acquire, and the first address of the target.
Admit(x, u) ==
  /\ handler[x][u].stage = "sent" /\ free[Source(x)] /\ KnowsTarget(x)
  /\ free' = [free EXCEPT ![Source(x)] = FALSE]
  /\ handler' = [handler EXCEPT ![x][u] = [stage |-> "loading", url |-> 1]]
  /\ stream' = [stream EXCEPT ![x][u][1] = "sent"]
  /\ UNCHANGED <<test, hindered, trouble>>

\* "unknown peer": the permit is dropped as soon as it was taken.
TargetUnknown(x, u) ==
  /\ handler[x][u].stage = "sent" /\ free[Source(x)] /\ ~KnowsTarget(x)
  /\ Ends(x, u, "no")
  /\ hindered' = hindered \cup {x}
  /\ UNCHANGED <<free, test, stream, trouble>>

\* "speedtest already running on this node"
Refuse(x, u) ==
  /\ handler[x][u].stage = "sent" /\ ~free[Source(x)]
  /\ Ends(x, u, "no")
  /\ hindered' = IF OthersAt(x, Source(x)) THEN hindered \cup {x} ELSE hindered
  /\ UNCHANGED <<free, test, stream, trouble>>

\* The streams of a request without one that no longer runs.
Stopped(x, u, v) == IF stream[x][u][v] = "streaming" THEN stream[x][u]
                    ELSE [stream[x][u] EXCEPT ![v] = "none"]

\* Exactly the bytes that were asked for have arrived, perhaps before the target drops
\* the stream: the source's permit is dropped.
Loaded(x, u) ==
  LET v == handler[x][u].url IN
  /\ handler[x][u].stage = "loading"
  /\ stream[x][u][v] \in {"streaming", "served"}
  /\ Ends(x, u, "yes")
  /\ free' = [free EXCEPT ![Source(x)] = TRUE]
  /\ stream' = [stream EXCEPT ![x][u] = Stopped(x, u, v)]
  /\ UNCHANGED <<test, hindered, trouble>>

\* A download fails: refused by the target; or broken, short or out of time, when the
\* target may still be at work.
DownloadFails(x, u, v) ==
  \/ stream[x][u][v] = "refused" /\ UNCHANGED <<hindered, trouble>>
  \/ /\ stream[x][u][v] \in {"sent", "served"}
     /\ hindered' = hindered \cup {x} /\ UNCHANGED trouble
  \/ stream[x][u][v] = "streaming" /\ hindered' = hindered \cup {x} /\ Trouble

\* Mutant of NextAddress: one address too many.
NextAddressBeyond(x, u) ==
  LET v == handler[x][u].url IN
  /\ handler[x][u].stage = "loading" /\ v =< Urls
  /\ DownloadFails(x, u, v)
  /\ handler' = [handler EXCEPT ![x][u].url = v + 1]
  /\ stream' = [stream EXCEPT ![x][u] = [Stopped(x, u, v) EXCEPT ![v + 1] = "sent"]]
  /\ UNCHANGED <<free, test>>

NextAddress(x, u) ==
  LET v == handler[x][u].url IN
  /\ handler[x][u].stage = "loading" /\ v < Urls
  /\ DownloadFails(x, u, v)
  /\ handler' = [handler EXCEPT ![x][u].url = v + 1]
  /\ stream' = [stream EXCEPT ![x][u] = [Stopped(x, u, v) EXCEPT ![v + 1] = "sent"]]
  /\ UNCHANGED <<free, test>>

\* Mutant of LoadFails: the permit is kept when the last address has failed.
LoadFailsKeeping(x, u) ==
  LET v == handler[x][u].url IN
  /\ handler[x][u].stage = "loading" /\ v = Urls
  /\ DownloadFails(x, u, v)
  /\ Ends(x, u, "no")
  /\ stream' = [stream EXCEPT ![x][u] = Stopped(x, u, v)]
  /\ UNCHANGED <<free, test>>

LoadFails(x, u) ==
  LET v == handler[x][u].url IN
  /\ handler[x][u].stage = "loading" /\ v = Urls
  /\ DownloadFails(x, u, v)
  /\ Ends(x, u, "no")
  /\ free' = [free EXCEPT ![Source(x)] = TRUE]
  /\ stream' = [stream EXCEPT ![x][u] = Stopped(x, u, v)]
  /\ UNCHANGED test

\* The source notices that the leader has gone, and drops handler and permit.
DropHandler(x, u) ==
  LET v == handler[x][u].url IN
  /\ handler[x][u].stage = "loading" /\ ~Asked(x, u)
  /\ handler' = [handler EXCEPT ![x][u] = NoHandler]
  /\ free' = [free EXCEPT ![Source(x)] = TRUE]
  /\ stream' = [stream EXCEPT ![x][u] = Stopped(x, u, v)]
  /\ UNCHANGED <<test, hindered, trouble>>

-----------------------------------------------------------------------------
(* The target: speedtest_bytes and speedtest_stream.                       *)

\* Mutant of Serve: the permit is dropped when the handler returns the response.
ServeUnheld(x, u, v) ==
  /\ stream[x][u][v] = "sent" /\ Destination(x) # Internet
  /\ <<Source(x), Destination(x)>> \in Allowed
  /\ free[Destination(x)]
  /\ stream' = [stream EXCEPT ![x][u][v] = "streaming"]
  /\ UNCHANGED <<free, test, handler, hindered, trouble>>

\* "speedtest bytes exceeds configured max": requested_bytes, before the permit.
TooManyBytes(x, u, v) ==
  /\ stream[x][u][v] = "sent" /\ Destination(x) # Internet
  /\ <<Source(x), Destination(x)>> \notin Allowed
  /\ stream' = [stream EXCEPT ![x][u][v] = "refused"]
  /\ hindered' = hindered \cup {x}
  /\ UNCHANGED <<free, test, handler, trouble>>

\* try_acquire_owned, and the permit goes with the stream.
Serve(x, u, v) ==
  /\ stream[x][u][v] = "sent" /\ Destination(x) # Internet
  /\ <<Source(x), Destination(x)>> \in Allowed
  /\ free[Destination(x)]
  /\ free' = [free EXCEPT ![Destination(x)] = FALSE]
  /\ stream' = [stream EXCEPT ![x][u][v] = "streaming"]
  /\ UNCHANGED <<test, handler, hindered, trouble>>

TurnAway(x, u, v) ==
  /\ stream[x][u][v] = "sent" /\ Destination(x) # Internet
  /\ <<Source(x), Destination(x)>> \in Allowed
  /\ ~free[Destination(x)]
  /\ stream' = [stream EXCEPT ![x][u][v] = "refused"]
  /\ hindered' = IF OthersAt(x, Destination(x)) THEN hindered \cup {x} ELSE hindered
  /\ UNCHANGED <<free, test, handler, trouble>>

\* A server of the internet holds no permit.
ServeInternet(x, u, v) ==
  /\ stream[x][u][v] = "sent" /\ Destination(x) = Internet
  /\ stream' = [stream EXCEPT ![x][u][v] = "served"]
  /\ UNCHANGED <<free, test, handler, hindered, trouble>>

\* The last chunk is handed to the connection, or the target notices that the source
\* has gone: the stream and its permit are dropped.
Served(x, u, v) ==
  /\ stream[x][u][v] = "streaming"
  /\ stream' = [stream EXCEPT ![x][u][v] = IF Wanted(x, u, v) THEN "served" ELSE "none"]
  /\ free' = [free EXCEPT ![Destination(x)] = TRUE]
  /\ UNCHANGED <<test, handler, hindered, trouble>>

\* A process ends and boots.  A remote leader hears the answer the source had sent, or
\* that the connection was closed.
Crash(n) ==
  /\ Trouble
  /\ free' = [free EXCEPT ![n] = TRUE]
  /\ test' = [x \in Test |-> IF test[x].stage = "waiting" /\ test[x].at = n
                             THEN [test[x] EXCEPT !.stage = "dead"] ELSE test[x]]
  /\ handler' = [x \in Test |-> [u \in Url |->
       IF Source(x) # n THEN handler[x][u]
       ELSE IF ~Asked(x, u) \/ test[x].at = n THEN NoHandler
       ELSE IF handler[x][u].stage \in {"sent", "loading"} THEN [stage |-> "no", url |-> 1]
       ELSE handler[x][u]]]
  /\ stream' = [x \in Test |-> [u \in Url |-> [v \in Url |->
       IF Destination(x) = n /\ stream[x][u][v] \in {"sent", "streaming"}
       THEN IF Wanted(x, u, v) THEN "refused" ELSE "none"
       ELSE IF Source(x) = n /\ stream[x][u][v] # "streaming" THEN "none"
       ELSE stream[x][u][v]]]]
  /\ hindered' = hindered \cup {x \in Test : n \in {Source(x), Destination(x)}}

TestStep(x) == Hears(x) \/ TryNextUrl(x) \/ Fails(x)

HandlerStep(x, u) ==
  \/ Admit(x, u) \/ TargetUnknown(x, u) \/ Refuse(x, u)
  \/ Loaded(x, u) \/ NextAddress(x, u) \/ LoadFails(x, u)
  \/ DropHandler(x, u)

StreamStep(x, u, v) ==
  \/ Serve(x, u, v) \/ TooManyBytes(x, u, v) \/ TurnAway(x, u, v) \/ ServeInternet(x, u, v)
  \/ Served(x, u, v)

Next ==
  \/ \E x \in Test, n \in Node, s \in Node, t \in Node \cup {Internet} : Start(x, n, s, t)
  \/ \E x \in Test : TestStep(x)
  \/ \E x \in Test, u \in Url : HandlerStep(x, u)
  \/ \E x \in Test, u \in Url, v \in Url : StreamStep(x, u, v)
  \/ \E n \in Node : Crash(n)

\* Every step is one of a task or of a server that does not block, and every request
\* ends by the timeout of its client.
Fairness ==
  /\ \A x \in Test : WF_vars(TestStep(x))
  /\ \A x \in Test, u \in Url : WF_vars(HandlerStep(x, u))
  /\ \A x \in Test, u \in Url, v \in Url : WF_vars(StreamStep(x, u, v))

Spec == Init /\ [][Next]_vars /\ Fairness

-----------------------------------------------------------------------------
(* Properties.                                                             *)

TypeOK ==
  /\ free \in [Node -> BOOLEAN]
  /\ test \in [Test -> TestRecord]
  /\ handler \in [Test -> [Url -> Handler]]
  /\ stream \in [Test -> [Url -> [Url -> StreamStage]]]
  /\ hindered \in SUBSET Test
  /\ trouble \in Nat

\* "Only one expensive speed test runs per node at a time": of all tests that download
\* to a node or are served by it there is one at most, also when leader or source have
\* given up and try the next address.
OneTransferPerNode ==
  \A n \in Node : Cardinality(UNION {{x} \X Activities(x, n) : x \in Test}) =< 1

\* A test that nothing has hindered does not fail, and nothing the test itself gave up
\* hinders it.  What hinders is another test at its source or target; the network, to
\* which a rejected secret and an answer of the wrong host count as well; a crash of
\* its source or target; and how these are configured: a source that does not know the
\* target, and a target whose max_bytes is less than the source asks for.
FailureHasCause == \A x \in Test : test[x].stage = "failed" => x \in hindered

\* Every permit is there again and again, whatever was given up.
PermitsReturn == \A n \in Node : []<>free[n]
=============================================================================
