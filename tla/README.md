# A verification of distributed-watchdog

distributed-watchdog runs the same program on every machine of a small fleet. The
nodes poll one another over HTTP, each elects a leader from what it has heard,
the leader answers a Telegram bot, and every node schedules its own update or
shutdown when the leader asks it to with a signed request. Nobody coordinates
the nodes: each decides from its own table, several tasks of a process write that
table, and what must survive a restart is in two small files.

This directory holds TLA+ models of that program, the TLC instances that check
them and TLAPS proofs about them. `PROJECT.json` lists the components, the runs,
the mutants, the source lines behind every definition, the hazards of the code
and the theorems.

## The system

| component | state | operations | interacts with |
|---|---|---|---|
| Peer rows and failure detection (`cluster.rs`, loop in `main.rs`) | one `PeerRuntime` per peer: online, last_seen, first_seen, last_error, missed_heartbeats, health | poll_peers, collect_metrics_for_host, enqueue of online/offline alerts, ensure_restart_allowed | written by the poll loop and by every live monitor; read by the election and the restart check |
| Leader election (`cluster.rs`) | `leader_id` of each node | compute_leader_locked, recompute_leader | reads the rows; everything on the Telegram side asks is_leader |
| Update guard (`cluster.rs`, `updater.rs`, `http.rs`) | `UpdateRuntime` (operations seen, busy_until) and `update-operations.json` | schedule_update_request and the error path of the launcher | called by concurrent HTTP requests; the launcher is an external program |
| Telegram polling (`telegram.rs`) | run's offset, the file `telegram-offset` | run: get_updates, handle, commit, store | Telegram's queue of updates; restarted by `main.rs` after an error |
| Alert delivery (`telegram.rs`, `cluster.rs`) | `AppState.alerts` | enqueue, drain, requeue; alert_loop | filled by the poll loop and the metrics; emptied by every loop that run has spawned |
| Live monitors (`telegram.rs`) | map of monitors, one task each | /monitor, Stop, the task's frames and its end | message handler, tasks, restarts of run, the peers' rows |
| Update dispatch (`telegram.rs`, `cluster.rs`) | `update_running` | /update: targets in order, one signed request each | the update guards of all nodes |
| Background commands and permits (`speedtest.rs`, `http.rs`, `telegram.rs`) | running flags, semaphores, streams | /speedtest | permits of two nodes at once |
| Screenshot capture (`screenshot.rs`, `telegram.rs`, `cluster.rs`, `http.rs`) | `screenshot_running`, `screenshot_limiter`, a temporary directory per capture | /screenshot, the screenshot endpoint, the programs tried in turn | one permit per host for every leader; programs the host does not wait for |
| Power commands (`power.rs`, `telegram.rs`, `http.rs`) | the host itself | /off, /on, the shutdown endpoint | restart check; the host goes down with its requests |
| Threshold alerts (`cluster.rs`) | `threshold_alerts`: time of the last alert per host and metric | enqueue_metric_alerts | poll loop and live monitors; the clock of the machine |
| Chat authorisation and rate limits (`telegram.rs`) | username of the bot, two tables of strangers | the gates of handle_message, rate_limit | restarts of run |
| HTTP server, configuration, metrics, rendering, deployment scripts | - | - | framework, operating system |

What is hard in it, and which property of which module is about it, is the list
of hazards in `PROJECT.json`. In short: rows written by several tasks between one
another's fetches; alerts queued after the lock that justified them is released;
tables of different nodes that disagree while answers are in flight and processes
restart; a file rewritten in place, by requests that may be dropped half-way; a
queue of another service that forgets what a node asks it to forget; an error
path that undoes what another request did; tasks that outlive the structure that
knows of them.

What makes each component correct:

* rows: the fields agree; what is told to people is what the table says; a dead
  peer is reported and stops leading;
* election: nodes with current knowledge neither both lead nor wait for one
  another; they settle on one leader once the fleet is stable;
* update guard: an operation is launched once and no sooner than the cooldown after
  the last launch, across crashes, unless what says so was lost for one of the causes
  the code knows;
* polling: no update is dropped unhandled, an acknowledged one is not repeated,
  polling goes on after failures;
* alerts: none is lost or duplicated without cause, order is kept, a chat that
  refuses starves nobody;
* monitors: one per chat, Stop works, all end;
* dispatch: a command launches a node's updater at most once, its report is true
  and complete, the leader goes last, one command at a time;
* speed tests: one transfer per node, permits that come back, no failure without
  a cause;
* screenshots: fresh and whole, the permit stands for a capture and comes back;
* power: a shutdown is reported only where one was accepted;
* threshold alerts: repeated after the window and no sooner;
* authorisation: who may control is who the documents say; a stranger is held up for
  the window and no longer.

## The modules

| module | models |
|---|---|
| `PeerRuntime` | one row, and what a poll answer, a monitor's answer, a miss and time do to it; the tests the election and the restart check make of it |
| `Election` | the order of candidates and the choice |
| `FailureDetector` | one node: poll round (fetch, write under the lock, queue alerts, recompute, announce), any number of live monitors writing the same rows, the restart check with its two separate locks, peers that die, time |
| `Fleet` | every node of a fleet polling the others: answers in flight, processes that stop and boot again, lossy links |
| `UpdateGuard` | concurrent requests through validation, the read of the clock before the mutex, load-merge-prune-check-reserve, truncation and write of the file, launcher, error path, dropped requests, crash |
| `TelegramPoll` | run on several nodes and Telegram's queue: batches, commit, truncation and write of the offset, errors, restarts of run, crashes |
| `AlertQueue` | the queue and the alert loops: drain, each chat in turn, retry, requeue, further loops after run restarted |
| `LiveMonitor` | /monitor, Stop, the tasks, restarts of run with a new map |
| `UpdateDispatch` | /update on every node that leads: the flag, the targets in order, one attempt per address, answers that are lost, attempts that arrive late, the targets' checks, launchers, restarts and changes of leader |
| `SpeedTest` | tests between nodes and the internet: the leader's attempts at the source, the source's permit and its downloads, the target's permit and its streams |
| `HostCommands` | /screenshot, /off and /on of one host: tasks of several leaders, the requests over each address, the host's permit, the programs and the picture each capture reads, programs that go on after their time or their request is over, the host that goes down |
| `Throttles` | the gates of handle_message with the two tables of strangers, and the throttle of the threshold alerts under a clock that may be set |
| `UpdateLedger` | abstract: what a node that notes its updates promises of its updater, across restarts |
| `UpdateLauncher` | abstract: what a node that runs on promises of its updater, whoever asks for it |
| `MC...` | constants for TLC |
| `FailureDetectorProofs`, `FleetProofs`, `UpdateGuardProofs`, `UpdateDispatchProofs`, `SpeedTestProofs`, `HostCommandsProofs` | the proofs about the module of that name |
| `TelegramProofs` | the proofs about `TelegramPoll` and `LiveMonitor` |
| `AlertProofs` | the proofs about `AlertQueue` and `Throttles` |

`FailureDetector` and `Fleet` are both built on `PeerRuntime` and `Election`. The
other modules meet at values that are left open here and chosen there:
`TelegramPoll`, `AlertQueue` and `LiveMonitor` let the environment choose who
takes itself for leader, and `Fleet` says which choices there are (two at a time
while knowledge is missing); `UpdateGuard` lets requests arrive in any order and
number, which covers every leader. `UpdateDispatch` takes from it what a target
does with a request (refuse what it has seen or what meets a cooldown, note,
launch) and from `Fleet` that opinions about the leader may change at any time.
In `SpeedTest` tests overlap freely: the flag that lets a leader run one at a time
is the one of `UpdateDispatch`, and two leaders have one each. `HostCommands` has that
flag and the permit together, since a leader's flag may come back while the host
still captures for it.

### The abstract specifications

Two small modules say what the update machinery is for.

`UpdateLedger` is what `UpdateGuard` implements, through the file, the mutex,
concurrent and dropped requests, failed launchers and crashes: an operation is
launched once, or again after its note was lost, and a launch comes no sooner than the
cooldown after the one before, unless that cooldown was lifted or lost. Its
variables are the guard's own history variables `launches`, `until` and
`forgotten`. The ledger alone would let a note be lost at will;
`ForgetsForCause`, `LaunchedIsRemembered` and `CooldownRemembered` say that the guard
loses one only when the limit of the history cuts it off or the write of a
dropped request overwrites it, and that what is not lost meets every request.

`UpdateLauncher` is what every target of `UpdateDispatch` implements (`Updater(n)`, with
commands as operations), through attempts on several addresses, answers that are
lost and leaders that change: one launcher at a time, and one for each operation.
`UpdateDispatch` takes for granted of a target that it refuses what it has noted and
whatever meets a launcher at work. The first is `LaunchedIsRemembered`, where
no note is lost. The second holds where the cooldown outlasts the launcher:
it does with the default timeout (30 s against a cooldown of 60 s), and may fail where
update.timeout_seconds is 60 s and more, since the cooldown is then as long as the
launcher and the launcher starts later; so `UpdateGuard`
makes no such claim.

In both, the property `LaunchesOnce` is the abstract specification under the
mapping: checked by `UpdateFaults` and `DispatchShared`, proved for every value of the
constants by `GuardImplementsLedger` and `TargetsImplementLauncher`.

Actions correspond to the stretches of code between two awaits at which another
task can change what is read, or between two effects a crash can separate.
Examples: `ApplyPoll` is everything poll_peers does under its write lock,
`EnqueuePollAlerts` what it does after the lock is dropped; `Reserve` is
reserve_update_operation under the mutex up to the start of the write;
`Truncate` and `SaveEnds`/`StoreEnds` are the two halves of `tokio::fs::write`.
A fetch that has not answered when its round ends has failed, so errors of a
fetch need no action of their own in `FailureDetector`.

Abstractions worth knowing: `last_seen` is kept as an age up to one past the
lease; `missed_heartbeats` saturates at a bound that stands for u64::MAX; an
update, an alert or an operation is a number or a model value; signatures are
taken as valid; a "handled" update includes one answered with "send it again" by a
node that has just ceased to lead. In `UpdateDispatch` an attempt that is given up
either is lost, or ends with its connection, or goes on at the target, which the
bound `MaxChanges` counts; the time to live of a request is `UpdateGuard`'s. In
`UpdateGuard` an operation that was launched `MaxLaunches` times is not delivered again,
and the write of a dropped request may take any time. In
`SpeedTest` bytes may still be under way when the target has dropped its permit,
and the other way round; who is among whose peers (`Known`) and whose byte count is within
whose limit (`Allowed`) are constants. In `HostCommands` a picture is who drew it, with which of its
programs, and whether to its end; a request that a leader has given up stays with the
host until the host notices, which hyper may never do before it answers; a capture's
file is read in one step. In `Throttles` instants are ages that grow with each tick,
and an age past `Old` is as good as `Old`.

## The runs

All runs take two minutes at most.

| run | instance | shows |
|---|---|---|
| `FDWatched` | 2 peers, one that a monitor shows and one that may say it is not eligible, threshold 2, lease 1 | `RowsConsistent`, `AlertsMatchTable`, `LeaderAnnounced`, `RestartLeavesSuccessor`; live: `DeadPeerTold`, `DeadLeaderReplaced` |
| `FleetSettles` | 3 nodes, one may stop and boot again, one lossy link, rounds that may take twice the lease | `KnowledgePreventsSplit`; live: `EventualAgreement` |
| `UpdateFaults` | 2 operations and a history limited to 1, 2 requests at a time, 5 points in time, a launcher that may take the whole cooldown, 2 crashes or dropped requests | `LaunchesOnce` (the refinement of `UpdateLedger`), `ForgetsForCause`, `LaunchedIsRemembered`, `CooldownRemembered` |
| `PollShared` | 2 nodes, any of which lead, 2 updates, 1 crash | `NothingSkipped`, `AckedNotRepeated`; live: `EveryUpdateHandled` |
| `Notices` | three parts, one at a time: 2 loops, 2 chats, 3 alerts; 2 strangers and a table of 2, an authorized group and private chat, windows of 1 and 2; one metric, the clock set once | `NothingLost`, `RepeatsHaveCause`, `RaisedOrder`, `ControlAsDocumented`, `AnswersPaced`, `AlertsPaced`; live: `ReliableChatsHear` |
| `MonitorsLive` | 2 chats, 2 monitors, limit of 2 frames, 1 restart of run | `OneMonitorPerChat`, `StoppedStays`; live: `MonitorEnds` |
| `DispatchShared` | 2 nodes with 2 addresses, 2 commands, 1 change (new leader, restart, attempt that goes on) | `LaunchesOnce` (the refinement of `UpdateLauncher`, for each target), `QueuedIsScheduled`, `EveryTargetTold`, `LeaderLastOfAll`; live: `FlagReturns` |
| `SpeedTests` | 3 nodes, of which 2 know one another and one is known to one only, and the internet, 2 addresses, 2 tests, 1 attempt that goes on or crash; one asks for more bytes than another allows | `OneTransferPerNode`, `FailureHasCause`; live: `PermitsReturn` |
| `HostTold` | 2 commands to one host, from another node, itself or both, 2 addresses, 2 programs, 1 program that goes on unwaited for, 1 restart of run or of a process | `FreshPicture`, `WholePicture`, `PermitIsCapture`, `OffHonest`; live: `CaptureReturns` |

Why the bounds are enough. Two peers let one be watched by a monitor and the other
not, and let one outrank this node by priority and the other by age. A threshold of
two is the least at which a first miss differs from the last, a lease of one the least
that a miss can use up. Three nodes give a pair of equal rank and a third node; a
round twice as long as the lease lets a peer drop out of it before its second miss, as
rounds of more than 15 s do with the defaults. Two requests at a time and two
operations are the least for a request to meet another's cooldown, file content and
mutex, and for a history of one to cut one off. Five points in time cover a signature
that expires, a cooldown that ends and a launcher that ends with it, and two faults
let one request be dropped with a write under way and the process crash once that
write has landed. The clocks of leader and node agree in these two instances; with a
skew of one tick `UpdateFaults` passes as well, in four minutes, and the theorems hold
for any. Two updates make a batch in which the first fails to commit. Three alerts let
one be drained, one be put back and one arrive. Two addresses let an attempt be given
up at one and retried at the other, two commands let one meet the flag, the operation
and the cooldown of the other, on one leader or on two; two tests are the least that
can meet in opposite directions, and the third node is a target that one source knows
and the other does not. Two programs let one draw after its time while the next draws,
two commands let one go on capturing while the other asks, and one program left behind
is enough to draw into either's directory. A table of two is full with the second
stranger; the two windows differ, and a clock set by the length of the alerts' window
lets an alert through at once or holds it for twice as long. The theorems below hold
for every number of any of these, where there is one.

Deadlock is checked except in `UpdateFaults`, `UpdateForgets`, `PollShared`, `PollTorn`,
`DispatchShared`, `SpeedTests` and `HostTold`, where the model ends with its
last point in time, update, command or test.

Some runs are expected to fail: each shows that the program does not do what its
documents say.

| run | what happens |
|---|---|
| `FDMonitorHides` | a live monitor's misses take a peer offline without an alert; the poll loop alerts on a change only and finds none, so the death of the peer is never reported |
| `UpdateForgets` | a request is dropped while its reservation is saved; the write goes on without the mutex and lands on the note of an operation launched since, so that after a restart the request of that operation is accepted again and its updater started twice (`NoReplay`). The dropped request has set a cooldown of its own, so its write must outlast it, or another's failed launcher must have lifted it |
| `PollTorn` | a crash between truncation and write of `telegram-offset` leaves a file that ends every later run at once, on a node that goes on being elected |

More of the kind, seen while modelling and not given a run:

* The restart check asks the configured `eligible_leader` (`cluster.rs:286`), the
  election also the one in the health answer (`cluster.rs:878`). Where a configured
  candidate says that it is not eligible, as c may in `FDWatched`, a leader restarts
  when nobody would follow it; `Doubtful` in `RestartLeavesSuccessor` is that case.
* The error path of `schedule_local_update` (`cluster.rs:648`) clears busy_until
  whoever set it: where a launcher may run as long as the cooldown, one that times out
  lifts the cooldown of the next, and two launchers may run at a time. In
  `UpdateFaults` it may; no document excludes it, and `UpdateLedger` lets a cooldown be
  lifted.
* More than 256 operations in the history window make prune forget those that were seen
  first although their requests may still be accepted (`CutOff`).
* An online row may be out of its lease: with the defaults (heartbeat 10 s, request
  timeout 15 s, lease 30 s, three misses) slow rounds use up the lease before the
  misses, and the peer is no candidate any more before it is reported offline.
* After run was restarted (`telegram.rs:133`, `main.rs:109-120`) Stop does not
  find the monitors of the run before and its message is drawn over again;
  `StoppedStays` without `Current(m)` fails.
* A host whose answer was lost is reported as failed ("not scheduled; check local
  update.log", `telegram.rs:818`) although its launcher ran; and since
  `error_for_status` drops the body of an error answer, "duplicate update
  operation" of a peer is reported in the same words.
* A node compares its own `node.priority` with the `priority` of its peers entries,
  which is 100 unless configured (`config.rs:401`). Two nodes whose own priority is
  below that default, with entries that leave it out, follow one another and nobody
  leads; `ConfigAgreed` rules it out in `Fleet`.
* Named hosts are asked for their update in the order they are named
  (`cluster.rs:557`): /update with the leader first starts the leader's own updater
  before the peers are asked, though the deployment guide says that the leader goes
  last. `LeaderLastOfAll` is claimed of /update and /update all.
* "The leader should refuse to shut itself down unless another eligible node is
  online" (docs/PLAN.md:140), and it does so by its rows: /off of the follower and, before
  its misses are counted, /off of the leader leave nobody.
* A picture may be a part only, or another program's: `path.exists()` in
  `screenshot.rs` is also true of what a program that failed or ran out of time has
  left, once a later one exits with success without having drawn. `WholePicture` says
  exactly when.
* /off of the leader ends the process that must commit its update: if the host goes
  down first, the next leader is given the /off again.
* "Try /userinfo again in N seconds" rounds N down, so that one who waits for N
  seconds may be asked to wait again (`Throttles` has ticks and does not show it).
* When get_me fails as run begins, every mention is ignored until run is restarted,
  although "Mention me in groups" asks for one (`ControlAsDocumented` has `username`).
* The age of a threshold alert is taken by Utc (`cluster.rs:842`): a clock that is set
  back holds the alert for longer than the window, one set forward lets it through
  early. `AlertsPaced` fails without `moved`.
* Buttons are not gated by leadership: a node that has ceased to lead still stops
  a monitor it has (`handle_callback`).
* The deployment guide describes priority as a tie-breaker after start times, while
  compute_leader_locked sorts by priority first.

## Fairness

Safety needs none. The liveness properties assume weak fairness of

* the main loop (`FailureDetector`, `Fleet`) and the tasks of the Telegram side
  (`TelegramPoll`, `AlertQueue`, `LiveMonitor`, `UpdateDispatch`, `HostCommands`): they are spawned tasks on a
  multi-threaded runtime, none of them blocks, and every request they make ends
  by a client timeout;
* a call that a node makes to itself (`UpdateDispatch`), which ends by the
  launcher's timeout, and the handlers and streams of a speed test (`SpeedTest`),
  which the web server drops when their client has gone: rpc_timeout_seconds and
  timeout_seconds are such that it goes;
* the programs of the one capture a host runs (`HostCommands`), each of which is given
  ten seconds; that the host notices a client that has gone is not needed;
* nothing else: no peer needs to answer, no live monitor to draw, no chat to
  accept, no leader to stay, nobody to press Stop.

Where a property needs the environment to become stable it says so in its
premise (`calm`, `settled`, "leads for good"): a stable fleet is what "once the
links are up" means and not something the code brings about.

## What is proved

Every invariant that a passing run checks, the action properties among the other
properties, and both refinements are theorems, for every value of the constants.

* `FailureDetectorProofs`, for any peers, monitors, thresholds and configuration:
  type correctness; everything that may happen to a row keeps `RowConsistent`
  (`RowsStayConsistent`); from it `RowsConsistent`, inductive with `TypeOK` alone, because each
  writer replaces whole rows by operators that preserve `RowConsistent`;
  `LeaderAnnounced`; `AlertsMatchTable`, strengthened by `PendingEmpty` (the vector of alerts is
  empty outside poll_peers) and using `RowsConsistent` where a first contact
  must not count as a change; `NoticesAlternate` from it; `LeaderInTable`; and
  `RestartLeavesSuccessor` from `HealthInv` (an online row that no monitor writes
  holds a health answer of its peer), whatever peers say of themselves.
* `FleetProofs`, for any number of nodes: candidates with distinct ids elect at most
  one leader (`ElectionDeterministic`); type correctness; and
  `KnowledgePreventsSplit`, assuming `ConfigAgreed` (see the default of a peers entry above),
  through the fact that each leader is elected from the node's current table.
* `UpdateGuardProofs`, for any operations, requests at a time, crashes and dropped
  requests, any limit of the history and any timeout: type correctness,
  `LaunchedIsRemembered`, `ForgetsForCause`, `CooldownRemembered` and `LaunchesOnce`. The invariant
  (`ReplayInv`) says how old a request may be at each stage, that the mutex has one
  owner, that recorded times are sound, and that an operation that was launched, can
  still be replayed and is not forgotten is noted in the file, in memory once used,
  and in every content on its way to the file that a request still waits for;
  `ReadRemembers` is its core. `UntilInv` says the same of the cooldown. The one
  assumption is `2 * TTL + MaxDelay =< History` for the notes: an operation has to be
  remembered for as long as a request with a clock ahead of the node's by the time to
  live can be delivered. The code has a time to live of 300 s and a history of 900 s, so
  that a request may spend 300 s around the launcher. `GuardImplementsLedger` puts
  these together: every step of the guard is a step of `UpdateLedger` or none.
* `TelegramProofs`, for any number of nodes, leaders, crashes and failures:
  type correctness of the polling, `NothingSkipped` and `OffsetsCommitted`, by an invariant that ties each node's
  stage to what Telegram has confirmed; and `AckedNotRepeated`, because what was
  acknowledged to a node is confirmed to Telegram and lies below where the node has come
  to in its batch (`AckInv`). Of live monitors, for any chats, monitors and restarts of
  run: type correctness, which has the limit of a task in it and needs that a task draws
  before its limit only (`HandInv`); `OneMonitorPerChat`, which is not inductive, since
  the map is asked under one lock and filled under another: a task of the current run
  that lives is in the map or about to be put there (`ReachInv`), so that while the
  first message is sent its chat has no other (`SendInv`); and `StoppedStays`, because a
  task whose message says stopped, or is about to, has been aborted or has done its
  last edit (`StopInv`, which needs `ReachInv`: Stop finds no entry only where there is
  no task).
* `UpdateDispatchProofs`, for any nodes, addresses, commands and changes around them:
  type correctness; `LaunchedOnce`, because a launched operation is among those its
  node has noted and a restart forgets none of these; from it, since a launcher is at
  work for one command at a time, that every target implements `UpdateLauncher`
  (`TargetsImplementLauncher`); `QueuedIsScheduled`, from
  what an answer "yes" says of its node (`AnswerInv`); and `OneDispatch`, from the flag
  being up while a task that is no orphan is active (`FlagInv`). `TargetsResolved` says
  what resolve_update_targets makes of the hosts: those that were meant, each once, and
  with /update all this node as the last. It takes from the configuration that a host is
  not listed twice (`Config::validate`), and is proved by counting off the indices that
  are picked (`RankCounts`). With it a command tells of the targets it is done with,
  each as one thing (`ToldInv`), which gives `EveryTargetTold`; and a node hears of a
  command only in its turn (`TurnInv`), which gives `LeaderLastOfAll`.
* `SpeedTestProofs`, for any nodes, tests, addresses and changes: type correctness;
  `OneTransferPerNode` and `FailureHasCause`. The invariant has three parts. What a
  request, its handler and its downloads do comes in one order, address by address
  (`OrderInv`): a download that is given up may go on, but no two are waited for.
  A permit that is not there is held by one activity, and one that is there by none
  (`PermitInv`), from which the count of `OneTransferPerNode` follows. And a test that
  nothing has hindered is at its first address and first download, and has not
  been refused, neither a permit nor for its configuration (`CauseInv`), so that it
  cannot fail. No configuration is assumed.
* `AlertProofs`, for any loops, chats and alerts: type correctness; `NothingLost`,
  by an invariant that says where an alert that some chat lacks may be (the queue, a
  loop's hands, or what that loop will put back) and what each loop knows of the
  alert it is sending (`HeadInv`); and `RepeatsHaveCause`, because there is one copy of
  an alert (`OneCopy`), a chat that has heard of it does not get that copy again unless
  it was put back (`Unheard`), and it is put back only where a chat refused (`PutBack`).
  With one loop the alerts to put back are older than those in hand and these older
  than the queue (`LoopInOrder`), and what a reliable chat lacks is newer than all it
  has heard (`Newer`), which gives `RaisedOrder`. Of `Throttles`, for any chats, metrics,
  windows and sizes of the table: `ControlAsDocumented`, which needs no history;
  `AlertsPaced`, because the age of an alert by the clock and its true age part only in
  the way the clock was set (`ClockInv`); and `AnswersPaced`, because an entry is as old
  as the answer it stands for (`EntryInv`), and a chat that lost its entry early lost it
  when as many chats as the limit had had their answers in the two windows before, which
  a later moment still sees (`ClearedInv`).
* `HostCommandsProofs`, for any leaders, commands, addresses, programs and changes:
  type correctness, `FreshPicture`, `WholePicture`, `PermitIsCapture` and `OffHonest`. One
  inductive invariant has a part for each piece of state of a request: a request is
  sent once and only an answer to the leader that waits is kept (`CallInv`), what a
  leader waits for is there and its own (`LinkInv`), a program nobody waits for is an
  earlier one than the one its capture waits for (`LeftInv`), so a directory has
  pictures of its own request and of earlier programs only, until the one that
  succeeds has drawn (`FileInv`), and the permit stands for a capture (`PermitInv`).

The invariants the proofs add were checked by TLC on the instances of the runs
before they were proved, but for those that range over all numbers or rest on an
assumption the instance does not meet.

Model-checked only: everything live (`DeadPeerTold`, `DeadLeaderReplaced`,
`EventualAgreement`, `EveryUpdateHandled`, `ReliableChatsHear`, `MonitorEnds`,
`FlagReturns`, `PermitsReturn`, `CaptureReturns`): they rest on fairness, for which
the prover has no rule it can use. The two violations of the documents are TLC's too.

## What is not modelled

* Which value passes a threshold, and how long a shutdown is delayed: the first is
  data from `metrics.rs`, the second is always 0 in what /off sends.
* A poll task that panics (its peer is left out of the round): a panic is an
  error of the program nothing in it provokes.
* An edit of an aborted monitor task that is already on its way to Telegram: the
  order in which Telegram applies two requests is outside the program.
* A node without a Telegram token, whose run returns at once and which never
  polls although it may be elected.
* Configuration loading, metrics, rendering, serialisation, routing and the check of
  the shared secret, installers and the update agents' scripts: input and output with
  no state of their own, or outside the program.

## Plan

Done, in this order: rows and failure detection, election, fleet, update guard,
polling, alerts, monitors, update dispatch, speed tests, screenshots and power,
authorisation and throttles; the two abstract specifications and their refinements; and
the proofs above. Next:

1. A leader lock that `Fleet` implements while knowledge is complete.
2. The pure functions (requested bytes, rounding of a delay) against reference
   definitions.
