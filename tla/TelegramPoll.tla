---------------------------- MODULE TelegramPoll ----------------------------
(***************************************************************************)
(* Telegram updates handled by the nodes that take themselves for leader:  *)
(* telegram::run (src/telegram.rs) on every node, restarted by main after  *)
(* an error, and the getUpdates queue of Telegram, which forgets what is   *)
(* below the largest offset it was asked for.                              *)
(*                                                                         *)
(* Updates are numbered from 1 in the order they arrive; 0 is an offset of *)
(* None.  Which nodes take themselves for leader is the environment's      *)
(* choice here (Fleet says what it may choose).                            *)
(***************************************************************************)
EXTENDS Integers

CONSTANTS
  Node,
  Leaderships,   \* the sets of nodes that may take themselves for leader
  MaxUpdate,     \* bound: updates that arrive
  MaxCrashes,    \* bound: crashes
  Torn           \* an offset file that was truncated and not written

ASSUME PollAssumption ==
  /\ Leaderships \subseteq SUBSET Node
  /\ MaxUpdate \in Nat /\ MaxCrashes \in Nat
  /\ Torn \notin Nat

VARIABLES
  sent,        \* Telegram: the updates 1 .. sent have arrived
  confirmed,   \* Telegram: the first update it still remembers
  leading,     \* the nodes whose is_leader is true
  settled,     \* from now on one node leads and nothing fails
  stage,       \* where run is on each node
  offset,      \* run's offset
  file,        \* the file telegram-offset
  cursor,      \* the update of the batch that run has come to
  upto,        \* the last update of the batch
  handled,     \* updates that a handler came to the end of
  acked,       \* each node: the updates whose commit it was acknowledged
  crashes

telegram == <<sent, confirmed>>
history  == <<handled, acked>>
vars == <<telegram, leading, settled, stage, offset, file, cursor, upto, history, crashes>>

Larger(x, y) == IF x > y THEN x ELSE y

Init ==
  /\ sent = 0
  /\ confirmed = 1
  /\ leading \in Leaderships
  /\ settled = FALSE
  /\ stage = [n \in Node |-> "boot"]
  /\ offset = [n \in Node |-> 0]
  /\ file = [n \in Node |-> 0]      \* no file
  /\ cursor = [n \in Node |-> 0]
  /\ upto = [n \in Node |-> 0]
  /\ handled = {}
  /\ acked = [n \in Node |-> {}]
  /\ crashes = 0

-----------------------------------------------------------------------------
\* Mutant of Load: a missing file is an error too.
LoadExisting(n) ==
  /\ stage[n] = "boot"
  /\ file[n] # Torn /\ file[n] # 0
  /\ offset' = [offset EXCEPT ![n] = file[n]]
  /\ stage' = [stage EXCEPT ![n] = "idle"]
  /\ UNCHANGED <<telegram, leading, settled, file, cursor, upto, history, crashes>>

\* run starts, or is started again; a file that does not parse ends it at once.
Load(n) ==
  /\ stage[n] = "boot"
  /\ file[n] # Torn
  /\ offset' = [offset EXCEPT ![n] = file[n]]
  /\ stage' = [stage EXCEPT ![n] = "idle"]
  /\ UNCHANGED <<telegram, leading, settled, file, cursor, upto, history, crashes>>

\* The leader asks for updates.
Poll(n) ==
  /\ stage[n] = "idle"
  /\ n \in leading
  /\ stage' = [stage EXCEPT ![n] = "polling"]
  /\ UNCHANGED <<telegram, leading, settled, offset, file, cursor, upto, history, crashes>>

\* getUpdates: what is below the offset is confirmed, the oldest of the rest are
\* returned, if there are any.
PollReturns(n) ==
  LET first == Larger(confirmed, offset[n])
  IN  /\ stage[n] = "polling"
      /\ confirmed' = first
      /\ \/ /\ sent < first
            /\ stage' = [stage EXCEPT ![n] = "idle"]
            /\ UNCHANGED <<cursor, upto>>
         \/ /\ stage' = [stage EXCEPT ![n] = "batch"]
            /\ cursor' = [cursor EXCEPT ![n] = first]
            /\ \E last \in first .. sent : upto' = [upto EXCEPT ![n] = last]
      /\ UNCHANGED <<sent, leading, settled, offset, file, history, crashes>>

\* Another poller is active, or the network fails; the request may have arrived.
PollFails(n) ==
  /\ ~settled
  /\ stage[n] = "polling"
  /\ confirmed' \in {confirmed, Larger(confirmed, offset[n])}
  /\ stage' = [stage EXCEPT ![n] = "idle"]
  /\ UNCHANGED <<sent, leading, settled, offset, file, cursor, upto, history, crashes>>

-----------------------------------------------------------------------------
(* The batch.                                                              *)

\* Mutant of Leave: continue instead of break.
LeaveUpdate(n) ==
  /\ stage[n] = "batch"
  /\ n \notin leading
  /\ cursor' = [cursor EXCEPT ![n] = @ + 1]
  /\ stage' = [stage EXCEPT ![n] = IF cursor[n] < upto[n] THEN "batch" ELSE "idle"]
  /\ UNCHANGED <<telegram, leading, settled, offset, file, upto, history, crashes>>

\* No longer the leader: the rest of the batch is dropped.
Leave(n) ==
  /\ stage[n] = "batch"
  /\ n \notin leading
  /\ stage' = [stage EXCEPT ![n] = "idle"]
  /\ UNCHANGED <<telegram, leading, settled, offset, file, cursor, upto, history, crashes>>

\* handle_message or handle_callback begins ...
Handle(n) ==
  /\ stage[n] = "batch"
  /\ n \in leading
  /\ stage' = [stage EXCEPT ![n] = "handling"]
  /\ UNCHANGED <<telegram, leading, settled, offset, file, cursor, upto, history, crashes>>

\* ... and returns: the command was carried out or, by a node that has ceased to
\* lead, answered with the request to send it again.
Handled(n) ==
  /\ stage[n] = "handling"
  /\ handled' = handled \cup {cursor[n]}
  /\ stage' = [stage EXCEPT ![n] = "commit"]
  /\ UNCHANGED <<telegram, leading, settled, offset, file, cursor, upto, acked, crashes>>

\* The next update of the batch, or the next poll.
Advance(n) ==
  /\ cursor' = [cursor EXCEPT ![n] = @ + 1]
  /\ stage' = [stage EXCEPT ![n] = IF cursor[n] < upto[n] THEN "batch" ELSE "idle"]

\* commit_update: getUpdates with the next offset, its answer dropped.
CommitOk(n) ==
  /\ stage[n] = "commit"
  /\ confirmed' = Larger(confirmed, cursor[n] + 1)
  /\ acked' = [acked EXCEPT ![n] = @ \cup {cursor[n]}]
  /\ stage' = [stage EXCEPT ![n] = "store"]
  /\ UNCHANGED <<sent, leading, settled, offset, file, cursor, upto, handled, crashes>>

\* An error, although the request may have arrived: on to the next update.
CommitFails(n) ==
  /\ ~settled
  /\ stage[n] = "commit"
  /\ confirmed' \in {confirmed, Larger(confirmed, cursor[n] + 1)}
  /\ Advance(n)
  /\ UNCHANGED <<sent, leading, settled, offset, file, upto, history, crashes>>

\* store_update_offset truncates the file ...
Truncate(n) ==
  /\ stage[n] = "store"
  /\ file' = [file EXCEPT ![n] = Torn]
  /\ UNCHANGED <<telegram, leading, settled, stage, offset, cursor, upto, history, crashes>>

\* Mutant of StoreEnds: the batch does not advance.
StoreInPlace(n) ==
  /\ stage[n] = "store"
  /\ file' = [file EXCEPT ![n] = cursor[n] + 1]
  /\ offset' = [offset EXCEPT ![n] = cursor[n] + 1]
  /\ stage' = [stage EXCEPT ![n] = "batch"]
  /\ UNCHANGED <<telegram, leading, settled, cursor, upto, history, crashes>>

\* ... and fills it.
StoreEnds(n) ==
  /\ stage[n] = "store"
  /\ file' = [file EXCEPT ![n] = cursor[n] + 1]
  /\ offset' = [offset EXCEPT ![n] = cursor[n] + 1]
  /\ Advance(n)
  /\ UNCHANGED <<telegram, leading, settled, upto, history, crashes>>

\* run returns the error and main starts it again.
StoreFails(n) ==
  /\ ~settled
  /\ stage[n] = "store"
  /\ stage' = [stage EXCEPT ![n] = "boot"]
  /\ UNCHANGED <<telegram, leading, settled, offset, file, cursor, upto, history, crashes>>

-----------------------------------------------------------------------------
(* The environment.                                                        *)

Crash(n) ==
  /\ ~settled
  /\ crashes < MaxCrashes
  /\ crashes' = crashes + 1
  /\ stage' = [stage EXCEPT ![n] = "boot"]
  /\ UNCHANGED <<telegram, leading, settled, offset, file, cursor, upto, history>>

Arrive ==
  /\ sent < MaxUpdate
  /\ sent' = sent + 1
  /\ UNCHANGED <<confirmed, leading, settled, stage, offset, file, cursor, upto, history, crashes>>

ChangeLeaders ==
  /\ ~settled
  /\ leading' \in Leaderships
  /\ UNCHANGED <<telegram, settled, stage, offset, file, cursor, upto, history, crashes>>

Settle ==
  /\ ~settled
  /\ \E n \in Node : leading = {n}
  /\ settled' = TRUE
  /\ UNCHANGED <<telegram, leading, stage, offset, file, cursor, upto, history, crashes>>

\* The steps run takes when nothing fails.
Proceed(n) ==
  \/ Load(n) \/ Poll(n) \/ PollReturns(n)
  \/ Leave(n) \/ Handle(n) \/ Handled(n)
  \/ CommitOk(n) \/ StoreEnds(n)

NodeStep(n) ==
  \/ Proceed(n)
  \/ PollFails(n) \/ CommitFails(n) \/ Truncate(n) \/ StoreFails(n) \/ Crash(n)

Next ==
  \/ \E n \in Node : NodeStep(n)
  \/ Arrive \/ ChangeLeaders \/ Settle

Spec == Init /\ [][Next]_vars

\* The runtime keeps running the task of each node, and every request it makes is
\* bounded by a timeout.
FairSpec == Spec /\ \A n \in Node : WF_vars(Proceed(n))

-----------------------------------------------------------------------------
(* Properties.                                                             *)

TypeOK ==
  /\ sent \in Nat /\ confirmed \in Nat
  /\ leading \in Leaderships
  /\ settled \in BOOLEAN
  /\ stage \in [Node -> {"boot", "idle", "polling", "batch", "handling", "commit", "store"}]
  /\ offset \in [Node -> Nat]
  /\ file \in [Node -> Nat \cup {Torn}]
  /\ cursor \in [Node -> Nat] /\ upto \in [Node -> Nat]
  /\ handled \subseteq Nat /\ acked \in [Node -> SUBSET Nat]
  /\ crashes \in Nat

\* No command is lost: whatever crashes, fails or changes hands, and even when two
\* nodes lead at a time, Telegram forgets an update only after some node has come
\* to the end of its handler.
NothingSkipped == \A u \in 1 .. confirmed - 1 : u \in handled

\* Why: no node remembers an offset, in memory or on disk, that Telegram has not
\* already confirmed, so that asking for updates confirms nothing.
OffsetsCommitted ==
  \A n \in Node : /\ offset[n] =< confirmed
                  /\ file[n] # Torn => file[n] =< confirmed

\* A node never begins an update again whose commit it was acknowledged, through
\* crashes, failed writes, restarts of run and batches of the other nodes.
AckedNotRepeated ==
  [][\A n \in Node : stage[n] # "handling" /\ stage'[n] = "handling"
                        => cursor[n] \notin acked[n]]_vars

\* Once one node leads and nothing fails any more, every update that has arrived is
\* handled, unless that node has to start from a torn file.
EveryUpdateHandled ==
  \A u \in 1 .. MaxUpdate :
    settled /\ u =< sent /\ (\A n \in leading : file[n] # Torn) ~> u \in handled

\* "Whichever eligible node wins leadership handles Telegram polling": the same,
\* whatever is in the leader's files.
LeaderServes ==
  \A u \in 1 .. MaxUpdate : settled /\ u =< sent ~> u \in handled
=============================================================================
