------------------------------ MODULE Throttles ------------------------------
(***************************************************************************)
(* What one node says no more than once in a while, and to whom: the       *)
(* gates of handle_message with its two tables of strangers (rate_limit in *)
(* src/telegram.rs), and the threshold alerts of the poll loop             *)
(* (enqueue_metric_alerts in src/cluster.rs).                              *)
(*                                                                         *)
(* The tables of strangers hold instants of a clock that nobody sets; the  *)
(* alerts' table holds times of a clock that may be set.  All are kept as  *)
(* ages, which grow with each tick.                                        *)
(***************************************************************************)
EXTENDS Integers, FiniteSets

CONSTANTS
  Writer,         \* the chats that write to the bot
  Authorized,   \* telegram_chat_ids
  Group,        \* the chats that are not private
  GroupControl, \* allow_group_control
  Window,       \* the window of each table of strangers
  Limit,        \* chats at which a table is cleared: 1024
  Metric,       \* what may pass its threshold: sensors, temperatures of GPUs, disks
  Sensor,       \* the sensors of one host, of which only the hottest is looked at
  AlertWindow,  \* how long a threshold alert is not repeated
  Jump,         \* how far the clock is set
  MaxJumps,     \* bound: how often
  Old,          \* bound: the age at which older is no different
  None          \* no age

Table == {"userinfo", "unauthorized"}

ASSUME ThrottleAssumption ==
  /\ IsFiniteSet(Writer)
  /\ Authorized \subseteq Writer /\ Group \subseteq Writer /\ GroupControl \in BOOLEAN
  /\ Sensor \subseteq Metric
  /\ Window \in [Table -> Nat \ {0}] /\ Limit \in Nat \ {0}
  /\ AlertWindow \in Nat \ {0} /\ Jump \in Nat /\ MaxJumps \in Nat
  /\ Old \in Nat
  /\ Old >= AlertWindow + Jump * MaxJumps /\ \A t \in Table : Old >= 3 * Window[t]
  /\ None \notin Int

VARIABLES
  username,     \* whether get_me answered when run began
  seen,         \* age of a chat's entry in each table
  told,         \* how long ago this run last gave a chat the answer of each table
  lastSent,     \* age of a metric's entry in threshold_alerts, by the clock
  raised,       \* how long ago a metric's alert was last queued
  moved,        \* which ways the clock was set since
  jumps         \* how often the clock was set

strangerVars == <<username, seen, told>>
alertVars == <<lastSent, raised, moved, jumps>>
throttleVars == <<strangerVars, alertVars>>

Empty == [t \in Table |-> [c \in Writer |-> None]]

ThrottleInit ==
  /\ username \in BOOLEAN
  /\ seen = Empty
  /\ told = Empty
  /\ lastSent = [m \in Metric |-> None]
  /\ raised = [m \in Metric |-> None]
  /\ moved = [m \in Metric |-> {}]
  /\ jumps = 0

-----------------------------------------------------------------------------
(* Messages.  A command is /userinfo, one of those that                    *)
(* command_requires_private_chat lists, or another; it mentions this bot,  *)
(* another, or none; its sender is in authorized_user_ids or is not.       *)

Message == [chat : Writer, command : {"/userinfo", "control", "other"},
            mention : {"none", "bot", "stranger"}, listed : BOOLEAN]

\* rate_limit says no.  Entries of twice the window it drops before it looks.
Limited(t, c) == seen[t][c] # None /\ seen[t][c] < Window[t]

Kept(t) == {c \in Writer : seen[t][c] # None}

\* The table with an entry for c: at its limit it is cleared first.
Entered(t, c) ==
  [d \in Writer |-> IF d = c THEN 0
                  ELSE IF Cardinality(Kept(t)) < Limit THEN seen[t][d] ELSE None]

\* command_name: a mention of someone else, or of a bot that does not know its name,
\* makes it no command.
Parsed(m) == m.mention = "none" \/ (m.mention = "bot" /\ username)

\* Mutant of ActorAuthorized: the opt-in stands for every member of the group.
ActorOptedIn(m) ==
  m.chat \in Authorized /\ (m.chat \in Group => GroupControl)

\* is_sensitive_actor_authorized
ActorAuthorized(m) ==
  m.chat \in Authorized /\ (m.chat \in Group => GroupControl /\ m.listed)

\* handle_message carries the command out, or would if this node led: it says that
\* another node is controller now.
Passes(m) ==
  /\ Parsed(m) /\ m.command # "/userinfo"
  /\ m.chat \in Authorized
  /\ m.command = "control" =>
       (m.chat \notin Group \/ m.mention = "bot") /\ ActorAuthorized(m)

\* The table that is asked about a command of a chat that is not authorized.
TableOf(m) == IF m.command = "/userinfo" THEN "userinfo" ELSE "unauthorized"

\* It gets the IDs, or is told that it is not authorized.
Admit(m) ==
  LET t == TableOf(m)
  IN  /\ Parsed(m) /\ m.chat \notin Authorized /\ ~Limited(t, m.chat)
      /\ seen' = [seen EXCEPT ![t] = Entered(t, m.chat)]
      /\ told' = [told EXCEPT ![t][m.chat] = 0]
      /\ UNCHANGED <<username, alertVars>>

\* Mutant of Hold: every message starts the window anew.
HoldAnew(m) ==
  /\ Parsed(m) /\ m.chat \notin Authorized /\ Limited(TableOf(m), m.chat)
  /\ seen' = [seen EXCEPT ![TableOf(m)][m.chat] = 0]
  /\ UNCHANGED <<username, told, alertVars>>

\* It is asked to wait, or gets no answer.
Hold(m) ==
  /\ Parsed(m) /\ m.chat \notin Authorized /\ Limited(TableOf(m), m.chat)
  /\ UNCHANGED throttleVars

\* run ends with an error and is started again, with a new TelegramRuntime.
RunRestarts ==
  /\ username' \in BOOLEAN
  /\ seen' = Empty
  /\ told' = Empty
  /\ UNCHANGED alertVars

-----------------------------------------------------------------------------
(* Threshold alerts.                                                       *)

\* What one round can find over its threshold.
Findings == {found \in SUBSET Metric : Cardinality(found \cap Sensor) =< 1}

Due(m) == lastSent[m] = None \/ lastSent[m] >= AlertWindow

\* Mutant of Round: what is held back starts its window anew.
RoundAnew(found) ==
  LET ready == {m \in found : Due(m)}
  IN  /\ lastSent' = [m \in Metric |-> IF m \in found THEN 0 ELSE lastSent[m]]
      /\ raised' = [m \in Metric |-> IF m \in ready THEN 0 ELSE raised[m]]
      /\ moved' = [m \in Metric |-> IF m \in ready THEN {} ELSE moved[m]]
      /\ UNCHANGED <<strangerVars, jumps>>

\* enqueue_metric_alerts queues an alert for each that is due.
Round(found) ==
  LET ready == {m \in found : Due(m)}
  IN  /\ lastSent' = [m \in Metric |-> IF m \in ready THEN 0 ELSE lastSent[m]]
      /\ raised' = [m \in Metric |-> IF m \in ready THEN 0 ELSE raised[m]]
      /\ moved' = [m \in Metric |-> IF m \in ready THEN {} ELSE moved[m]]
      /\ UNCHANGED <<strangerVars, jumps>>

-----------------------------------------------------------------------------
(* Time.                                                                   *)

Older(age) == IF age = None THEN None ELSE IF age < Old THEN age + 1 ELSE age

\* An entry that has reached twice its window is dropped by the next rate_limit.
Faded(t, age) == IF age = None \/ age + 1 >= 2 * Window[t] THEN None ELSE age + 1

Tick ==
  /\ seen' = [t \in Table |-> [c \in Writer |-> Faded(t, seen[t][c])]]
  /\ told' = [t \in Table |-> [c \in Writer |-> Older(told[t][c])]]
  /\ lastSent' = [m \in Metric |-> Older(lastSent[m])]
  /\ raised' = [m \in Metric |-> Older(raised[m])]
  /\ UNCHANGED <<username, moved, jumps>>

\* The clock of the machine is set, forward or back.
SetClock ==
  /\ jumps < MaxJumps
  /\ jumps' = jumps + 1
  /\ \E way \in {"forward", "back"} :
       /\ lastSent' = [m \in Metric |->
            IF lastSent[m] = None THEN None
            ELSE IF way = "forward" THEN lastSent[m] + Jump ELSE lastSent[m] - Jump]
       /\ moved' = [m \in Metric |-> moved[m] \cup {way}]
  /\ UNCHANGED <<strangerVars, raised>>

ThrottleNext ==
  \/ \E m \in Message : Admit(m) \/ Hold(m)
  \/ RunRestarts
  \/ \E found \in Findings : Round(found)
  \/ Tick
  \/ SetClock

ThrottleSpec == ThrottleInit /\ [][ThrottleNext]_throttleVars

-----------------------------------------------------------------------------
(* Properties.                                                             *)

Within(age, limit) == age # None /\ age < limit

\* Sensitive commands are carried out for exactly those for whom the documents say so:
\* in an authorized private chat, or in a group with a mention of the bot, opt-in and
\* a listed user.  The mention helps only if the bot has learnt its name.
ControlAsDocumented ==
  \A m \in Message : m.command = "control" =>
    (Passes(m) <=>
       /\ m.chat \in Authorized
       /\ \/ m.chat \notin Group /\ (m.mention = "none" \/ (m.mention = "bot" /\ username))
          \/ m.chat \in Group /\ m.mention = "bot" /\ username /\ GroupControl /\ m.listed)

\* A stranger who waits is answered: one that is held up had its full answer within
\* the window, however often it has asked since.  None is answered twice in a window,
\* unless so many chats wrote lately that the table was cleared.
AnswersPaced ==
  \A t \in Table, c \in Writer :
    IF Limited(t, c)
    THEN Within(told[t][c], Window[t])
    ELSE Within(told[t][c], Window[t]) =>
           Cardinality({d \in Writer : Within(told[t][d], 3 * Window[t])}) >= Limit

\* A metric that stays over its threshold is announced once in ten minutes: held
\* back only so long, and let through only then, unless the clock was set since.
AlertsPaced ==
  \A m \in Metric :
    IF Due(m) THEN Within(raised[m], AlertWindow) => "forward" \in moved[m]
              ELSE Within(raised[m], AlertWindow) \/ "back" \in moved[m]
=============================================================================
