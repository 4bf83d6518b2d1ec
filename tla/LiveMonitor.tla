----------------------------- MODULE LiveMonitor -----------------------------
(***************************************************************************)
(* The live monitors of one node: /monitor and the Stop button, handled    *)
(* one at a time by telegram::run, and the tasks that redraw a message     *)
(* once per second until the limit (src/telegram.rs, start_live_monitor,   *)
(* stop_monitor, live_monitor_loop).                                       *)
(*                                                                         *)
(* When run ends with an error main starts it again with a new             *)
(* TelegramRuntime; tasks keep the runtime they were started with.  What a *)
(* frame does to the peers' rows is in FailureDetector.                    *)
(***************************************************************************)
EXTENDS Integers

CONSTANTS
  Chat,          \* chats that may control this node
  Monitor,       \* monitor ids, each used once
  Limit,         \* MONITOR_MAX_DURATION, in frames
  MaxRestarts,   \* bound: how often run ends with an error
  Nobody         \* no chat, no monitor

ASSUME MonitorAssumption ==
  /\ Limit \in Nat /\ MaxRestarts \in Nat
  /\ Nobody \notin Chat \cup Monitor

VARIABLES
  entries,     \* the ids in the monitors map of the current TelegramRuntime
  handler,     \* what the message handler is doing, for which chat and monitor
  task,        \* where the task of each monitor is
  chatOf,      \* the chat it was started in
  runtimeOf,   \* the run it was started by
  elapsed,     \* its age in frames
  shown,       \* what its message says
  leads,       \* is_leader
  restarts     \* the number of the current run

taskVars == <<task, chatOf, runtimeOf, elapsed>>
monitorVars == <<entries, handler, taskVars, shown, leads, restarts>>

Free == [at |-> "free", chat |-> Nobody, monitor |-> Nobody]

\* Tasks that were spawned and have neither returned nor been aborted.
Live(m) == task[m] \notin {"none", "done", "aborted"}

MonitorInit ==
  /\ entries = {}
  /\ handler = Free
  /\ task = [m \in Monitor |-> "none"]
  /\ chatOf = [m \in Monitor |-> Nobody]
  /\ runtimeOf = [m \in Monitor |-> 0]
  /\ elapsed = [m \in Monitor |-> 0]
  /\ shown = [m \in Monitor |-> "none"]
  /\ leads = TRUE
  /\ restarts = 0

-----------------------------------------------------------------------------
(* /monitor                                                                *)

\* Mutant of StartAsked: the chat's entry is not looked for.
StartUnchecked(c) ==
  /\ handler = Free
  /\ leads
  /\ entries' = {m \in entries : Live(m)}
  /\ handler' = [at |-> "send", chat |-> c, monitor |-> Nobody]
  /\ UNCHANGED <<taskVars, shown, leads, restarts>>

\* Entries of finished tasks are dropped; a chat that still has one is refused.
StartAsked(c) ==
  /\ handler = Free
  /\ leads
  /\ entries' = {m \in entries : Live(m)}
  /\ handler' = IF \E m \in entries' : chatOf[m] = c
                THEN Free
                ELSE [at |-> "send", chat |-> c, monitor |-> Nobody]
  /\ UNCHANGED <<taskVars, shown, leads, restarts>>

\* The first message is sent and the task is spawned.
Spawn(m) ==
  /\ handler.at = "send"
  /\ task[m] = "none"
  /\ task' = [task EXCEPT ![m] = "top"]
  /\ chatOf' = [chatOf EXCEPT ![m] = handler.chat]
  /\ runtimeOf' = [runtimeOf EXCEPT ![m] = restarts]
  /\ shown' = [shown EXCEPT ![m] = "starting"]
  /\ handler' = [handler EXCEPT !.at = "insert", !.monitor = m]
  /\ UNCHANGED <<entries, elapsed, leads, restarts>>

SendFails ==
  /\ handler.at = "send"
  /\ handler' = Free
  /\ UNCHANGED <<entries, taskVars, shown, leads, restarts>>

Insert ==
  /\ handler.at = "insert"
  /\ entries' = entries \cup {handler.monitor}
  /\ handler' = Free
  /\ UNCHANGED <<taskVars, shown, leads, restarts>>

-----------------------------------------------------------------------------
(* The Stop button.                                                        *)

\* Mutant of StopAsked: the task is not aborted.
StopUnaborted(m) ==
  /\ handler = Free
  /\ leads
  /\ shown[m] # "none"
  /\ handler' = [at |-> "stopped", chat |-> chatOf[m], monitor |-> m]
  /\ entries' = entries \ {m}
  /\ UNCHANGED <<taskVars, shown, leads, restarts>>

\* stop_monitor removes the entry and aborts the task, if the entry is there.
StopAsked(m) ==
  /\ handler = Free
  /\ leads
  /\ shown[m] # "none"
  /\ handler' = [at |-> "stopped", chat |-> chatOf[m], monitor |-> m]
  /\ IF m \in entries
     THEN /\ entries' = entries \ {m}
          /\ task' = [task EXCEPT ![m] = IF Live(m) THEN "aborted" ELSE @]
     ELSE UNCHANGED <<entries, task>>
  /\ UNCHANGED <<chatOf, runtimeOf, elapsed, shown, leads, restarts>>

\* The message is edited to "Monitor stopped", or the edit fails.
StopShown ==
  /\ handler.at = "stopped"
  /\ \/ shown' = [shown EXCEPT ![handler.monitor] = "stopped"]
     \/ UNCHANGED shown
  /\ handler' = Free
  /\ UNCHANGED <<entries, taskVars, leads, restarts>>

-----------------------------------------------------------------------------
(* live_monitor_loop                                                       *)

Move(m, from, to) == task[m] = from /\ task' = [task EXCEPT ![m] = to]

\* Mutant of Top: the limit is not asked.
TopUnlimited(m) ==
  /\ Move(m, "top", IF ~leads THEN "end" ELSE "draw")
  /\ UNCHANGED <<entries, handler, chatOf, runtimeOf, elapsed, shown, leads, restarts>>

\* The limit, then the leadership, then a frame.
Top(m) ==
  /\ Move(m, "top", IF elapsed[m] >= Limit \/ ~leads THEN "end" ELSE "draw")
  /\ UNCHANGED <<entries, handler, chatOf, runtimeOf, elapsed, shown, leads, restarts>>

\* The frame is rendered and the message edited, or the edit fails.
Draw(m) ==
  /\ Move(m, "draw", "sleep")
  /\ \/ shown' = [shown EXCEPT ![m] = "frame"]
     \/ UNCHANGED shown
  /\ UNCHANGED <<entries, handler, chatOf, runtimeOf, elapsed, leads, restarts>>

\* Mutant of Sleep: the time is taken anew for every frame.
SleepStartsAgain(m) ==
  /\ Move(m, "sleep", "top")
  /\ elapsed' = [elapsed EXCEPT ![m] = 0]
  /\ UNCHANGED <<entries, handler, chatOf, runtimeOf, shown, leads, restarts>>

Sleep(m) ==
  /\ Move(m, "sleep", "top")
  /\ elapsed' = [elapsed EXCEPT ![m] = @ + 1]
  /\ UNCHANGED <<entries, handler, chatOf, runtimeOf, shown, leads, restarts>>

\* The last edit, which says why it ended and has no button.
EndShown(m) ==
  /\ Move(m, "end", "remove")
  /\ \/ shown' = [shown EXCEPT ![m] = "ended"]
     \/ UNCHANGED shown
  /\ UNCHANGED <<entries, handler, chatOf, runtimeOf, elapsed, leads, restarts>>

\* The entry is removed from the map of the task's own runtime.
Remove(m) ==
  /\ Move(m, "remove", "done")
  /\ entries' = IF runtimeOf[m] = restarts THEN entries \ {m} ELSE entries
  /\ UNCHANGED <<handler, chatOf, runtimeOf, elapsed, shown, leads, restarts>>

-----------------------------------------------------------------------------
\* run ends with an error between two messages and starts with an empty map.
RunRestarts ==
  /\ handler = Free
  /\ restarts < MaxRestarts
  /\ restarts' = restarts + 1
  /\ entries' = {}
  /\ UNCHANGED <<handler, taskVars, shown, leads>>

ChangeLeader ==
  /\ leads' = ~leads
  /\ UNCHANGED <<entries, handler, taskVars, shown, restarts>>

TaskStep(m) == Top(m) \/ Draw(m) \/ Sleep(m) \/ EndShown(m) \/ Remove(m)

HandlerStep ==
  \/ \E c \in Chat : StartAsked(c)
  \/ \E m \in Monitor : Spawn(m) \/ StopAsked(m)
  \/ SendFails \/ Insert \/ StopShown

MonitorNext ==
  \/ HandlerStep
  \/ \E m \in Monitor : TaskStep(m)
  \/ RunRestarts \/ ChangeLeader

MonitorSpec == MonitorInit /\ [][MonitorNext]_monitorVars

\* The runtime keeps running spawned tasks.
FairMonitorSpec == MonitorSpec /\ \A m \in Monitor : WF_monitorVars(TaskStep(m))

-----------------------------------------------------------------------------
(* Properties.                                                             *)

MonitorTypeOK ==
  /\ entries \subseteq Monitor
  /\ handler \in [at : {"free", "send", "insert", "stopped"},
                  chat : Chat \cup {Nobody}, monitor : Monitor \cup {Nobody}]
  /\ task \in [Monitor -> {"none", "top", "draw", "sleep", "end", "remove", "done", "aborted"}]
  /\ chatOf \in [Monitor -> Chat \cup {Nobody}]
  /\ runtimeOf \in [Monitor -> Nat]
  /\ elapsed \in [Monitor -> 0 .. Limit]
  /\ shown \in [Monitor -> {"none", "starting", "frame", "ended", "stopped"}]
  /\ leads \in BOOLEAN
  /\ restarts \in Nat

\* Started by the run of the Telegram side that now handles the messages.
Current(m) == runtimeOf[m] = restarts

\* "This chat already has a live monitor": two tasks of one run never redraw
\* messages of one chat, although the map is checked, the message sent and the
\* entry inserted under three separate locks.
OneMonitorPerChat ==
  \A m, k \in Monitor :
    Live(m) /\ Live(k) /\ chatOf[m] = chatOf[k] /\ runtimeOf[m] = runtimeOf[k] => m = k

\* Once a message of the current run says that the monitor was stopped it goes on
\* saying so: Stop reaches the task at every point of its life.
StoppedStays ==
  [][\A m \in Monitor : Current(m) /\ shown[m] = "stopped" => shown'[m] = "stopped"]_monitorVars

\* "A 10-minute maximum duration": every monitor ends, whoever leads.
MonitorEnds == \A m \in Monitor : Live(m) ~> ~Live(m)
=============================================================================
