----------------------------- MODULE Protection -----------------------------
(***************************************************************************)
(* The artwork protection service (services/protection_service.py) with    *)
(* the part of the command orchestrator it works through                   *)
(* (orchestrator/command_orchestrator.py), for one protected artwork.      *)
(*                                                                         *)
(* The program is one asyncio event loop.  A task runs without             *)
(* interruption from one await that really suspends to the next, so an     *)
(* action of this module is the code between two such awaits, and pc[t]    *)
(* names the await task t is suspended in.  The tasks are the sensor       *)
(* requests, the web and scheduler commands ("operators") and the          *)
(* enforcement loop.                                                       *)
(*                                                                         *)
(* Time advances by Tick, one enforcement interval at a time.  The code    *)
(* compares differences of timestamps only, so the model keeps the         *)
(* differences: the age of started_at, the time left to cooldown_until,    *)
(* the position of now in the current budget window.                       *)
(***************************************************************************)
EXTENDS Integers, FiniteSets

CONSTANTS
  Sensors,         \* sensor requests that may be in progress at once
  Operators,       \* web and scheduler commands that may be in progress at once
  Enforcer,        \* the task of _enforcement_loop
  NoTask,          \* nobody: the artwork's lock is free, or the row itself
  Devices,         \* the artwork's enabled devices
  Automated,       \* those of them with automation_enabled
  MinRuntime, MaxRuntime, Budget, Window, Cooldown,  \* protection_config, in ticks
  ForceCompletion, \* protection_config["force_completion"]
  OperatorTargets, \* the <<source, scope>> pairs operators command: from the web
                   \* or the scheduler, to the artwork (or its exhibition) or a device
  AgeCap,          \* ages saturate here: no comparison tells larger ones apart
  MaxFailures,     \* bound on device commands that fail
  MaxRestarts,     \* bound on crashes and restarts of the service
  MaxToggles       \* bound on changes of timeslice_enabled by an administrator

Tasks == Sensors \cup Operators \cup {Enforcer}

ASSUME TasksAssumption ==
  /\ Sensors \cap Operators = {}
  /\ Enforcer \notin Sensors \cup Operators
  /\ NoTask \notin Tasks

ASSUME DevicesAssumption == Automated \subseteq Devices

ASSUME ConfigAssumption ==
  /\ MinRuntime \in Nat /\ MaxRuntime \in Nat /\ Budget \in Nat /\ Cooldown \in Nat
  /\ Window \in Nat \ {0, 1}  \* a minute at least: twelve enforcement intervals
  /\ ForceCompletion \in BOOLEAN
  /\ OperatorTargets \subseteq {"web", "scheduler"} \X {"artwork", "device"}

ASSUME BoundsAssumption ==
  /\ AgeCap \in Nat
  /\ AgeCap >= MinRuntime /\ AgeCap >= MaxRuntime /\ AgeCap >= Budget
  /\ MaxFailures \in Nat /\ MaxRestarts \in Nat /\ MaxToggles \in Nat

VARIABLES
  is_running,      \* the in-memory state: a run is in progress
  runtime,         \* now - started_at, 0 when nothing runs
  cooldown,        \* cooldown_until - now; 0 is expired, NoCooldown is None
  used,            \* time_slice_usage of the window last_window_reset names
  stale,           \* that window is over, and something was used in it
  desired_state,   \* what the sensor wants
  db,              \* the row of artwork_protection_states, as loaded if there is none
  recorded,        \* there is a row
  writing,         \* per task: the values its _persist_state has taken and is writing
  inserting,       \* the tasks that write a first row
  outdated,        \* specification only: the writes, or the row, from before the last
                   \* run ended
  accepting,       \* artworks.accepting_triggers, the gate
  enabled,         \* artworks.timeslice_enabled and _enabled_artworks
  power,           \* what each device really does
  phase,           \* position of now in the current window
  lock,            \* holder of the artwork's asyncio.Lock
  pc, job, todo, succ, \* per task: await, command, devices to go, any success
  failures, restarts, toggles

memory == <<is_running, runtime, cooldown, used, stale, desired_state>>
tasks  == <<lock, pc, job, todo, succ>>
world  == <<accepting, enabled, power, phase>>
bounds == <<failures, restarts, toggles>>
store  == <<db, recorded, writing, inserting, outdated>>
vars   == <<memory, store, world, tasks, bounds>>

-----------------------------------------------------------------------------
(* Values                                                                  *)

NoCooldown == -1

Commands == {"on", "off"}

Jobs == [cmd : Commands,
         source : {"none", "sensor", "protection", "web", "scheduler"},
         scope : {"none", "artwork", "device"}]

NoJob == [cmd |-> "off", source |-> "none", scope |-> "none"]
Job(c, src, scp) == [cmd |-> c, source |-> src, scope |-> scp]

SensorPC   == {"idle", "queued", "ask_gate", "gate_open", "send", "notify", "persist",
               "write"}
OperatorPC == {"idle", "send", "set_gate", "notify", "persist", "write"}
EnforcerPC == {"sleep", "runtimes", "want_stop", "persist_stop", "send", "notify",
               "persist", "cooldowns", "want_resume", "ask_gate", "gate_open",
               "persist_resume", "write_stop", "write", "write_resume"}
WritePC    == {"write", "write_stop", "write_resume"}

Rows == [is_running : BOOLEAN, runtime : 0..AgeCap, cooldown : NoCooldown..Cooldown,
         used : 0..Budget, stale : BOOLEAN, desired_state : Commands]

MemoryTyped ==
  /\ is_running \in BOOLEAN
  /\ runtime \in 0..AgeCap
  /\ cooldown \in NoCooldown..Cooldown
  /\ used \in 0..Budget
  /\ stale \in BOOLEAN
  /\ desired_state \in Commands

WorldTyped ==
  /\ accepting \in BOOLEAN
  /\ enabled \in BOOLEAN
  /\ power \in [Devices -> Commands]
  /\ phase \in 0..(Window - 1)

TasksTyped ==
  /\ lock \in Sensors \cup {Enforcer, NoTask}
  /\ pc \in [Tasks -> SensorPC \cup OperatorPC \cup EnforcerPC]
  /\ \A s \in Sensors : pc[s] \in SensorPC
  /\ \A o \in Operators : pc[o] \in OperatorPC
  /\ pc[Enforcer] \in EnforcerPC
  /\ job \in [Tasks -> Jobs]
  /\ todo \in [Tasks -> SUBSET Devices]
  /\ succ \in [Tasks -> BOOLEAN]

BoundsTyped ==
  /\ failures \in 0..MaxFailures
  /\ restarts \in 0..MaxRestarts
  /\ toggles \in 0..MaxToggles

StoreTyped ==
  /\ db \in Rows
  /\ recorded \in BOOLEAN
  /\ writing \in [Tasks -> Rows]
  /\ inserting \subseteq Tasks
  /\ outdated \subseteq Tasks \cup {NoTask}

TypeOK == MemoryTyped /\ StoreTyped /\ WorldTyped /\ TasksTyped /\ BoundsTyped

AtMost(n, cap) == IF n > cap THEN cap ELSE n

-----------------------------------------------------------------------------
(* The budget and cooldown arithmetic                                      *)

\* _get_time_slice_budget: usage of an older window reads as nothing used.
UsedNow == IF stale THEN 0 ELSE used

\* The same function with readonly=False also stores the reset.
RefreshWindow ==
  IF stale /\ Budget > 0
  THEN used' = 0 /\ stale' = FALSE
  ELSE UNCHANGED <<used, stale>>

CooldownActive == cooldown > 0

\* What a start needs of the budget: a whole run when it must complete.
Need == IF ForceCompletion THEN MaxRuntime ELSE MinRuntime

\* Enough budget, or so close to the rollover that the run bridges into the
\* next window.  A budget of 0 is no limit.
BudgetAllows ==
  \/ Budget = 0
  \/ Budget - UsedNow >= Need
  \/ Window - phase < Need

\* check_can_start of an enabled artwork, and the same two checks of
\* _handle_sensor_on.
CanStart == ~CooldownActive /\ BudgetAllows

\* The window is refreshed only when the cooldown check does not return first.
CheckRefreshes == IF CooldownActive THEN UNCHANGED <<used, stale>> ELSE RefreshWindow

\* _handle_sensor_off: the sensor may end the run.
MayEndEarly == runtime + 1 >= MinRuntime  \* mutant: off by one
MayEnd == runtime >= MinRuntime /\ (ForceCompletion => runtime >= MaxRuntime)

\* _check_all_runtimes: a limit is reached.
RuntimeLimitReached == MaxRuntime > 0 /\ runtime >= MaxRuntime
BudgetExhausted == Budget > 0 /\ UsedNow + runtime >= Budget

\* _update_time_slice_usage: the whole run goes to the window it ends in.
ChargeRunAsIs == used' = AtMost(used + runtime, Budget) /\ stale' = FALSE  \* mutant: no rollover
ChargeRun ==
  /\ used' = AtMost(UsedNow + runtime, Budget)
  /\ stale' = FALSE

\* The tasks whose _persist_state has taken the values and waits for the database.
Writers == {t \in Tasks : pc[t] \in WritePC}

\* A run ends: notify_stopped, and the first half of _force_stop_locked.
EndRunCooling(forced) ==  \* mutant: every stop starts a cooldown
  /\ ChargeRun
  /\ is_running' = FALSE /\ runtime' = 0 /\ cooldown' = Cooldown
  /\ outdated' = Writers \cup {NoTask}
  /\ UNCHANGED <<db, recorded, writing, inserting>>
EndRun(forced) ==
  /\ ChargeRun
  /\ is_running' = FALSE
  /\ runtime' = 0
  /\ cooldown' = IF forced /\ Cooldown > 0 THEN Cooldown ELSE cooldown
  /\ outdated' = Writers \cup {NoTask}
  /\ UNCHANGED <<db, recorded, writing, inserting>>

\* What _persist_state writes.
SnapshotOldCooldown ==  \* mutant: the cooldown is left out
  [is_running |-> is_running, runtime |-> runtime, cooldown |-> db.cooldown,
   used |-> used, stale |-> stale, desired_state |-> desired_state]
SnapshotOldUsage ==  \* mutant: the usage is left out
  [is_running |-> is_running, runtime |-> runtime, cooldown |-> cooldown,
   used |-> db.used, stale |-> db.stale, desired_state |-> desired_state]
Snapshot == [is_running |-> is_running, runtime |-> runtime, cooldown |-> cooldown,
             used |-> used, stale |-> stale, desired_state |-> desired_state]

-----------------------------------------------------------------------------
(* Tasks                                                                   *)

Goto(t, label) == pc' = [pc EXCEPT ![t] = label]

\* asyncio.Lock lets a waiter in when nobody holds the lock.
LockIgnored == TRUE  \* mutant: no lock
LockFree == lock = NoTask

\* Start sending command j to the devices ds.
StartCommand(t, j, ds) ==
  /\ Goto(t, "send")
  /\ job' = [job EXCEPT ![t] = j]
  /\ todo' = [todo EXCEPT ![t] = ds]
  /\ succ' = [succ EXCEPT ![t] = FALSE]

\* execute_control_command returns to its caller: a sensor handler leaves its
\* async with, a web request ends, the enforcement loop goes on.
EndCommandLocked(t) ==  \* mutant: a sensor handler keeps the lock
  /\ job' = [job EXCEPT ![t] = NoJob]
  /\ todo' = [todo EXCEPT ![t] = {}]
  /\ succ' = [succ EXCEPT ![t] = FALSE]
  /\ IF t # Enforcer THEN Goto(t, "idle") /\ UNCHANGED lock
                     ELSE Goto(t, "cooldowns") /\ lock' = NoTask
EndCommand(t) ==
  /\ job' = [job EXCEPT ![t] = NoJob]
  /\ todo' = [todo EXCEPT ![t] = {}]
  /\ succ' = [succ EXCEPT ![t] = FALSE]
  /\ IF t # Enforcer
     THEN Goto(t, "idle") /\ lock' = IF lock = t THEN NoTask ELSE lock
     ELSE IF job[t].source = "protection"
          THEN Goto(t, "cooldowns") /\ lock' = NoTask
          ELSE Goto(t, "persist_resume") /\ UNCHANGED lock

\* _filter_devices: only the scheduler commands devices without automation.
Eligible(src) == IF src = "scheduler" THEN Devices ELSE Automated

-----------------------------------------------------------------------------
(* Initial state: the service starts with no row in the database, the      *)
(* devices dark and the gate as the last day left it.                   *)

DefaultRow == [is_running |-> FALSE, runtime |-> 0, cooldown |-> NoCooldown,
               used |-> 0, stale |-> FALSE, desired_state |-> "off"]

\* _load_state_from_db.
LoadRow(row) ==
  /\ is_running' = row.is_running
  /\ runtime' = row.runtime
  /\ cooldown' = row.cooldown
  /\ used' = row.used
  /\ stale' = row.stale
  /\ desired_state' = row.desired_state

AllIdle == [t \in Tasks |-> IF t = Enforcer THEN "sleep" ELSE "idle"]
NoJobs  == [t \in Tasks |-> NoJob]
NoTodo  == [t \in Tasks |-> {}]
NoSucc  == [t \in Tasks |-> FALSE]
NoWrites == [t \in Tasks |-> DefaultRow]

Init ==
  /\ is_running = FALSE /\ runtime = 0 /\ cooldown = NoCooldown
  /\ used = 0 /\ stale = FALSE /\ desired_state = "off"
  /\ db = DefaultRow /\ recorded = FALSE
  /\ writing = NoWrites /\ inserting = {} /\ outdated = {}
  /\ accepting \in BOOLEAN /\ enabled = TRUE
  /\ power = [d \in Devices |-> "off"]
  /\ phase = 0
  /\ lock = NoTask
  /\ pc = AllIdle /\ job = NoJobs /\ todo = NoTodo /\ succ = NoSucc
  /\ failures = 0 /\ restarts = 0 /\ toggles = 0

-----------------------------------------------------------------------------
(* Sensor requests (handle_sensor_signal)                                  *)

\* The API accepts a trigger of an artwork whose protection is enabled and
\* waits for the artwork's lock.
SensorRequest(s, c) ==
  /\ pc[s] = "idle"
  /\ enabled
  /\ Goto(s, "queued")
  /\ job' = [job EXCEPT ![s] = Job(c, "sensor", "artwork")]
  /\ UNCHANGED <<memory, store, world, lock, todo, succ, bounds>>

\* The lock is ours, and there is nothing to do or the signal is refused: all
\* of it happens before the next await, so the lock is free again at the end.
\* The sensor's wish is recorded all the same.
SensorRefused(s) ==
  /\ pc[s] = "queued" /\ LockFree
  /\ \/ ~enabled
     \/ job[s].cmd = "on" /\ is_running
     \/ job[s].cmd = "off" /\ ~is_running
     \/ job[s].cmd = "off" /\ ~MayEnd
  /\ desired_state' = IF enabled THEN job[s].cmd ELSE desired_state
  /\ EndCommand(s)
  /\ UNCHANGED <<is_running, runtime, cooldown, used, stale, store, world, bounds>>

\* ON while nothing runs: ask the database whether the gate is open.
SensorOn(s) ==
  /\ pc[s] = "queued" /\ LockFree
  /\ enabled /\ job[s].cmd = "on" /\ ~is_running
  /\ desired_state' = "on"
  /\ lock' = s
  /\ Goto(s, "ask_gate")
  /\ UNCHANGED <<is_running, runtime, cooldown, used, stale, store, world, job, todo,
                 succ, bounds>>

\* OFF of a run that may end now.
SensorOff(s) ==
  /\ pc[s] = "queued" /\ LockFree
  /\ enabled /\ job[s].cmd = "off" /\ is_running
  /\ MayEnd
  /\ desired_state' = "off"
  /\ lock' = s
  /\ StartCommand(s, job[s], Eligible("sensor"))
  /\ UNCHANGED <<is_running, runtime, cooldown, used, stale, store, world, bounds>>

\* _is_accepting_triggers, for a sensor ON and for the resume after a cooldown.
GateOpen(t) ==
  /\ pc[t] = "ask_gate" /\ accepting
  /\ Goto(t, "gate_open")
  /\ UNCHANGED <<memory, store, world, lock, job, todo, succ, bounds>>

SensorGateClosed(s) ==
  /\ pc[s] = "ask_gate" /\ ~accepting
  /\ EndCommand(s)
  /\ UNCHANGED <<memory, store, world, bounds>>

\* Cooldown and budget, after the gate was found open; check_can_start in the
\* orchestrator asks the same again before the next await.
SensorAdmitted(s) ==
  /\ pc[s] = "gate_open" /\ CanStart
  /\ RefreshWindow
  /\ StartCommand(s, job[s], Eligible("sensor"))
  /\ UNCHANGED <<is_running, runtime, cooldown, desired_state, store, world, lock, bounds>>

SensorBlocked(s) ==
  /\ pc[s] = "gate_open" /\ ~CanStart
  /\ CheckRefreshes
  /\ EndCommand(s)
  /\ UNCHANGED <<is_running, runtime, cooldown, desired_state, store, world, bounds>>

-----------------------------------------------------------------------------
(* Web and scheduler commands (execute_control_command)                    *)

\* The devices a command of an operator goes to.  A scope of "artwork" stands
\* for the artwork and for its exhibition.
Targets(src, scp) ==
  IF scp = "device" THEN {{d} : d \in Eligible(src)} ELSE {Eligible(src)}

OperatorOn(o, src, scp) ==
  /\ pc[o] = "idle"
  /\ enabled => CanStart
  /\ IF enabled THEN CheckRefreshes ELSE UNCHANGED <<used, stale>>
  /\ \E ds \in Targets(src, scp) : StartCommand(o, Job("on", src, scp), ds)
  /\ UNCHANGED <<is_running, runtime, cooldown, desired_state, store, world, lock, bounds>>

\* Blocked by protection: only the window's rollover may be noticed.
OperatorBlocked(o) ==
  /\ pc[o] = "idle"
  /\ enabled /\ ~CanStart
  /\ CheckRefreshes
  /\ UNCHANGED <<is_running, runtime, cooldown, desired_state, store, world, tasks, bounds>>

OperatorOff(o, src, scp) ==
  /\ pc[o] = "idle"
  /\ \E ds \in Targets(src, scp) : StartCommand(o, Job("off", src, scp), ds)
  /\ UNCHANGED <<memory, store, world, lock, bounds>>

-----------------------------------------------------------------------------
(* Sending a command and reporting it, for every task                      *)

\* One device answers.  ON of an operator goes device by device with a
\* stagger, the other commands in parallel: in both the answers interleave
\* with everything else.
DeviceObeys(t, d) ==
  /\ pc[t] = "send" /\ d \in todo[t]
  /\ power' = [power EXCEPT ![d] = job[t].cmd]
  /\ todo' = [todo EXCEPT ![t] = @ \ {d}]
  /\ succ' = [succ EXCEPT ![t] = TRUE]
  /\ UNCHANGED <<memory, store, accepting, enabled, phase, lock, pc, job, bounds>>

\* An error, a timeout, or an answer other than OK, which counts as success:
\* whatever is reported, the device has obeyed or not.
DeviceFails(t, d) ==
  /\ pc[t] = "send" /\ d \in todo[t]
  /\ failures < MaxFailures
  /\ failures' = failures + 1
  /\ power' \in {power, [power EXCEPT ![d] = job[t].cmd]}
  /\ todo' = [todo EXCEPT ![t] = @ \ {d}]
  /\ succ' \in {succ, [succ EXCEPT ![t] = TRUE]}
  /\ UNCHANGED <<memory, store, accepting, enabled, phase, lock, pc, job, restarts, toggles>>

\* No device obeyed, or there was none: no gate update, no notification.
CommandFailed(t) ==
  /\ pc[t] = "send" /\ todo[t] = {} /\ ~succ[t]
  /\ EndCommand(t)
  /\ UNCHANGED <<memory, store, world, bounds>>

\* At least one device obeyed.
CommandSent(t) ==
  /\ pc[t] = "send" /\ todo[t] = {} /\ succ[t]
  /\ Goto(t, IF t \in Operators /\ job[t].scope # "device" THEN "set_gate" ELSE "notify")
  /\ UNCHANGED <<memory, store, world, lock, job, todo, succ, bounds>>

\* _update_accepting_triggers.
SetGate(o) ==
  /\ pc[o] = "set_gate"
  /\ accepting' = (job[o].cmd = "on")
  /\ Goto(o, "notify")
  /\ UNCHANGED <<memory, store, enabled, power, phase, lock, job, todo, succ, bounds>>

\* notify_started: idempotent while running, not persisted.
NotifyStarted(t) ==
  /\ pc[t] = "notify" /\ job[t].cmd = "on"
  /\ IF enabled /\ ~is_running
     THEN is_running' = TRUE /\ runtime' = 0
     ELSE UNCHANGED <<is_running, runtime>>
  /\ EndCommand(t)
  /\ UNCHANGED <<cooldown, used, stale, desired_state, store, world, bounds>>

\* notify_stopped ends the run and then persists.
NotifyStopped(t) ==
  /\ pc[t] = "notify" /\ job[t].cmd = "off"
  /\ enabled /\ is_running
  /\ EndRun(job[t].source = "protection")
  /\ Goto(t, "persist")
  /\ UNCHANGED <<desired_state, world, lock, job, todo, succ, bounds>>

\* notify_stopped of an artwork that is not running, or not protected.
NotifyStoppedNothing(t) ==
  /\ pc[t] = "notify" /\ job[t].cmd = "off"
  /\ ~(enabled /\ is_running)
  /\ EndCommand(t)
  /\ UNCHANGED <<memory, store, world, bounds>>

-----------------------------------------------------------------------------
(* Writing the state (_persist_state)                                      *)

\* Where a task waits for its UPDATE or INSERT and the commit.
WriteOf(label) ==
  CASE label = "persist" -> "write"
    [] label = "persist_stop" -> "write_stop"
    [] label = "persist_resume" -> "write_resume"

\* The SELECT has found the row or none, and the values are taken as memory holds
\* them by now.
Capture(t) ==
  /\ pc[t] \in {"persist", "persist_stop", "persist_resume"}
  /\ writing' = [writing EXCEPT ![t] = Snapshot]
  /\ inserting' = IF recorded THEN inserting ELSE inserting \cup {t}
  /\ Goto(t, WriteOf(pc[t]))
  /\ UNCHANGED <<memory, db, recorded, outdated, world, lock, job, todo, succ, bounds>>

\* The write is over, and the values of t are those of the row, or lost.
Settled(t, kept) ==
  /\ db' = IF kept THEN writing[t] ELSE db
  /\ recorded' = (recorded \/ kept)
  /\ writing' = [writing EXCEPT ![t] = DefaultRow]
  /\ inserting' = inserting \ {t}
  /\ outdated' = IF kept THEN IF t \in outdated THEN (outdated \ {t}) \cup {NoTask}
                                                ELSE outdated \ {NoTask}
                          ELSE outdated \ {t}

\* Writes of several tasks are committed in any order.  A first row is refused when
\* another task has inserted it, and any write may fail: that is logged, and the
\* caller goes on.
Settle(t) ==
  \/ ~(t \in inserting /\ recorded) /\ Settled(t, TRUE) /\ UNCHANGED bounds
  \/ t \in inserting /\ recorded /\ Settled(t, FALSE) /\ UNCHANGED bounds
  \/ /\ failures < MaxFailures
     /\ failures' = failures + 1
     /\ Settled(t, FALSE)
     /\ UNCHANGED <<restarts, toggles>>

\* The end of notify_stopped and of the command.
Persist(t) ==
  /\ pc[t] = "write"
  /\ Settle(t)
  /\ EndCommand(t)
  /\ UNCHANGED <<memory, world>>

-----------------------------------------------------------------------------
(* The enforcement loop                                                    *)

\* _check_all_runtimes.
CheckRuntimes ==
  LET limited == enabled /\ is_running
  IN /\ pc[Enforcer] = "runtimes"
     /\ IF limited /\ ~RuntimeLimitReached THEN RefreshWindow ELSE UNCHANGED <<used, stale>>
     /\ Goto(Enforcer, IF limited /\ (RuntimeLimitReached \/ BudgetExhausted)
                       THEN "want_stop" ELSE "cooldowns")
     /\ UNCHANGED <<is_running, runtime, cooldown, desired_state, store, world, lock, job,
                    todo, succ, bounds>>

\* _force_stop_locked up to its first await.  Under the lock only is_running
\* is checked again.
ForceStop ==
  /\ pc[Enforcer] = "want_stop" /\ LockFree
  /\ is_running
  /\ EndRun(TRUE)
  /\ lock' = Enforcer
  /\ Goto(Enforcer, "persist_stop")
  /\ UNCHANGED <<desired_state, world, job, todo, succ, bounds>>

ForceStopMoot ==
  /\ pc[Enforcer] = "want_stop" /\ LockFree
  /\ ~is_running
  /\ Goto(Enforcer, "cooldowns")
  /\ UNCHANGED <<memory, store, world, lock, job, todo, succ, bounds>>

\* The end of the run is written; now OFF is sent through the orchestrator.
PersistForceStop ==
  /\ pc[Enforcer] = "write_stop"
  /\ Settle(Enforcer)
  /\ StartCommand(Enforcer, Job("off", "protection", "artwork"), Eligible("protection"))
  /\ UNCHANGED <<memory, world, lock>>

\* _check_cooldown_expiry.
CheckCooldown ==
  /\ pc[Enforcer] = "cooldowns"
  /\ Goto(Enforcer, IF enabled /\ cooldown = 0 THEN "want_resume" ELSE "sleep")
  /\ UNCHANGED <<memory, store, world, lock, job, todo, succ, bounds>>

ClearCooldownOnly ==  \* mutant: what the sensors wanted is forgotten
  /\ pc[Enforcer] = "want_resume" /\ LockFree
  /\ cooldown' = NoCooldown
  /\ lock' = Enforcer
  /\ Goto(Enforcer, "persist_resume")
  /\ UNCHANGED <<is_running, runtime, used, stale, desired_state, store, world, job, todo,
                 succ, bounds>>

\* Under the lock the expired cooldown is cleared, for good.
ClearCooldown ==
  /\ pc[Enforcer] = "want_resume" /\ LockFree
  /\ cooldown' = NoCooldown
  /\ lock' = Enforcer
  /\ Goto(Enforcer, IF desired_state = "on" THEN "ask_gate" ELSE "persist_resume")
  /\ UNCHANGED <<is_running, runtime, used, stale, desired_state, store, world, job, todo,
                 succ, bounds>>

ResumeGateClosed ==
  /\ pc[Enforcer] = "ask_gate" /\ ~accepting
  /\ Goto(Enforcer, "persist_resume")
  /\ UNCHANGED <<memory, store, world, lock, job, todo, succ, bounds>>

\* Auto-resume acts like a sensor.
Resume ==
  /\ pc[Enforcer] = "gate_open"
  /\ enabled => CanStart
  /\ IF enabled THEN CheckRefreshes ELSE UNCHANGED <<used, stale>>
  /\ StartCommand(Enforcer, Job("on", "sensor", "artwork"), Eligible("sensor"))
  /\ UNCHANGED <<is_running, runtime, cooldown, desired_state, store, world, lock, bounds>>

ResumeBlocked ==
  /\ pc[Enforcer] = "gate_open"
  /\ enabled /\ ~CanStart
  /\ CheckRefreshes
  /\ Goto(Enforcer, "persist_resume")
  /\ UNCHANGED <<is_running, runtime, cooldown, desired_state, store, world, lock, job,
                 todo, succ, bounds>>

PersistResume ==
  /\ pc[Enforcer] = "write_resume"
  /\ Settle(Enforcer)
  /\ lock' = NoTask
  /\ Goto(Enforcer, "sleep")
  /\ UNCHANGED <<memory, world, job, todo, succ>>

-----------------------------------------------------------------------------
(* Time, restarts and administration                                       *)

Older(age) == AtMost(age + 1, AgeCap)
Left(c) == IF c > 0 THEN c - 1 ELSE c

\* A row as time passes.
Aged(row, rollover) ==
  [row EXCEPT !.runtime = IF row.is_running THEN Older(@) ELSE 0,
              !.cooldown = Left(@),
              !.stale = @ \/ (rollover /\ row.used > 0)]

\* One enforcement interval passes and a sleeping enforcement loop wakes up.
\* The loop's own checks take no time; everything that awaits a database or a
\* device may take any time.  Usage of 0 reads the same stale or not.
Tick ==
  LET rollover == phase = Window - 1
  IN /\ pc[Enforcer] \notin {"runtimes", "cooldowns"}
     /\ phase' = IF rollover THEN 0 ELSE phase + 1
     /\ runtime' = IF is_running THEN Older(runtime) ELSE 0
     /\ cooldown' = Left(cooldown)
     /\ stale' = (stale \/ (rollover /\ used > 0))
     /\ db' = Aged(db, rollover)
     /\ writing' = [t \in Tasks |-> Aged(writing[t], rollover)]
     /\ pc' = [pc EXCEPT ![Enforcer] = IF @ = "sleep" THEN "runtimes" ELSE @]
     /\ UNCHANGED <<is_running, used, desired_state, recorded, inserting, outdated,
                    accepting, enabled, power, lock, job, todo, succ, bounds>>

\* The service comes up again: every task is gone, with what it was writing, and
\* memory is what the database held.
TasksLost ==
  /\ lock' = NoTask
  /\ writing' = NoWrites /\ inserting' = {} /\ outdated' = {}
  /\ pc' = AllIdle /\ job' = NoJobs /\ todo' = NoTodo /\ succ' = NoSucc

Crash ==
  /\ restarts < MaxRestarts
  /\ restarts' = restarts + 1
  /\ TasksLost
  /\ LoadRow(db)
  /\ UNCHANGED <<db, recorded, world, failures, toggles>>

\* stop() cancels the enforcement loop where it awaits and persists all states.
Shutdown ==
  /\ restarts < MaxRestarts
  /\ restarts' = restarts + 1
  /\ TasksLost
  /\ db' = Snapshot /\ recorded' = TRUE
  /\ UNCHANGED <<memory, world, failures, toggles>>

\* update_artwork changes timeslice_enabled and tells the service
\* (reload_config with _apply_config).
ToggleEnabled ==
  /\ toggles < MaxToggles
  /\ toggles' = toggles + 1
  /\ enabled' = ~enabled
  /\ UNCHANGED <<memory, store, accepting, power, phase, tasks, failures, restarts>>

-----------------------------------------------------------------------------
SensorStep(s) ==
  \/ \E c \in Commands : SensorRequest(s, c)
  \/ SensorRefused(s) \/ SensorOn(s) \/ SensorOff(s)
  \/ SensorGateClosed(s) \/ SensorAdmitted(s) \/ SensorBlocked(s)

OperatorStep(o) ==
  \/ \E tgt \in OperatorTargets :
       OperatorOn(o, tgt[1], tgt[2]) \/ OperatorOff(o, tgt[1], tgt[2])
  \/ OperatorBlocked(o)
  \/ SetGate(o)

EnforcerStep ==
  \/ CheckRuntimes \/ ForceStop \/ ForceStopMoot \/ PersistForceStop
  \/ CheckCooldown \/ ClearCooldown \/ ResumeGateClosed \/ Resume \/ ResumeBlocked
  \/ PersistResume

CommandStep(t) ==
  \/ \E d \in todo[t] : DeviceObeys(t, d) \/ DeviceFails(t, d)
  \/ CommandFailed(t) \/ CommandSent(t)
  \/ NotifyStarted(t) \/ NotifyStopped(t) \/ NotifyStoppedNothing(t)
  \/ Capture(t) \/ Persist(t)

Next ==
  \/ \E s \in Sensors : SensorStep(s)
  \/ \E o \in Operators : OperatorStep(o)
  \/ \E t \in Sensors \cup {Enforcer} : GateOpen(t)
  \/ \E t \in Tasks : CommandStep(t)
  \/ EnforcerStep
  \/ Tick \/ Crash \/ Shutdown \/ ToggleEnabled

Spec == Init /\ [][Next]_vars

-----------------------------------------------------------------------------
(* Safety                                                                  *)

\* The stretches of a task that run inside `async with _get_artwork_lock`.
InLock(t) ==
  \/ t \in Sensors /\ pc[t] \notin {"idle", "queued"}
  \/ t = Enforcer /\ pc[t] \notin {"sleep", "runtimes", "want_stop", "cooldowns",
                                   "want_resume"}

\* The lock is held exactly while its holder is inside: every return path of
\* the sensor handlers and of the enforcement loop gives it back, and two of
\* them are never inside together.
LockDiscipline == \A t \in Sensors \cup {Enforcer} : InLock(t) <=> lock = t

\* An ON that the sensor path sends, or has sent and not yet reported, never
\* coincides with a cooldown: between the check and the notification nobody
\* can force-stop the artwork, because that takes the lock.
SensorOnOutsideCooldown ==
  \A t \in Tasks : pc[t] \in {"send", "notify"} /\ job[t].cmd = "on"
                   /\ job[t].source = "sensor" => ~CooldownActive

\* A crash now, or after the writes on their way, might bring back books from before
\* the last run ended.
Unsaved == outdated # {}

\* Without operators every write is made inside the lock.  As long as none fails,
\* nothing is unsaved while the lock is free.
Undisturbed == Operators = {} /\ failures = 0 /\ lock = NoTask

\* The cooldown as others know it: expired and None are the same.
CoolingOf(c) == IF c > 0 THEN c ELSE 0

\* Then the cooldown in the database is the one in memory: a crash neither forgets nor
\* revives a cooldown.
CooldownDurable == Undisturbed \/ ~Unsaved => CoolingOf(db.cooldown) = CoolingOf(cooldown)

\* And what counts as used is in the database, too: a crash gives no artwork its budget
\* back.
UsageIn(row) == IF row.stale THEN 0 ELSE row.used
UsageDurable == Undisturbed \/ ~Unsaved => UsageIn(db) = UsedNow

\* Nothing is in progress and no check is due.
Quiet == \A t \in Tasks : pc[t] = AllIdle[t]

\* As long as no device has failed, the service has not been restarted and
\* protection not been switched, is_running says whether the artwork is on
\* (docs/admin-guide/protection.md:92).
RunningIffOn ==
  Quiet /\ failures = 0 /\ restarts = 0 /\ toggles = 0
    => (is_running <=> \E d \in Devices : power[d] = "on")

-----------------------------------------------------------------------------
(* What the service promises                                               *)

Ledger == INSTANCE RunLedger WITH running <- is_running, age <- runtime,
                                  usage <- UsedNow, cooling <- CoolingOf(cooldown),
                                  unsaved <- Unsaved

\* Sensors, operators and the enforcement loop together keep the books of an
\* artwork as RunLedger demands, restarts included.
KeepsLedger == Ledger!Spec

-----------------------------------------------------------------------------
(* Action properties                                                       *)

Restarted == restarts' # restarts

\* Ending a run moves exactly its runtime into the usage of the current
\* window, once, whoever ends it; no other step but the passing of time and a
\* restart changes what counts as used.
ChargedOnce ==
  ~Restarted /\ phase' = phase =>
    IF is_running /\ ~is_running'
    THEN UsedNow' = AtMost(UsedNow + runtime, Budget)
    ELSE UsedNow' = UsedNow
RunsChargedOnce == [][ChargedOnce]_vars

\* No sensor command ends a run before its minimum: what the check under the
\* lock found still holds when the orchestrator reports the OFF.
SensorKeepsMinimum ==
  [][\A s \in Sensors : pc[s] = "notify" /\ is_running /\ ~is_running' /\ ~Restarted
       => runtime >= MinRuntime /\ (ForceCompletion => runtime >= MaxRuntime)]_vars

-----------------------------------------------------------------------------
(* Liveness                                                                *)

\* Every await ends: database calls and device commands have timeouts, time
\* passes, and asyncio.Lock wakes its waiters in FIFO order, so a task that
\* waits while the lock becomes free again and again gets it (strong
\* fairness).  Nobody is forced to send a request, to fail or to crash.
SensorLocks(s) == SensorRefused(s) \/ SensorOn(s) \/ SensorOff(s)
SensorGoesOn(s) ==
  \/ GateOpen(s) \/ SensorGateClosed(s) \/ SensorAdmitted(s) \/ SensorBlocked(s)
  \/ CommandStep(s)

Fairness ==
  /\ WF_vars(Tick)
  /\ WF_vars(EnforcerStep \/ GateOpen(Enforcer) \/ CommandStep(Enforcer))
  /\ SF_vars(ForceStop \/ ForceStopMoot \/ ClearCooldown)
  /\ \A o \in Operators : WF_vars(SetGate(o) \/ CommandStep(o))
  /\ \A s \in Sensors : SF_vars(SensorLocks(s)) /\ WF_vars(SensorGoesOn(s))

FairSpec == Spec /\ Fairness

\* No run lasts for ever while the artwork is protected: force-stop, lock and
\* commands never wait for each other in a circle.
RunsEnd == (enabled /\ is_running) ~> ~is_running

\* Every sensor request is answered, whoever else competes for the lock.
RequestsAnswered == \A s \in Sensors : (pc[s] # "idle") ~> (pc[s] = "idle")

\* What a sensor still wants when a cooldown is over comes on, however often others take
\* the lock first: unless the gate is closed, there is no budget or a device fails, the
\* enforcement loop resumes.
WantedResumes ==
  (enabled /\ cooldown = 0 /\ desired_state = "on") ~>
    \/ is_running \/ desired_state = "off" \/ ~enabled
    \/ ~accepting \/ ~BudgetAllows \/ failures > 0

\* A run that reaches max_runtime is over soon after, and its devices are off
\* (docs/staff-guide/protection.md:58).
LimitTurnsOff ==
  (enabled /\ is_running /\ RuntimeLimitReached) ~> (\A d \in Devices : power[d] = "off")

=============================================================================
