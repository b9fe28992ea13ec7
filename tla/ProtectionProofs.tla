-------------------------- MODULE ProtectionProofs --------------------------
(***************************************************************************)
(* Proofs about Protection, for every number of requests and devices and   *)
(* every configuration.                                                    *)
(***************************************************************************)
EXTENDS Protection, TLAPS

USE TasksAssumption, DevicesAssumption, ConfigAssumption, BoundsAssumption

-----------------------------------------------------------------------------
(* What the helpers of the actions do to the types                         *)

\* A capped number is within its cap.
LEMMA AtMostBounded ==
  ASSUME NEW n \in Nat, NEW cap \in Nat
  PROVE  AtMost(n, cap) \in 0..cap
BY DEF AtMost

\* Moving a task to an await of its kind keeps the types of the tasks.
LEMMA GotoTyped ==
  ASSUME TasksTyped, NEW t \in Tasks, NEW label, Goto(t, label),
         t \in Sensors => label \in SensorPC,
         t \in Operators => label \in OperatorPC,
         t = Enforcer => label \in EnforcerPC
  PROVE  /\ pc' \in [Tasks -> SensorPC \cup OperatorPC \cup EnforcerPC]
         /\ \A s \in Sensors : pc'[s] \in SensorPC
         /\ \A o \in Operators : pc'[o] \in OperatorPC
         /\ pc'[Enforcer] \in EnforcerPC
BY DEF TasksTyped, Goto, Tasks

\* So does starting a command, with the lock as it may be,
LEMMA StartCommandTyped ==
  ASSUME TasksTyped, NEW t \in Tasks, NEW j \in Jobs, NEW ds \in SUBSET Devices,
         StartCommand(t, j, ds), lock' \in Sensors \cup {Enforcer, NoTask}
  PROVE  TasksTyped'
<1>1. /\ "send" \in SensorPC /\ "send" \in OperatorPC /\ "send" \in EnforcerPC
      /\ Goto(t, "send")
  BY DEF SensorPC, OperatorPC, EnforcerPC, StartCommand
<1>2. QED
  BY <1>1, GotoTyped DEF TasksTyped, StartCommand

\* and ending one.
LEMMA EndCommandTyped ==
  ASSUME TasksTyped, NEW t \in Tasks, EndCommand(t)
  PROVE  TasksTyped'
<1>1. NoJob \in Jobs
  BY DEF NoJob, Jobs, Commands
<1>2. lock' \in Sensors \cup {Enforcer, NoTask}
  BY DEF EndCommand, TasksTyped
<1>3. PICK label \in {"idle", "cooldowns", "persist_resume"} :
        Goto(t, label) /\ (label = "idle" <=> t # Enforcer)
  BY DEF EndCommand
<1>4. /\ t \in Sensors => label \in SensorPC
      /\ t \in Operators => label \in OperatorPC
      /\ t = Enforcer => label \in EnforcerPC
  BY <1>3 DEF SensorPC, OperatorPC, EnforcerPC
<1>5. QED
  BY <1>1, <1>2, <1>3, <1>4, GotoTyped DEF TasksTyped, EndCommand

\* Ending a run and refreshing the window keep memory typed.
LEMMA EndRunTyped ==
  ASSUME MemoryTyped, StoreTyped, NEW forced \in BOOLEAN, EndRun(forced),
         UNCHANGED desired_state
  PROVE  MemoryTyped' /\ StoreTyped'
<1>1. UsedNow + runtime \in Nat
  BY DEF MemoryTyped, UsedNow
<1>2. used' \in 0..Budget
  BY <1>1, AtMostBounded DEF EndRun, ChargeRun
<1>3. cooldown' \in NoCooldown..Cooldown
  BY DEF MemoryTyped, EndRun, NoCooldown
<1>4. runtime' \in 0..AgeCap
  BY DEF EndRun
<1>5. is_running' \in BOOLEAN /\ stale' \in BOOLEAN
  BY DEF EndRun, ChargeRun
<1>6. StoreTyped'
  BY DEF EndRun, StoreTyped, Writers
<1>7. QED
  BY <1>2, <1>3, <1>4, <1>5, <1>6 DEF MemoryTyped

LEMMA RefreshTyped ==
  ASSUME MemoryTyped, RefreshWindow \/ CheckRefreshes \/ UNCHANGED <<used, stale>>
  PROVE  used' \in 0..Budget /\ stale' \in BOOLEAN
<1>1. CASE UNCHANGED <<used, stale>>
  BY <1>1 DEF MemoryTyped
<1>2. CASE used' = 0 /\ stale' = FALSE
  <2>1. used' \in 0..Budget
    BY <1>2
  <2>2. stale' \in BOOLEAN
    BY <1>2
  <2>3. QED
    BY <2>1, <2>2
<1>3. RefreshWindow => (used' = 0 /\ stale' = FALSE) \/ UNCHANGED <<used, stale>>
  BY DEF RefreshWindow
<1>4. CheckRefreshes => RefreshWindow \/ UNCHANGED <<used, stale>>
  BY DEF CheckRefreshes
<1>5. QED
  BY <1>1, <1>2, <1>3, <1>4

\* What is written to the database is a row of it.
LEMMA SnapshotTyped ==
  ASSUME MemoryTyped
  PROVE  Snapshot \in Rows
BY DEF MemoryTyped, Snapshot, Rows

LEMMA NoWritesTyped == DefaultRow \in Rows /\ NoWrites \in [Tasks -> Rows]
BY DEF NoWrites, DefaultRow, Rows, Commands, NoCooldown

\* A row stays one as time passes,
LEMMA AgedTyped ==
  ASSUME NEW row \in Rows, NEW rollover \in BOOLEAN
  PROVE  Aged(row, rollover) \in Rows
<1>1. /\ (IF row.is_running THEN Older(row.runtime) ELSE 0) \in 0..AgeCap
      /\ Left(row.cooldown) \in NoCooldown..Cooldown
  BY DEF Rows, Older, AtMost, Left, NoCooldown
<1>2. (row.stale \/ (rollover /\ row.used > 0)) \in BOOLEAN
  OBVIOUS
<1>3. QED
  BY <1>1, <1>2 DEF Aged, Rows

\* and the end of a write leaves rows behind, and counts what fails.
LEMMA SettleTyped ==
  ASSUME StoreTyped, BoundsTyped, NEW t \in Tasks, Settle(t)
  PROVE  StoreTyped' /\ BoundsTyped'
<1>1. PICK kept \in BOOLEAN : Settled(t, kept)
  BY DEF Settle
<1>2. db' \in Rows /\ writing' \in [Tasks -> Rows]
  BY <1>1, NoWritesTyped DEF Settled, StoreTyped
<1>3. recorded' \in BOOLEAN /\ inserting' \subseteq Tasks
  BY <1>1 DEF Settled, StoreTyped
<1>4. outdated' \subseteq Tasks \cup {NoTask}
  BY <1>1 DEF Settled, StoreTyped
<1>5. BoundsTyped'
  <2>1. \/ UNCHANGED bounds
        \/ failures < MaxFailures /\ failures' = failures + 1 /\ UNCHANGED <<restarts, toggles>>
    BY DEF Settle
  <2>2. QED
    BY <2>1 DEF BoundsTyped, bounds
<1>6. QED
  BY <1>2, <1>3, <1>4, <1>5 DEF StoreTyped

LEMMA EligibleTyped ==
  ASSUME NEW src
  PROVE  Eligible(src) \in SUBSET Devices
BY DEF Eligible

\* After a restart no task is anywhere.
LEMMA IdleTyped ==
  ASSUME TasksLost
  PROVE  TasksTyped'
<1>1. /\ AllIdle \in [Tasks -> SensorPC \cup OperatorPC \cup EnforcerPC]
      /\ \A s \in Sensors : AllIdle[s] \in SensorPC
      /\ \A o \in Operators : AllIdle[o] \in OperatorPC
      /\ AllIdle[Enforcer] \in EnforcerPC
  BY DEF AllIdle, SensorPC, OperatorPC, EnforcerPC, Tasks
<1>2. NoJobs \in [Tasks -> Jobs]
  BY DEF NoJobs, NoJob, Jobs, Commands
<1>3. NoTodo \in [Tasks -> SUBSET Devices] /\ NoSucc \in [Tasks -> BOOLEAN]
  BY DEF NoTodo, NoSucc
<1>4. QED
  BY <1>1, <1>2, <1>3 DEF TasksLost, TasksTyped

\* What an action leaves alone keeps its type.
LEMMA Kept ==
  /\ MemoryTyped /\ UNCHANGED memory => MemoryTyped'
  /\ StoreTyped /\ UNCHANGED store => StoreTyped'
  /\ WorldTyped /\ UNCHANGED world => WorldTyped'
  /\ TasksTyped /\ UNCHANGED tasks => TasksTyped'
  /\ BoundsTyped /\ UNCHANGED bounds => BoundsTyped'
<1>1. MemoryTyped /\ UNCHANGED memory => MemoryTyped'
  BY DEF memory, MemoryTyped
<1>2. WorldTyped /\ UNCHANGED world => WorldTyped'
  BY DEF world, WorldTyped
<1>3. TasksTyped /\ UNCHANGED tasks => TasksTyped'
  BY DEF tasks, TasksTyped
<1>4. BoundsTyped /\ UNCHANGED bounds => BoundsTyped'
  BY DEF bounds, BoundsTyped
<1>5. StoreTyped /\ UNCHANGED store => StoreTyped'
  BY DEF store, StoreTyped
<1>6. QED
  BY <1>1, <1>2, <1>3, <1>4, <1>5

-----------------------------------------------------------------------------
(* Type correctness                                                        *)

\* Every variable keeps its type in every step.
LEMMA TypeStep == TypeOK /\ [Next]_vars => TypeOK'
<1> SUFFICES ASSUME TypeOK, [Next]_vars PROVE TypeOK'
  OBVIOUS
<1>1. ASSUME NEW s \in Sensors, NEW c \in Commands, SensorRequest(s, c) PROVE TypeOK'
  <2>1. TasksTyped'
    BY <1>1, GotoTyped DEF SensorRequest, TypeOK, TasksTyped, SensorPC, OperatorPC,
       EnforcerPC, Tasks, Job, Jobs
  <2>2. QED
    BY <1>1, <2>1, Kept DEF SensorRequest, TypeOK, memory, store, world, tasks, bounds
<1>2. ASSUME NEW s \in Sensors, SensorRefused(s) PROVE TypeOK'
  <2>1. TasksTyped'
    BY <1>2, EndCommandTyped DEF SensorRefused, TypeOK, Tasks
  <2>2. MemoryTyped'
    BY <1>2 DEF SensorRefused, TypeOK, MemoryTyped, TasksTyped, Tasks, Jobs
  <2>3. QED
    BY <1>2, <2>1, <2>2, Kept DEF SensorRefused, TypeOK, memory, store, world, tasks, bounds
<1>3. ASSUME NEW s \in Sensors, SensorOn(s) PROVE TypeOK'
  <2>1. TasksTyped'
    BY <1>3, GotoTyped DEF SensorOn, TypeOK, TasksTyped, SensorPC, OperatorPC,
       EnforcerPC, Tasks
  <2>2. MemoryTyped'
    BY <1>3 DEF SensorOn, TypeOK, MemoryTyped, Commands
  <2>3. QED
    BY <1>3, <2>1, <2>2, Kept DEF SensorOn, TypeOK, memory, store, world, tasks, bounds
<1>4. ASSUME NEW s \in Sensors, SensorOff(s) PROVE TypeOK'
  <2>1. TasksTyped'
    BY <1>4, StartCommandTyped, EligibleTyped DEF SensorOff, TypeOK, TasksTyped,
       Tasks, Job, Jobs, Commands
  <2>2. MemoryTyped'
    BY <1>4 DEF SensorOff, TypeOK, MemoryTyped, Commands
  <2>3. QED
    BY <1>4, <2>1, <2>2, Kept DEF SensorOff, TypeOK, memory, store, world, tasks, bounds
<1>5. ASSUME NEW t \in Sensors \cup {Enforcer}, GateOpen(t) PROVE TypeOK'
  <2>1. TasksTyped'
    BY <1>5, GotoTyped DEF GateOpen, TypeOK, TasksTyped, SensorPC, OperatorPC,
       EnforcerPC, Tasks
  <2>2. QED
    BY <1>5, <2>1, Kept DEF GateOpen, TypeOK, memory, store, world, tasks, bounds
<1>6. ASSUME NEW s \in Sensors, SensorGateClosed(s) PROVE TypeOK'
  <2>1. TasksTyped'
    BY <1>6, EndCommandTyped DEF SensorGateClosed, TypeOK, Tasks
  <2>2. QED
    BY <1>6, <2>1, Kept DEF SensorGateClosed, TypeOK, memory, store, world, tasks, bounds
<1>7. ASSUME NEW s \in Sensors, SensorAdmitted(s) PROVE TypeOK'
  <2>1. TasksTyped'
    BY <1>7, StartCommandTyped, EligibleTyped DEF SensorAdmitted, TypeOK, TasksTyped,
       Tasks, Job, Jobs, Commands
  <2>2. MemoryTyped'
    BY <1>7, RefreshTyped DEF SensorAdmitted, TypeOK, MemoryTyped
  <2>3. QED
    BY <1>7, <2>1, <2>2, Kept DEF SensorAdmitted, TypeOK, memory, store, world, tasks, bounds
<1>8. ASSUME NEW s \in Sensors, SensorBlocked(s) PROVE TypeOK'
  <2>1. TasksTyped'
    BY <1>8, EndCommandTyped DEF SensorBlocked, TypeOK, Tasks
  <2>2. MemoryTyped'
    BY <1>8, RefreshTyped DEF SensorBlocked, TypeOK, MemoryTyped
  <2>3. QED
    BY <1>8, <2>1, <2>2, Kept DEF SensorBlocked, TypeOK, memory, store, world, tasks, bounds
<1>9. ASSUME NEW o \in Operators, NEW tgt \in OperatorTargets, OperatorOn(o, tgt[1], tgt[2])
       PROVE  TypeOK'
  <2>1. TasksTyped'
    BY <1>9, StartCommandTyped, EligibleTyped DEF OperatorOn, Targets, TypeOK,
       TasksTyped, Tasks, Job, Jobs, Commands
  <2>2. MemoryTyped'
    BY <1>9, RefreshTyped DEF OperatorOn, TypeOK, MemoryTyped
  <2>3. QED
    BY <1>9, <2>1, <2>2, Kept DEF OperatorOn, TypeOK, memory, store, world, tasks, bounds
<1>10. ASSUME NEW o \in Operators, OperatorBlocked(o) PROVE TypeOK'
  <2>1. MemoryTyped'
    BY <1>10, RefreshTyped DEF OperatorBlocked, TypeOK, MemoryTyped
  <2>2. QED
    BY <1>10, <2>1, Kept DEF OperatorBlocked, TypeOK, memory, store, world, tasks, bounds
<1>11. ASSUME NEW o \in Operators, NEW tgt \in OperatorTargets, OperatorOff(o, tgt[1], tgt[2])
       PROVE  TypeOK'
  <2>1. TasksTyped'
    BY <1>11, StartCommandTyped, EligibleTyped DEF OperatorOff, Targets, TypeOK,
       TasksTyped, Tasks, Job, Jobs, Commands
  <2>2. QED
    BY <1>11, <2>1, Kept DEF OperatorOff, TypeOK, memory, store, world, tasks, bounds
<1>12. ASSUME NEW o \in Operators, SetGate(o) PROVE TypeOK'
  <2>1. TasksTyped'
    BY <1>12, GotoTyped DEF SetGate, TypeOK, TasksTyped, SensorPC, OperatorPC,
       EnforcerPC, Tasks
  <2>2. WorldTyped'
    BY <1>12 DEF SetGate, TypeOK, WorldTyped
  <2>3. QED
    BY <1>12, <2>1, <2>2, Kept DEF SetGate, TypeOK, memory, store, world, tasks, bounds
<1>13. ASSUME NEW t \in Tasks, NEW d \in todo[t], DeviceObeys(t, d) PROVE TypeOK'
  <2>1. TasksTyped'
    BY <1>13 DEF DeviceObeys, TypeOK, TasksTyped, Tasks
  <2>2. WorldTyped'
    BY <1>13 DEF DeviceObeys, TypeOK, WorldTyped, TasksTyped, Jobs
  <2>3. QED
    BY <1>13, <2>1, <2>2, Kept DEF DeviceObeys, TypeOK, memory, store, world, tasks, bounds
<1>14. ASSUME NEW t \in Tasks, NEW d \in todo[t], DeviceFails(t, d) PROVE TypeOK'
  <2>1. TasksTyped'
    BY <1>14 DEF DeviceFails, TypeOK, TasksTyped, Tasks
  <2>2. BoundsTyped'
    BY <1>14 DEF DeviceFails, TypeOK, BoundsTyped
  <2>3. WorldTyped'
    <3>1. job[t].cmd \in Commands
      BY DEF TypeOK, TasksTyped, Jobs
    <3>2. power' \in [Devices -> Commands]
      BY <1>14, <3>1 DEF DeviceFails, TypeOK, WorldTyped
    <3>3. QED BY <1>14, <3>2 DEF DeviceFails, TypeOK, WorldTyped
  <2>4. QED
    BY <1>14, <2>1, <2>2, <2>3, Kept DEF DeviceFails, TypeOK, memory, store, world, tasks, bounds
<1>15. ASSUME NEW t \in Tasks, CommandFailed(t) PROVE TypeOK'
  <2>1. TasksTyped'
    BY <1>15, EndCommandTyped DEF CommandFailed, TypeOK, Tasks
  <2>2. QED
    BY <1>15, <2>1, Kept DEF CommandFailed, TypeOK, memory, store, world, tasks, bounds
<1>16. ASSUME NEW t \in Tasks, CommandSent(t) PROVE TypeOK'
  <2>1. TasksTyped'
    BY <1>16, GotoTyped DEF CommandSent, TypeOK, TasksTyped, SensorPC, OperatorPC,
       EnforcerPC, Tasks
  <2>2. QED
    BY <1>16, <2>1, Kept DEF CommandSent, TypeOK, memory, store, world, tasks, bounds
<1>17. ASSUME NEW t \in Tasks, NotifyStarted(t) PROVE TypeOK'
  <2>1. TasksTyped'
    BY <1>17, EndCommandTyped DEF NotifyStarted, TypeOK, Tasks
  <2>2. MemoryTyped'
    <3>1. runtime' \in 0..AgeCap
      BY <1>17 DEF NotifyStarted, TypeOK, MemoryTyped
    <3>2. is_running' \in BOOLEAN
      BY <1>17 DEF NotifyStarted, TypeOK, MemoryTyped
    <3>3. QED
      BY <1>17, <3>1, <3>2 DEF NotifyStarted, TypeOK, MemoryTyped
  <2>3. QED
    BY <1>17, <2>1, <2>2, Kept DEF NotifyStarted, TypeOK, memory, store, world, tasks, bounds
<1>18. ASSUME NEW t \in Tasks, NotifyStopped(t) PROVE TypeOK'
  <2>1. TasksTyped'
    BY <1>18, GotoTyped DEF NotifyStopped, TypeOK, TasksTyped, SensorPC, OperatorPC,
       EnforcerPC, Tasks
  <2>2. MemoryTyped' /\ StoreTyped'
    BY <1>18, EndRunTyped DEF NotifyStopped, TypeOK
  <2>3. QED
    BY <1>18, <2>1, <2>2, Kept DEF NotifyStopped, TypeOK, memory, store, world, tasks, bounds
<1>19. ASSUME NEW t \in Tasks, NotifyStoppedNothing(t) PROVE TypeOK'
  <2>1. TasksTyped'
    BY <1>19, EndCommandTyped DEF NotifyStoppedNothing, TypeOK, Tasks
  <2>2. QED
    BY <1>19, <2>1, Kept DEF NotifyStoppedNothing, TypeOK, memory, store, world, tasks,
       bounds
<1>20. ASSUME NEW t \in Tasks, Persist(t) PROVE TypeOK'
  <2>1. TasksTyped'
    BY <1>20, EndCommandTyped DEF Persist, TypeOK, Tasks
  <2>2. StoreTyped' /\ BoundsTyped'
    BY <1>20, SettleTyped DEF Persist, TypeOK
  <2>3. QED
    BY <1>20, <2>1, <2>2, Kept DEF Persist, TypeOK, memory, world
<1>21. ASSUME CheckRuntimes PROVE TypeOK'
  <2>1. TasksTyped'
    BY <1>21, GotoTyped DEF CheckRuntimes, TypeOK, TasksTyped, SensorPC, OperatorPC,
       EnforcerPC, Tasks
  <2>2. MemoryTyped'
    BY <1>21, RefreshTyped DEF CheckRuntimes, TypeOK, MemoryTyped
  <2>3. QED
    BY <1>21, <2>1, <2>2, Kept DEF CheckRuntimes, TypeOK, memory, store, world, tasks, bounds
<1>22. ASSUME ForceStop PROVE TypeOK'
  <2>1. TasksTyped'
    BY <1>22, GotoTyped DEF ForceStop, TypeOK, TasksTyped, SensorPC, OperatorPC,
       EnforcerPC, Tasks
  <2>2. MemoryTyped' /\ StoreTyped'
    BY <1>22, EndRunTyped DEF ForceStop, TypeOK
  <2>3. QED
    BY <1>22, <2>1, <2>2, Kept DEF ForceStop, TypeOK, memory, store, world, tasks, bounds
<1>23. ASSUME ForceStopMoot PROVE TypeOK'
  <2>1. TasksTyped'
    BY <1>23, GotoTyped DEF ForceStopMoot, TypeOK, TasksTyped, SensorPC, OperatorPC,
       EnforcerPC, Tasks
  <2>2. QED
    BY <1>23, <2>1, Kept DEF ForceStopMoot, TypeOK, memory, store, world, tasks, bounds
<1>24. ASSUME PersistForceStop PROVE TypeOK'
  <2>1. TasksTyped'
    BY <1>24, StartCommandTyped, EligibleTyped DEF PersistForceStop, TypeOK,
       TasksTyped, Tasks, Job, Jobs, Commands
  <2>2. StoreTyped' /\ BoundsTyped'
    BY <1>24, SettleTyped DEF PersistForceStop, TypeOK, Tasks
  <2>3. QED
    BY <1>24, <2>1, <2>2, Kept DEF PersistForceStop, TypeOK, memory, world
<1>25. ASSUME CheckCooldown PROVE TypeOK'
  <2>1. TasksTyped'
    BY <1>25, GotoTyped DEF CheckCooldown, TypeOK, TasksTyped, SensorPC, OperatorPC,
       EnforcerPC, Tasks
  <2>2. QED
    BY <1>25, <2>1, Kept DEF CheckCooldown, TypeOK, memory, store, world, tasks, bounds
<1>26. ASSUME ClearCooldown PROVE TypeOK'
  <2>1. TasksTyped'
    BY <1>26, GotoTyped DEF ClearCooldown, TypeOK, TasksTyped, SensorPC, OperatorPC,
       EnforcerPC, Tasks
  <2>2. MemoryTyped'
    BY <1>26 DEF ClearCooldown, TypeOK, MemoryTyped, NoCooldown
  <2>3. QED
    BY <1>26, <2>1, <2>2, Kept DEF ClearCooldown, TypeOK, memory, store, world, tasks, bounds
<1>27. ASSUME ResumeGateClosed PROVE TypeOK'
  <2>1. TasksTyped'
    BY <1>27, GotoTyped DEF ResumeGateClosed, TypeOK, TasksTyped, SensorPC,
       OperatorPC, EnforcerPC, Tasks
  <2>2. QED
    BY <1>27, <2>1, Kept DEF ResumeGateClosed, TypeOK, memory, store, world, tasks, bounds
<1>28. ASSUME Resume PROVE TypeOK'
  <2>1. TasksTyped'
    BY <1>28, StartCommandTyped, EligibleTyped DEF Resume, TypeOK, TasksTyped, Tasks,
       Job, Jobs, Commands
  <2>2. MemoryTyped'
    BY <1>28, RefreshTyped DEF Resume, TypeOK, MemoryTyped
  <2>3. QED
    BY <1>28, <2>1, <2>2, Kept DEF Resume, TypeOK, memory, store, world, tasks, bounds
<1>29. ASSUME ResumeBlocked PROVE TypeOK'
  <2>1. TasksTyped'
    BY <1>29, GotoTyped DEF ResumeBlocked, TypeOK, TasksTyped, SensorPC, OperatorPC,
       EnforcerPC, Tasks
  <2>2. MemoryTyped'
    BY <1>29, RefreshTyped DEF ResumeBlocked, TypeOK, MemoryTyped
  <2>3. QED
    BY <1>29, <2>1, <2>2, Kept DEF ResumeBlocked, TypeOK, memory, store, world, tasks, bounds
<1>30. ASSUME PersistResume PROVE TypeOK'
  <2>1. TasksTyped'
    BY <1>30, GotoTyped DEF PersistResume, TypeOK, TasksTyped, SensorPC, OperatorPC,
       EnforcerPC, Tasks
  <2>2. StoreTyped' /\ BoundsTyped'
    BY <1>30, SettleTyped DEF PersistResume, TypeOK, Tasks
  <2>3. QED
    BY <1>30, <2>1, <2>2, Kept DEF PersistResume, TypeOK, memory, world
<1>31. ASSUME Tick PROVE TypeOK'
  <2>1. phase' \in 0..(Window - 1)
    BY <1>31 DEF Tick, TypeOK, WorldTyped
  <2>2. WorldTyped'
    BY <1>31, <2>1 DEF Tick, TypeOK, WorldTyped
  <2>3. runtime' \in 0..AgeCap /\ cooldown' \in NoCooldown..Cooldown
    BY <1>31 DEF Tick, TypeOK, MemoryTyped, Older, AtMost, Left, NoCooldown
  <2>4. MemoryTyped'
    BY <1>31, <2>3 DEF Tick, TypeOK, MemoryTyped
  <2>5. (phase = Window - 1) \in BOOLEAN
    OBVIOUS
  <2>6. StoreTyped'
    BY <1>31, <2>5, AgedTyped DEF Tick, TypeOK, StoreTyped
  <2>7. TasksTyped'
    BY <1>31 DEF Tick, TypeOK, TasksTyped, EnforcerPC, Tasks
  <2>8. QED
    BY <1>31, <2>2, <2>4, <2>6, <2>7, Kept DEF Tick, TypeOK, bounds
<1>32. ASSUME Crash PROVE TypeOK'
  <2>1. TasksTyped'
    BY <1>32, IdleTyped DEF Crash
  <2>2. MemoryTyped'
    BY <1>32 DEF Crash, LoadRow, TypeOK, StoreTyped, Rows, MemoryTyped
  <2>3. BoundsTyped'
    BY <1>32 DEF Crash, TypeOK, BoundsTyped
  <2>4. StoreTyped'
    BY <1>32, NoWritesTyped DEF Crash, TasksLost, TypeOK, StoreTyped
  <2>5. QED
    BY <1>32, <2>1, <2>2, <2>3, <2>4, Kept DEF Crash, TypeOK
<1>33. ASSUME Shutdown PROVE TypeOK'
  <2>1. TasksTyped'
    BY <1>33, IdleTyped DEF Shutdown
  <2>2. StoreTyped'
    BY <1>33, SnapshotTyped, NoWritesTyped DEF Shutdown, TasksLost, TypeOK, StoreTyped
  <2>3. BoundsTyped'
    BY <1>33 DEF Shutdown, TypeOK, BoundsTyped
  <2>4. QED
    BY <1>33, <2>1, <2>2, <2>3, Kept DEF Shutdown, TypeOK
<1>34. ASSUME ToggleEnabled PROVE TypeOK'
  <2>1. WorldTyped'
    BY <1>34 DEF ToggleEnabled, TypeOK, WorldTyped
  <2>2. BoundsTyped'
    BY <1>34 DEF ToggleEnabled, TypeOK, BoundsTyped
  <2>3. QED
    BY <1>34, <2>1, <2>2, Kept DEF ToggleEnabled, TypeOK, memory, store, world, tasks, bounds
<1>35. CASE UNCHANGED vars
  BY <1>35, Kept DEF TypeOK, vars, memory, store, world, tasks, bounds
<1>36. ASSUME NEW t \in Tasks, Capture(t) PROVE TypeOK'
  <2>1. TasksTyped'
    BY <1>36, GotoTyped DEF Capture, WriteOf, TypeOK, TasksTyped, SensorPC, OperatorPC,
       EnforcerPC, Tasks
  <2>2. StoreTyped'
    BY <1>36, SnapshotTyped DEF Capture, TypeOK, StoreTyped
  <2>3. QED
    BY <1>36, <2>1, <2>2, Kept DEF Capture, TypeOK, memory, world, tasks, bounds
<1>37. QED
  BY <1>1, <1>2, <1>3, <1>4, <1>5, <1>6, <1>7, <1>8, <1>9, <1>10, <1>11, <1>12,
       <1>13, <1>14, <1>15, <1>16, <1>17, <1>18, <1>19, <1>20, <1>21, <1>22, <1>23,
       <1>24, <1>25, <1>26, <1>27, <1>28, <1>29, <1>30, <1>31, <1>32, <1>33, <1>34,
       <1>35, <1>36 DEF Next, SensorStep, OperatorStep, EnforcerStep, CommandStep

\* Every variable keeps its type.
THEOREM TypeCorrect == Spec => []TypeOK
<1>1. Init => TypeOK
  <2> SUFFICES ASSUME Init PROVE TypeOK
    OBVIOUS
  <2>1. WorldTyped /\ BoundsTyped
    BY DEF Init, WorldTyped, BoundsTyped, Commands
  <2>2. MemoryTyped
    <3>1. runtime \in 0..AgeCap /\ cooldown \in NoCooldown..Cooldown /\ used \in 0..Budget
      BY DEF Init, NoCooldown
    <3>2. is_running \in BOOLEAN /\ stale \in BOOLEAN /\ desired_state \in Commands
      BY DEF Init, Commands
    <3>3. QED
      BY <3>1, <3>2 DEF MemoryTyped
  <2>3. StoreTyped
    BY NoWritesTyped DEF Init, StoreTyped
  <2>4. TasksTyped
    BY DEF Init, TasksTyped, AllIdle, NoJobs, NoJob, Jobs, NoTodo, NoSucc, Commands,
           SensorPC, OperatorPC, EnforcerPC, Tasks
  <2>5. QED
    BY <2>1, <2>2, <2>3, <2>4 DEF TypeOK
<1>2. QED
  BY <1>1, TypeStep, PTL DEF Spec

-----------------------------------------------------------------------------
(* The lock                                                                *)

\* Every step hands the lock over where the code does.
LEMMA LockStep == TypeOK /\ LockDiscipline /\ [Next]_vars => LockDiscipline'
<1> SUFFICES ASSUME TypeOK, LockDiscipline, [Next]_vars PROVE LockDiscipline'
  OBVIOUS
<1>1. ASSUME NEW s \in Sensors, NEW c \in Commands, SensorRequest(s, c)
       PROVE  LockDiscipline'
  BY <1>1 DEF SensorRequest, Goto, LockDiscipline, InLock, TypeOK, TasksTyped, Tasks
<1>2. ASSUME NEW s \in Sensors, SensorRefused(s) PROVE LockDiscipline'
  BY <1>2 DEF SensorRefused, LockFree, EndCommand, Goto, LockDiscipline, InLock, TypeOK,
     TasksTyped, Tasks
<1>3. ASSUME NEW s \in Sensors, SensorOn(s) PROVE LockDiscipline'
  BY <1>3 DEF SensorOn, LockFree, Goto, LockDiscipline, InLock, TypeOK, TasksTyped,
     Tasks
<1>4. ASSUME NEW s \in Sensors, SensorOff(s) PROVE LockDiscipline'
  BY <1>4 DEF SensorOff, LockFree, StartCommand, Goto, LockDiscipline, InLock, TypeOK,
     TasksTyped, Tasks
<1>5. ASSUME NEW t \in Sensors \cup {Enforcer}, GateOpen(t) PROVE LockDiscipline'
  BY <1>5 DEF GateOpen, Goto, LockDiscipline, InLock, TypeOK, TasksTyped, Tasks
<1>6. ASSUME NEW s \in Sensors, SensorGateClosed(s) PROVE LockDiscipline'
  BY <1>6 DEF SensorGateClosed, EndCommand, Goto, LockDiscipline, InLock, TypeOK,
     TasksTyped, Tasks
<1>7. ASSUME NEW s \in Sensors, SensorAdmitted(s) PROVE LockDiscipline'
  BY <1>7 DEF SensorAdmitted, StartCommand, Goto, LockDiscipline, InLock, TypeOK,
     TasksTyped, Tasks
<1>8. ASSUME NEW s \in Sensors, SensorBlocked(s) PROVE LockDiscipline'
  BY <1>8 DEF SensorBlocked, EndCommand, Goto, LockDiscipline, InLock, TypeOK,
     TasksTyped, Tasks
<1>9. ASSUME NEW o \in Operators, NEW tgt \in OperatorTargets, OperatorOn(o, tgt[1], tgt[2])
       PROVE  LockDiscipline'
  BY <1>9 DEF OperatorOn, StartCommand, Goto, LockDiscipline, InLock, TypeOK,
     TasksTyped, Tasks
<1>10. ASSUME NEW o \in Operators, OperatorBlocked(o) PROVE LockDiscipline'
  BY <1>10 DEF OperatorBlocked, tasks, LockDiscipline, InLock, TypeOK, TasksTyped,
     Tasks
<1>11. ASSUME NEW o \in Operators, NEW tgt \in OperatorTargets, OperatorOff(o, tgt[1], tgt[2])
       PROVE  LockDiscipline'
  BY <1>11 DEF OperatorOff, StartCommand, Goto, LockDiscipline, InLock, TypeOK,
     TasksTyped, Tasks
<1>12. ASSUME NEW o \in Operators, SetGate(o) PROVE LockDiscipline'
  BY <1>12 DEF SetGate, Goto, LockDiscipline, InLock, TypeOK, TasksTyped, Tasks
<1>13. ASSUME NEW t \in Tasks, NEW d \in todo[t], DeviceObeys(t, d) PROVE LockDiscipline'
  BY <1>13 DEF DeviceObeys, LockDiscipline, InLock, TypeOK, TasksTyped, Tasks
<1>14. ASSUME NEW t \in Tasks, NEW d \in todo[t], DeviceFails(t, d) PROVE LockDiscipline'
  BY <1>14 DEF DeviceFails, LockDiscipline, InLock, TypeOK, TasksTyped, Tasks
<1>15. ASSUME NEW t \in Tasks, CommandFailed(t) PROVE LockDiscipline'
  BY <1>15 DEF CommandFailed, EndCommand, Goto, LockDiscipline, InLock, TypeOK,
     TasksTyped, Tasks
<1>16. ASSUME NEW t \in Tasks, CommandSent(t) PROVE LockDiscipline'
  BY <1>16 DEF CommandSent, Goto, LockDiscipline, InLock, TypeOK, TasksTyped, Tasks
<1>17. ASSUME NEW t \in Tasks, NotifyStarted(t) PROVE LockDiscipline'
  BY <1>17 DEF NotifyStarted, EndCommand, Goto, LockDiscipline, InLock, TypeOK,
     TasksTyped, Tasks
<1>18. ASSUME NEW t \in Tasks, NotifyStopped(t) PROVE LockDiscipline'
  BY <1>18 DEF NotifyStopped, Goto, LockDiscipline, InLock, TypeOK, TasksTyped, Tasks
<1>19. ASSUME NEW t \in Tasks, NotifyStoppedNothing(t) PROVE LockDiscipline'
  BY <1>19 DEF NotifyStoppedNothing, EndCommand, Goto, LockDiscipline, InLock, TypeOK,
     TasksTyped, Tasks
<1>20. ASSUME NEW t \in Tasks, Persist(t) PROVE LockDiscipline'
  BY <1>20 DEF Persist, EndCommand, Goto, LockDiscipline, InLock, TypeOK, TasksTyped,
     Tasks
<1>21. ASSUME CheckRuntimes PROVE LockDiscipline'
  BY <1>21 DEF CheckRuntimes, Goto, LockDiscipline, InLock, TypeOK, TasksTyped, Tasks
<1>22. ASSUME ForceStop PROVE LockDiscipline'
  BY <1>22 DEF ForceStop, LockFree, Goto, LockDiscipline, InLock, TypeOK, TasksTyped,
     Tasks
<1>23. ASSUME ForceStopMoot PROVE LockDiscipline'
  BY <1>23 DEF ForceStopMoot, LockFree, Goto, LockDiscipline, InLock, TypeOK,
     TasksTyped, Tasks
<1>24. ASSUME PersistForceStop PROVE LockDiscipline'
  BY <1>24 DEF PersistForceStop, StartCommand, Goto, LockDiscipline, InLock, TypeOK,
     TasksTyped, Tasks
<1>25. ASSUME CheckCooldown PROVE LockDiscipline'
  BY <1>25 DEF CheckCooldown, Goto, LockDiscipline, InLock, TypeOK, TasksTyped, Tasks
<1>26. ASSUME ClearCooldown PROVE LockDiscipline'
  BY <1>26 DEF ClearCooldown, LockFree, Goto, LockDiscipline, InLock, TypeOK,
     TasksTyped, Tasks
<1>27. ASSUME ResumeGateClosed PROVE LockDiscipline'
  BY <1>27 DEF ResumeGateClosed, Goto, LockDiscipline, InLock, TypeOK, TasksTyped,
     Tasks
<1>28. ASSUME Resume PROVE LockDiscipline'
  BY <1>28 DEF Resume, StartCommand, Goto, LockDiscipline, InLock, TypeOK, TasksTyped,
     Tasks
<1>29. ASSUME ResumeBlocked PROVE LockDiscipline'
  BY <1>29 DEF ResumeBlocked, Goto, LockDiscipline, InLock, TypeOK, TasksTyped, Tasks
<1>30. ASSUME PersistResume PROVE LockDiscipline'
  BY <1>30 DEF PersistResume, Goto, LockDiscipline, InLock, TypeOK, TasksTyped, Tasks
<1>31. ASSUME Tick PROVE LockDiscipline'
  BY <1>31 DEF Tick, LockDiscipline, InLock, TypeOK, TasksTyped, Tasks
<1>32. ASSUME Crash PROVE LockDiscipline'
  BY <1>32 DEF Crash, TasksLost, AllIdle, LockDiscipline, InLock, TypeOK, TasksTyped,
     Tasks
<1>33. ASSUME Shutdown PROVE LockDiscipline'
  BY <1>33 DEF Shutdown, TasksLost, AllIdle, LockDiscipline, InLock, TypeOK,
     TasksTyped, Tasks
<1>34. ASSUME ToggleEnabled PROVE LockDiscipline'
  BY <1>34 DEF ToggleEnabled, tasks, LockDiscipline, InLock, TypeOK, TasksTyped, Tasks
<1>35. CASE UNCHANGED vars
  BY <1>35 DEF vars, tasks, LockDiscipline, InLock
<1>36. ASSUME NEW t \in Tasks, Capture(t) PROVE LockDiscipline'
  BY <1>36 DEF Capture, WriteOf, Goto, LockDiscipline, InLock, TypeOK, TasksTyped, Tasks
<1>37. QED
  BY <1>1, <1>2, <1>3, <1>4, <1>5, <1>6, <1>7, <1>8, <1>9, <1>10, <1>11, <1>12, <1>13,
     <1>14, <1>15, <1>16, <1>17, <1>18, <1>19, <1>20, <1>21, <1>22, <1>23, <1>24,
     <1>25, <1>26, <1>27, <1>28, <1>29, <1>30, <1>31, <1>32, <1>33, <1>34, <1>35, <1>36
  DEF Next, SensorStep, OperatorStep, EnforcerStep, CommandStep

\* The lock is held exactly by the task that is inside.
THEOREM LockCorrect == Spec => []LockDiscipline
<1>1. Init => LockDiscipline
  BY DEF Init, LockDiscipline, InLock, AllIdle, Tasks
<1>2. QED
  BY <1>1, LockStep, TypeCorrect, PTL DEF Spec

-----------------------------------------------------------------------------
(* Cooldowns                                                               *)

\* Who commands: a sensor request as "sensor", an operator as itself, the
\* enforcement loop as "protection" to force a stop and as "sensor" to resume.
SourcesRight ==
  /\ \A s \in Sensors : job[s].source \in {"none", "sensor"}
  /\ \A o \in Operators : job[o].source \in {"none", "web", "scheduler"}
  /\ job[Enforcer] \in {NoJob, Job("off", "protection", "artwork"),
                        Job("on", "sensor", "artwork")}
  /\ pc[Enforcer] \in {"send", "notify"} => job[Enforcer] # NoJob
  /\ pc[Enforcer] \in {"persist", "write"} => job[Enforcer].source = "protection"

\* Why a cooldown and a sensor ON exclude each other: only the enforcement loop
\* starts a cooldown, only inside the lock, and a resume begins by clearing it.
CooldownInv ==
  /\ SourcesRight
  /\ SensorOnOutsideCooldown
  /\ pc[Enforcer] \in {"ask_gate", "gate_open"} => cooldown = NoCooldown

\* A task keeps to its kind of command.
LEMMA SourcesStep == TypeOK /\ SourcesRight /\ [Next]_vars => SourcesRight'
<1> SUFFICES ASSUME TypeOK, SourcesRight, [Next]_vars PROVE SourcesRight'
  OBVIOUS
<1>1. ASSUME NEW s \in Sensors, NEW c \in Commands, SensorRequest(s, c)
       PROVE  SourcesRight'
  BY <1>1 DEF SensorRequest, Goto, SourcesRight, TypeOK, TasksTyped, Tasks, Job, NoJob
<1>2. ASSUME NEW s \in Sensors, SensorRefused(s) PROVE SourcesRight'
  BY <1>2 DEF SensorRefused, EndCommand, Goto, SourcesRight, TypeOK, TasksTyped,
     Tasks, Job, NoJob
<1>3. ASSUME NEW s \in Sensors, SensorOn(s) PROVE SourcesRight'
  BY <1>3 DEF SensorOn, Goto, SourcesRight, TypeOK, TasksTyped, Tasks, Job, NoJob
<1>4. ASSUME NEW s \in Sensors, SensorOff(s) PROVE SourcesRight'
  BY <1>4 DEF SensorOff, StartCommand, Goto, SourcesRight, TypeOK, TasksTyped, Tasks,
     Job, NoJob
<1>5. ASSUME NEW t \in Sensors \cup {Enforcer}, GateOpen(t) PROVE SourcesRight'
  BY <1>5 DEF GateOpen, Goto, SourcesRight, TypeOK, TasksTyped, Tasks, Job, NoJob
<1>6. ASSUME NEW s \in Sensors, SensorGateClosed(s) PROVE SourcesRight'
  BY <1>6 DEF SensorGateClosed, EndCommand, Goto, SourcesRight, TypeOK, TasksTyped,
     Tasks, Job, NoJob
<1>7. ASSUME NEW s \in Sensors, SensorAdmitted(s) PROVE SourcesRight'
  BY <1>7 DEF SensorAdmitted, StartCommand, Goto, SourcesRight, TypeOK, TasksTyped,
     Tasks, Job, NoJob
<1>8. ASSUME NEW s \in Sensors, SensorBlocked(s) PROVE SourcesRight'
  BY <1>8 DEF SensorBlocked, EndCommand, Goto, SourcesRight, TypeOK, TasksTyped,
     Tasks, Job, NoJob
<1>9. ASSUME NEW o \in Operators, NEW tgt \in OperatorTargets, OperatorOn(o, tgt[1], tgt[2])
       PROVE  SourcesRight'
  BY <1>9 DEF OperatorOn, StartCommand, Goto, SourcesRight, TypeOK, TasksTyped, Tasks,
     Job, NoJob
<1>10. ASSUME NEW o \in Operators, OperatorBlocked(o) PROVE SourcesRight'
  BY <1>10 DEF OperatorBlocked, tasks, SourcesRight, TypeOK, TasksTyped, Tasks, Job,
     NoJob
<1>11. ASSUME NEW o \in Operators, NEW tgt \in OperatorTargets, OperatorOff(o, tgt[1], tgt[2])
       PROVE  SourcesRight'
  BY <1>11 DEF OperatorOff, StartCommand, Goto, SourcesRight, TypeOK, TasksTyped,
     Tasks, Job, NoJob
<1>12. ASSUME NEW o \in Operators, SetGate(o) PROVE SourcesRight'
  BY <1>12 DEF SetGate, Goto, SourcesRight, TypeOK, TasksTyped, Tasks, Job, NoJob
<1>13. ASSUME NEW t \in Tasks, NEW d \in todo[t], DeviceObeys(t, d) PROVE SourcesRight'
  BY <1>13 DEF DeviceObeys, SourcesRight, TypeOK, TasksTyped, Tasks, Job, NoJob
<1>14. ASSUME NEW t \in Tasks, NEW d \in todo[t], DeviceFails(t, d) PROVE SourcesRight'
  BY <1>14 DEF DeviceFails, SourcesRight, TypeOK, TasksTyped, Tasks, Job, NoJob
<1>15. ASSUME NEW t \in Tasks, CommandFailed(t) PROVE SourcesRight'
  BY <1>15 DEF CommandFailed, EndCommand, Goto, SourcesRight, TypeOK, TasksTyped,
     Tasks, Job, NoJob
<1>16. ASSUME NEW t \in Tasks, CommandSent(t) PROVE SourcesRight'
  BY <1>16 DEF CommandSent, Goto, SourcesRight, TypeOK, TasksTyped, Tasks, Job, NoJob
<1>17. ASSUME NEW t \in Tasks, NotifyStarted(t) PROVE SourcesRight'
  BY <1>17 DEF NotifyStarted, EndCommand, Goto, SourcesRight, TypeOK, TasksTyped,
     Tasks, Job, NoJob
<1>18. ASSUME NEW t \in Tasks, NotifyStopped(t) PROVE SourcesRight'
  BY <1>18 DEF NotifyStopped, Goto, SourcesRight, TypeOK, TasksTyped, Tasks, Job,
     NoJob
<1>19. ASSUME NEW t \in Tasks, NotifyStoppedNothing(t) PROVE SourcesRight'
  BY <1>19 DEF NotifyStoppedNothing, EndCommand, Goto, SourcesRight, TypeOK,
     TasksTyped, Tasks, Job, NoJob
<1>20. ASSUME NEW t \in Tasks, Persist(t) PROVE SourcesRight'
  BY <1>20 DEF Persist, EndCommand, Goto, SourcesRight, TypeOK, TasksTyped, Tasks,
     Job, NoJob
<1>21. ASSUME CheckRuntimes PROVE SourcesRight'
  BY <1>21 DEF CheckRuntimes, Goto, SourcesRight, TypeOK, TasksTyped, Tasks, Job,
     NoJob
<1>22. ASSUME ForceStop PROVE SourcesRight'
  BY <1>22 DEF ForceStop, Goto, SourcesRight, TypeOK, TasksTyped, Tasks, Job, NoJob
<1>23. ASSUME ForceStopMoot PROVE SourcesRight'
  BY <1>23 DEF ForceStopMoot, Goto, SourcesRight, TypeOK, TasksTyped, Tasks, Job,
     NoJob
<1>24. ASSUME PersistForceStop PROVE SourcesRight'
  BY <1>24 DEF PersistForceStop, StartCommand, Goto, SourcesRight, TypeOK, TasksTyped,
     Tasks, Job, NoJob
<1>25. ASSUME CheckCooldown PROVE SourcesRight'
  BY <1>25 DEF CheckCooldown, Goto, SourcesRight, TypeOK, TasksTyped, Tasks, Job,
     NoJob
<1>26. ASSUME ClearCooldown PROVE SourcesRight'
  BY <1>26 DEF ClearCooldown, Goto, SourcesRight, TypeOK, TasksTyped, Tasks, Job,
     NoJob
<1>27. ASSUME ResumeGateClosed PROVE SourcesRight'
  BY <1>27 DEF ResumeGateClosed, Goto, SourcesRight, TypeOK, TasksTyped, Tasks, Job,
     NoJob
<1>28. ASSUME Resume PROVE SourcesRight'
  BY <1>28 DEF Resume, StartCommand, Goto, SourcesRight, TypeOK, TasksTyped, Tasks,
     Job, NoJob
<1>29. ASSUME ResumeBlocked PROVE SourcesRight'
  BY <1>29 DEF ResumeBlocked, Goto, SourcesRight, TypeOK, TasksTyped, Tasks, Job,
     NoJob
<1>30. ASSUME PersistResume PROVE SourcesRight'
  BY <1>30 DEF PersistResume, Goto, SourcesRight, TypeOK, TasksTyped, Tasks, Job,
     NoJob
<1>31. ASSUME Tick PROVE SourcesRight'
  BY <1>31 DEF Tick, SourcesRight, TypeOK, TasksTyped, Tasks, Job, NoJob
<1>32. ASSUME Crash PROVE SourcesRight'
  BY <1>32 DEF Crash, TasksLost, AllIdle, SourcesRight, TypeOK, TasksTyped, Tasks,
     Job, NoJob, NoJobs
<1>33. ASSUME Shutdown PROVE SourcesRight'
  BY <1>33 DEF Shutdown, TasksLost, AllIdle, SourcesRight, TypeOK, TasksTyped, Tasks,
     Job, NoJob, NoJobs
<1>34. ASSUME ToggleEnabled PROVE SourcesRight'
  BY <1>34 DEF ToggleEnabled, tasks, SourcesRight, TypeOK, TasksTyped, Tasks, Job,
     NoJob
<1>35. CASE UNCHANGED vars
  BY <1>35 DEF vars, tasks, SourcesRight
<1>36. ASSUME NEW t \in Tasks, Capture(t) PROVE SourcesRight'
  BY <1>36 DEF Capture, WriteOf, Goto, SourcesRight, TypeOK, TasksTyped, Tasks, Job, NoJob
<1>37. QED
  BY <1>1, <1>2, <1>3, <1>4, <1>5, <1>6, <1>7, <1>8, <1>9, <1>10, <1>11, <1>12, <1>13,
     <1>14, <1>15, <1>16, <1>17, <1>18, <1>19, <1>20, <1>21, <1>22, <1>23, <1>24,
     <1>25, <1>26, <1>27, <1>28, <1>29, <1>30, <1>31, <1>32, <1>33, <1>34, <1>35,
     <1>36 DEF
     Next, SensorStep, OperatorStep, EnforcerStep, CommandStep

\* The cooldown invariant is inductive.
LEMMA CooldownStep == TypeOK /\ LockDiscipline /\ CooldownInv /\ [Next]_vars => CooldownInv'
<1> SUFFICES ASSUME TypeOK, LockDiscipline, CooldownInv, [Next]_vars PROVE CooldownInv'
  OBVIOUS
<1>1. ASSUME NEW s \in Sensors, NEW c \in Commands, SensorRequest(s, c) PROVE CooldownInv'
  BY <1>1, SourcesStep DEF SensorRequest, Goto, CooldownInv, SourcesRight,
     SensorOnOutsideCooldown, CooldownActive, LockDiscipline, InLock,
     TypeOK, TasksTyped, Tasks, Job, NoJob, memory
<1>2. ASSUME NEW s \in Sensors, SensorRefused(s) PROVE CooldownInv'
  BY <1>2, SourcesStep DEF SensorRefused, LockFree, EndCommand, Goto, CooldownInv,
     SourcesRight,
     SensorOnOutsideCooldown, CooldownActive, LockDiscipline, InLock,
     TypeOK, TasksTyped, Tasks, Job, NoJob, memory
<1>3. ASSUME NEW s \in Sensors, SensorOn(s) PROVE CooldownInv'
  BY <1>3, SourcesStep DEF SensorOn, LockFree, Goto, CooldownInv, SourcesRight,
     SensorOnOutsideCooldown, CooldownActive, LockDiscipline, InLock,
     TypeOK, TasksTyped, Tasks, Job, NoJob, memory
<1>4. ASSUME NEW s \in Sensors, SensorOff(s) PROVE CooldownInv'
  BY <1>4, SourcesStep DEF SensorOff, LockFree, StartCommand, Goto, CooldownInv,
     SourcesRight,
     SensorOnOutsideCooldown, CooldownActive, LockDiscipline, InLock,
     TypeOK, TasksTyped, Tasks, Job, NoJob, memory
<1>5. ASSUME NEW t \in Sensors \cup {Enforcer}, GateOpen(t) PROVE CooldownInv'
  BY <1>5, SourcesStep DEF GateOpen, Goto, CooldownInv, SourcesRight,
     SensorOnOutsideCooldown, CooldownActive, LockDiscipline, InLock,
     TypeOK, TasksTyped, Tasks, Job, NoJob, memory
<1>6. ASSUME NEW s \in Sensors, SensorGateClosed(s) PROVE CooldownInv'
  BY <1>6, SourcesStep DEF SensorGateClosed, EndCommand, Goto, CooldownInv,
     SourcesRight, SensorOnOutsideCooldown, CooldownActive,
     LockDiscipline, InLock, TypeOK, TasksTyped, Tasks, Job, NoJob, memory
<1>7. ASSUME NEW s \in Sensors, SensorAdmitted(s) PROVE CooldownInv'
  BY <1>7, SourcesStep DEF SensorAdmitted, StartCommand, Goto, CooldownInv,
     SourcesRight, SensorOnOutsideCooldown, CooldownActive,
     LockDiscipline, InLock, TypeOK, TasksTyped, Tasks, Job, NoJob, memory, CanStart,
     NoCooldown
<1>8. ASSUME NEW s \in Sensors, SensorBlocked(s) PROVE CooldownInv'
  BY <1>8, SourcesStep DEF SensorBlocked, EndCommand, Goto, CooldownInv, SourcesRight,
     SensorOnOutsideCooldown, CooldownActive, LockDiscipline, InLock,
     TypeOK, TasksTyped, Tasks, Job, NoJob, memory
<1>9. ASSUME NEW o \in Operators, NEW tgt \in OperatorTargets, OperatorOn(o, tgt[1], tgt[2])
       PROVE  CooldownInv'
  BY <1>9, SourcesStep DEF OperatorOn, StartCommand, Goto, CooldownInv, SourcesRight,
     SensorOnOutsideCooldown, CooldownActive, LockDiscipline, InLock,
     TypeOK, TasksTyped, Tasks, Job, NoJob, memory
<1>10. ASSUME NEW o \in Operators, OperatorBlocked(o) PROVE CooldownInv'
  BY <1>10, SourcesStep DEF OperatorBlocked, tasks, CooldownInv, SourcesRight,
     SensorOnOutsideCooldown, CooldownActive, LockDiscipline, InLock,
     TypeOK, TasksTyped, Tasks, Job, NoJob, memory
<1>11. ASSUME NEW o \in Operators, NEW tgt \in OperatorTargets, OperatorOff(o, tgt[1], tgt[2])
       PROVE  CooldownInv'
  BY <1>11, SourcesStep DEF OperatorOff, StartCommand, Goto, CooldownInv,
     SourcesRight, SensorOnOutsideCooldown, CooldownActive,
     LockDiscipline, InLock, TypeOK, TasksTyped, Tasks, Job, NoJob, memory
<1>12. ASSUME NEW o \in Operators, SetGate(o) PROVE CooldownInv'
  BY <1>12, SourcesStep DEF SetGate, Goto, CooldownInv, SourcesRight,
     SensorOnOutsideCooldown, CooldownActive, LockDiscipline, InLock,
     TypeOK, TasksTyped, Tasks, Job, NoJob, memory
<1>13. ASSUME NEW t \in Tasks, NEW d \in todo[t], DeviceObeys(t, d) PROVE CooldownInv'
  BY <1>13, SourcesStep DEF DeviceObeys, CooldownInv, SourcesRight,
     SensorOnOutsideCooldown, CooldownActive, LockDiscipline, InLock,
     TypeOK, TasksTyped, Tasks, Job, NoJob, memory
<1>14. ASSUME NEW t \in Tasks, NEW d \in todo[t], DeviceFails(t, d) PROVE CooldownInv'
  BY <1>14, SourcesStep DEF DeviceFails, CooldownInv, SourcesRight,
     SensorOnOutsideCooldown, CooldownActive, LockDiscipline, InLock,
     TypeOK, TasksTyped, Tasks, Job, NoJob, memory
<1>15. ASSUME NEW t \in Tasks, CommandFailed(t) PROVE CooldownInv'
  BY <1>15, SourcesStep DEF CommandFailed, EndCommand, Goto, CooldownInv,
     SourcesRight, SensorOnOutsideCooldown, CooldownActive,
     LockDiscipline, InLock, TypeOK, TasksTyped, Tasks, Job, NoJob, memory
<1>16. ASSUME NEW t \in Tasks, CommandSent(t) PROVE CooldownInv'
  BY <1>16, SourcesStep DEF CommandSent, Goto, CooldownInv, SourcesRight,
     SensorOnOutsideCooldown, CooldownActive, LockDiscipline, InLock,
     TypeOK, TasksTyped, Tasks, Job, NoJob, memory
<1>17. ASSUME NEW t \in Tasks, NotifyStarted(t) PROVE CooldownInv'
  BY <1>17, SourcesStep DEF NotifyStarted, EndCommand, Goto, CooldownInv,
     SourcesRight, SensorOnOutsideCooldown, CooldownActive,
     LockDiscipline, InLock, TypeOK, TasksTyped, Tasks, Job, NoJob, memory
<1>18. ASSUME NEW t \in Tasks, NotifyStopped(t) PROVE CooldownInv'
  BY <1>18, SourcesStep DEF NotifyStopped, Goto, CooldownInv, SourcesRight,
     SensorOnOutsideCooldown, CooldownActive, LockDiscipline, InLock,
     TypeOK, TasksTyped, Tasks, Job, NoJob, memory, EndRun
<1>19. ASSUME NEW t \in Tasks, NotifyStoppedNothing(t) PROVE CooldownInv'
  BY <1>19, SourcesStep DEF NotifyStoppedNothing, EndCommand, Goto, CooldownInv,
     SourcesRight, SensorOnOutsideCooldown, CooldownActive,
     LockDiscipline, InLock, TypeOK, TasksTyped, Tasks, Job, NoJob, memory
<1>20. ASSUME NEW t \in Tasks, Persist(t) PROVE CooldownInv'
  BY <1>20, SourcesStep DEF Persist, EndCommand, Goto, CooldownInv, SourcesRight,
     SensorOnOutsideCooldown, CooldownActive, LockDiscipline, InLock,
     TypeOK, TasksTyped, Tasks, Job, NoJob, memory, Snapshot
<1>21. ASSUME CheckRuntimes PROVE CooldownInv'
  BY <1>21, SourcesStep DEF CheckRuntimes, Goto, CooldownInv, SourcesRight,
     SensorOnOutsideCooldown, CooldownActive, LockDiscipline, InLock,
     TypeOK, TasksTyped, Tasks, Job, NoJob, memory
<1>22. ASSUME ForceStop PROVE CooldownInv'
  BY <1>22, SourcesStep DEF ForceStop, LockFree, Goto, CooldownInv, SourcesRight,
     SensorOnOutsideCooldown, CooldownActive, LockDiscipline, InLock,
     TypeOK, TasksTyped, Tasks, Job, NoJob, memory, EndRun
<1>23. ASSUME ForceStopMoot PROVE CooldownInv'
  BY <1>23, SourcesStep DEF ForceStopMoot, LockFree, Goto, CooldownInv, SourcesRight,
     SensorOnOutsideCooldown, CooldownActive, LockDiscipline, InLock,
     TypeOK, TasksTyped, Tasks, Job, NoJob, memory
<1>24. ASSUME PersistForceStop PROVE CooldownInv'
  BY <1>24, SourcesStep DEF PersistForceStop, StartCommand, Goto, CooldownInv,
     SourcesRight, SensorOnOutsideCooldown, CooldownActive,
     LockDiscipline, InLock, TypeOK, TasksTyped, Tasks, Job, NoJob, memory, Snapshot
<1>25. ASSUME CheckCooldown PROVE CooldownInv'
  BY <1>25, SourcesStep DEF CheckCooldown, Goto, CooldownInv, SourcesRight,
     SensorOnOutsideCooldown, CooldownActive, LockDiscipline, InLock,
     TypeOK, TasksTyped, Tasks, Job, NoJob, memory
<1>26. ASSUME ClearCooldown PROVE CooldownInv'
  BY <1>26, SourcesStep DEF ClearCooldown, LockFree, Goto, CooldownInv, SourcesRight,
     SensorOnOutsideCooldown, CooldownActive, LockDiscipline, InLock,
     TypeOK, TasksTyped, Tasks, Job, NoJob, memory, NoCooldown
<1>27. ASSUME ResumeGateClosed PROVE CooldownInv'
  BY <1>27, SourcesStep DEF ResumeGateClosed, Goto, CooldownInv, SourcesRight,
     SensorOnOutsideCooldown, CooldownActive, LockDiscipline, InLock,
     TypeOK, TasksTyped, Tasks, Job, NoJob, memory
<1>28. ASSUME Resume PROVE CooldownInv'
  BY <1>28, SourcesStep DEF Resume, StartCommand, Goto, CooldownInv, SourcesRight,
     SensorOnOutsideCooldown, CooldownActive, LockDiscipline, InLock,
     TypeOK, TasksTyped, Tasks, Job, NoJob, memory, CanStart, NoCooldown
<1>29. ASSUME ResumeBlocked PROVE CooldownInv'
  BY <1>29, SourcesStep DEF ResumeBlocked, Goto, CooldownInv, SourcesRight,
     SensorOnOutsideCooldown, CooldownActive, LockDiscipline, InLock,
     TypeOK, TasksTyped, Tasks, Job, NoJob, memory
<1>30. ASSUME PersistResume PROVE CooldownInv'
  BY <1>30, SourcesStep DEF PersistResume, Goto, CooldownInv, SourcesRight,
     SensorOnOutsideCooldown, CooldownActive, LockDiscipline, InLock,
     TypeOK, TasksTyped, Tasks, Job, NoJob, memory, Snapshot
<1>31. ASSUME Tick PROVE CooldownInv'
  BY <1>31, SourcesStep DEF Tick, CooldownInv, SourcesRight, SensorOnOutsideCooldown,
     CooldownActive, LockDiscipline, InLock, TypeOK, TasksTyped,
     Tasks, Job, NoJob, memory, Left, MemoryTyped, Rows, NoCooldown
<1>32. ASSUME Crash PROVE CooldownInv'
  BY <1>32, SourcesStep DEF Crash, TasksLost, AllIdle, CooldownInv, SourcesRight,
     SensorOnOutsideCooldown, CooldownActive, LockDiscipline, InLock,
     TypeOK, TasksTyped, Tasks, Job, NoJob, memory, LoadRow
<1>33. ASSUME Shutdown PROVE CooldownInv'
  BY <1>33, SourcesStep DEF Shutdown, TasksLost, AllIdle, CooldownInv, SourcesRight,
     SensorOnOutsideCooldown, CooldownActive, LockDiscipline, InLock,
     TypeOK, TasksTyped, Tasks, Job, NoJob, memory, Snapshot
<1>34. ASSUME ToggleEnabled PROVE CooldownInv'
  BY <1>34, SourcesStep DEF ToggleEnabled, tasks, CooldownInv, SourcesRight,
     SensorOnOutsideCooldown, CooldownActive, LockDiscipline, InLock,
     TypeOK, TasksTyped, Tasks, Job, NoJob, memory
<1>35. CASE UNCHANGED vars
  BY <1>35, SourcesStep DEF CooldownInv, vars, tasks, memory, SensorOnOutsideCooldown,
     CooldownActive
<1>36. ASSUME NEW t \in Tasks, Capture(t) PROVE CooldownInv'
  BY <1>36, SourcesStep DEF Capture, WriteOf, Goto, CooldownInv, SourcesRight,
     SensorOnOutsideCooldown, CooldownActive, TypeOK, TasksTyped, Tasks, Job, NoJob, memory
<1>37. QED
  BY <1>1, <1>2, <1>3, <1>4, <1>5, <1>6, <1>7, <1>8, <1>9, <1>10, <1>11, <1>12, <1>13,
     <1>14, <1>15, <1>16, <1>17, <1>18, <1>19, <1>20, <1>21, <1>22, <1>23, <1>24,
     <1>25, <1>26, <1>27, <1>28, <1>29, <1>30, <1>31, <1>32, <1>33, <1>34, <1>35,
     <1>36 DEF
     Next, SensorStep, OperatorStep, EnforcerStep, CommandStep

LEMMA CooldownInvariant == Spec => []CooldownInv
<1>1. Init => CooldownInv
  BY DEF Init, CooldownInv, SourcesRight, SensorOnOutsideCooldown,
     AllIdle,
         NoJobs, NoJob, Job, DefaultRow, NoCooldown, Tasks
<1>2. QED
  BY <1>1, CooldownStep, TypeCorrect, LockCorrect, PTL DEF Spec

\* No sensor ON is on its way during a cooldown.
THEOREM SensorOnCorrect == Spec => []SensorOnOutsideCooldown
<1>1. CooldownInv => SensorOnOutsideCooldown
  BY DEF CooldownInv
<1>2. QED
  BY <1>1, CooldownInvariant, PTL

-----------------------------------------------------------------------------
(* Usage                                                                   *)


\* Refreshing the window changes nothing in what counts as used.
LEMMA RefreshKeepsUsage ==
  ASSUME MemoryTyped, RefreshWindow \/ CheckRefreshes \/ UNCHANGED <<used, stale>>
  PROVE  UsedNow' = UsedNow
<1>1. RefreshWindow => (stale /\ used' = 0 /\ stale' = FALSE) \/ UNCHANGED <<used, stale>>
  BY DEF RefreshWindow
<1>2. CheckRefreshes => RefreshWindow \/ UNCHANGED <<used, stale>>
  BY DEF CheckRefreshes
<1>3. (stale /\ used' = 0 /\ stale' = FALSE) => UsedNow' = UsedNow
  BY DEF UsedNow
<1>4. UNCHANGED <<used, stale>> => UsedNow' = UsedNow
  BY DEF UsedNow
<1>5. QED
  BY <1>1, <1>2, <1>3, <1>4

\* Ending a run charges it, and only that.
LEMMA EndRunCharges ==
  ASSUME NEW forced, EndRun(forced)
  PROVE  UsedNow' = AtMost(UsedNow + runtime, Budget) /\ ~is_running'
<1>1. ~stale' /\ ~is_running' /\ used' = AtMost(UsedNow + runtime, Budget)
  BY DEF EndRun, ChargeRun
<1>2. QED
  BY <1>1 DEF UsedNow

\* Every step charges what it must, and no more.
LEMMA ChargeStep == TypeOK /\ [Next]_vars => ChargedOnce
<1> SUFFICES ASSUME TypeOK, [Next]_vars PROVE ChargedOnce
  OBVIOUS
<1>1. ASSUME NEW s \in Sensors, NEW c \in Commands, SensorRequest(s, c) PROVE ChargedOnce
  BY <1>1 DEF SensorRequest, ChargedOnce, UsedNow, memory
<1>2. ASSUME NEW s \in Sensors, SensorRefused(s) PROVE ChargedOnce
  BY <1>2 DEF SensorRefused, ChargedOnce, UsedNow, memory
<1>3. ASSUME NEW s \in Sensors, SensorOn(s) PROVE ChargedOnce
  BY <1>3 DEF SensorOn, ChargedOnce, UsedNow, memory
<1>4. ASSUME NEW s \in Sensors, SensorOff(s) PROVE ChargedOnce
  BY <1>4 DEF SensorOff, ChargedOnce, UsedNow, memory
<1>5. ASSUME NEW t \in Sensors \cup {Enforcer}, GateOpen(t) PROVE ChargedOnce
  BY <1>5 DEF GateOpen, ChargedOnce, UsedNow, memory
<1>6. ASSUME NEW s \in Sensors, SensorGateClosed(s) PROVE ChargedOnce
  BY <1>6 DEF SensorGateClosed, ChargedOnce, UsedNow, memory
<1>7. ASSUME NEW s \in Sensors, SensorAdmitted(s) PROVE ChargedOnce
  BY <1>7, RefreshKeepsUsage DEF SensorAdmitted, ChargedOnce, TypeOK
<1>8. ASSUME NEW s \in Sensors, SensorBlocked(s) PROVE ChargedOnce
  BY <1>8, RefreshKeepsUsage DEF SensorBlocked, ChargedOnce, TypeOK
<1>9. ASSUME NEW o \in Operators, NEW tgt \in OperatorTargets, OperatorOn(o, tgt[1], tgt[2])
       PROVE  ChargedOnce
  BY <1>9, RefreshKeepsUsage DEF OperatorOn, ChargedOnce, TypeOK
<1>10. ASSUME NEW o \in Operators, OperatorBlocked(o) PROVE ChargedOnce
  BY <1>10, RefreshKeepsUsage DEF OperatorBlocked, ChargedOnce, TypeOK
<1>11. ASSUME NEW o \in Operators, NEW tgt \in OperatorTargets, OperatorOff(o, tgt[1], tgt[2])
       PROVE  ChargedOnce
  BY <1>11 DEF OperatorOff, ChargedOnce, UsedNow, memory
<1>12. ASSUME NEW o \in Operators, SetGate(o) PROVE ChargedOnce
  BY <1>12 DEF SetGate, ChargedOnce, UsedNow, memory
<1>13. ASSUME NEW t \in Tasks, NEW d \in todo[t], DeviceObeys(t, d) PROVE ChargedOnce
  BY <1>13 DEF DeviceObeys, ChargedOnce, UsedNow, memory
<1>14. ASSUME NEW t \in Tasks, NEW d \in todo[t], DeviceFails(t, d) PROVE ChargedOnce
  BY <1>14 DEF DeviceFails, ChargedOnce, UsedNow, memory
<1>15. ASSUME NEW t \in Tasks, CommandFailed(t) PROVE ChargedOnce
  BY <1>15 DEF CommandFailed, ChargedOnce, UsedNow, memory
<1>16. ASSUME NEW t \in Tasks, CommandSent(t) PROVE ChargedOnce
  BY <1>16 DEF CommandSent, ChargedOnce, UsedNow, memory
<1>17. ASSUME NEW t \in Tasks, NotifyStarted(t) PROVE ChargedOnce
  BY <1>17 DEF NotifyStarted, ChargedOnce, UsedNow, memory
<1>18. ASSUME NEW t \in Tasks, NotifyStopped(t) PROVE ChargedOnce
  BY <1>18, EndRunCharges DEF NotifyStopped, ChargedOnce
<1>19. ASSUME NEW t \in Tasks, NotifyStoppedNothing(t) PROVE ChargedOnce
  BY <1>19 DEF NotifyStoppedNothing, ChargedOnce, UsedNow, memory
<1>20. ASSUME NEW t \in Tasks, Persist(t) PROVE ChargedOnce
  BY <1>20 DEF Persist, ChargedOnce, UsedNow, memory
<1>21. ASSUME CheckRuntimes PROVE ChargedOnce
  BY <1>21, RefreshKeepsUsage DEF CheckRuntimes, ChargedOnce, TypeOK
<1>22. ASSUME ForceStop PROVE ChargedOnce
  BY <1>22, EndRunCharges DEF ForceStop, ChargedOnce
<1>23. ASSUME ForceStopMoot PROVE ChargedOnce
  BY <1>23 DEF ForceStopMoot, ChargedOnce, UsedNow, memory
<1>24. ASSUME PersistForceStop PROVE ChargedOnce
  BY <1>24 DEF PersistForceStop, ChargedOnce, UsedNow, memory
<1>25. ASSUME CheckCooldown PROVE ChargedOnce
  BY <1>25 DEF CheckCooldown, ChargedOnce, UsedNow, memory
<1>26. ASSUME ClearCooldown PROVE ChargedOnce
  BY <1>26 DEF ClearCooldown, ChargedOnce, UsedNow, memory
<1>27. ASSUME ResumeGateClosed PROVE ChargedOnce
  BY <1>27 DEF ResumeGateClosed, ChargedOnce, UsedNow, memory
<1>28. ASSUME Resume PROVE ChargedOnce
  BY <1>28, RefreshKeepsUsage DEF Resume, ChargedOnce, TypeOK
<1>29. ASSUME ResumeBlocked PROVE ChargedOnce
  BY <1>29, RefreshKeepsUsage DEF ResumeBlocked, ChargedOnce, TypeOK
<1>30. ASSUME PersistResume PROVE ChargedOnce
  BY <1>30 DEF PersistResume, ChargedOnce, UsedNow, memory
<1>31. ASSUME Tick PROVE ChargedOnce
  BY <1>31 DEF Tick, ChargedOnce, TypeOK, WorldTyped
<1>32. ASSUME Crash PROVE ChargedOnce
  BY <1>32 DEF Crash, ChargedOnce, Restarted, TypeOK, BoundsTyped
<1>33. ASSUME Shutdown PROVE ChargedOnce
  BY <1>33 DEF Shutdown, ChargedOnce, Restarted, TypeOK, BoundsTyped
<1>34. ASSUME ToggleEnabled PROVE ChargedOnce
  BY <1>34 DEF ToggleEnabled, ChargedOnce, UsedNow, memory
<1>35. CASE UNCHANGED vars
  BY <1>35 DEF vars, memory, ChargedOnce, UsedNow
<1>36. ASSUME NEW t \in Tasks, Capture(t) PROVE ChargedOnce
  BY <1>36 DEF Capture, ChargedOnce, UsedNow, memory
<1>37. QED
  BY <1>1, <1>2, <1>3, <1>4, <1>5, <1>6, <1>7, <1>8, <1>9, <1>10, <1>11, <1>12, <1>13,
     <1>14, <1>15, <1>16, <1>17, <1>18, <1>19, <1>20, <1>21, <1>22, <1>23, <1>24,
     <1>25, <1>26, <1>27, <1>28, <1>29, <1>30, <1>31, <1>32, <1>33, <1>34, <1>35, <1>36
  DEF Next, SensorStep, OperatorStep, EnforcerStep, CommandStep

\* Ending a run charges it once; nothing else changes what counts as used.
THEOREM ChargedOnceCorrect == Spec => RunsChargedOnce
BY ChargeStep, TypeCorrect, PTL DEF Spec, RunsChargedOnce

-----------------------------------------------------------------------------
(* The ledger                                                              *)

\* What a row may miss of an artwork that runs or not, since age, with use charged and
\* cool to go: a run that it knows of has at least the time that was charged, or will have
\* to be charged, since the row was taken.
Fits(row, run, age, use, cool) ==
  /\ row.is_running \/ row.runtime = 0
  /\ UsageIn(row) <= use
  /\ CoolingOf(row.cooldown) <= cool
  /\ row.is_running =>
       /\ run => age <= row.runtime
       /\ AtMost(use + age, Budget) <= AtMost(UsageIn(row) + row.runtime, Budget)

\* A row that misses nothing but, it may be, the beginning of the run.
Holds(row, run, age, use, cool) ==
  /\ UsageIn(row) = use
  /\ CoolingOf(row.cooldown) = cool
  /\ row.is_running => run /\ row.runtime = age

\* The row of the database, or the one that task w is writing.
CopyOf(d, wr, w) == IF w = NoTask THEN d ELSE wr[w]

\* Every copy fits, and those not outdated hold everything: ws are the tasks that write.
BooksRight(d, wr, out, ws, run, age, use, cool) ==
  /\ run \/ age = 0
  /\ \A w \in Tasks \cup {NoTask} : Fits(CopyOf(d, wr, w), run, age, use, cool)
  /\ \A w \in (ws \cup {NoTask}) \ out : Holds(CopyOf(d, wr, w), run, age, use, cool)
  /\ out \subseteq ws \cup {NoTask}

\* The inductive invariant of the ledger.
LedgerInv ==
  /\ BooksRight(db, writing, outdated, Writers, is_running, runtime, UsedNow,
                CoolingOf(cooldown))
  /\ pc[Enforcer] = "want_resume" => cooldown <= 0

\* The numbers in a row.
LEMMA RowTyped ==
  ASSUME NEW row \in Rows
  PROVE  /\ UsageIn(row) \in 0..Budget
         /\ CoolingOf(row.cooldown) \in 0..Cooldown
         /\ row.runtime \in 0..AgeCap
         /\ row.cooldown \in NoCooldown..Cooldown
<1>1. /\ row.used \in 0..Budget /\ row.cooldown \in NoCooldown..Cooldown
      /\ row.runtime \in 0..AgeCap
  BY DEF Rows
<1>2. QED
  BY <1>1 DEF UsageIn, CoolingOf, NoCooldown

\* A run ends: what a row fits before it fits after.
LEMMA RowEnds ==
  ASSUME NEW row \in Rows, NEW age \in Nat, NEW use \in Nat, NEW cool \in Nat, NEW more \in Nat,
         Fits(row, TRUE, age, use, cool), use <= Budget, more = cool \/ more = Cooldown
  PROVE  Fits(row, FALSE, 0, AtMost(use + age, Budget), more)
<1>1. CoolingOf(row.cooldown) <= more
  BY RowTyped DEF Fits
<1>2. /\ UsageIn(row) <= AtMost(use + age, Budget)
      /\ AtMost(AtMost(use + age, Budget) + 0, Budget) = AtMost(use + age, Budget)
  BY RowTyped DEF Fits, AtMost
<1>3. QED
  BY <1>1, <1>2 DEF Fits

\* A run begins.
LEMMA RowBegins ==
  ASSUME NEW row \in Rows, NEW use \in Nat, NEW cool \in Nat
  PROVE  /\ Fits(row, FALSE, 0, use, cool) => Fits(row, TRUE, 0, use, cool)
         /\ Holds(row, FALSE, 0, use, cool) => Holds(row, TRUE, 0, use, cool)
BY RowTyped DEF Fits, Holds

\* What memory holds now.
LEMMA RowTaken ==
  ASSUME MemoryTyped, is_running \/ runtime = 0
  PROVE  /\ Fits(Snapshot, is_running, runtime, UsedNow, CoolingOf(cooldown))
         /\ Holds(Snapshot, is_running, runtime, UsedNow, CoolingOf(cooldown))
<1>1. /\ Snapshot.is_running = is_running /\ Snapshot.runtime = runtime
      /\ Snapshot.cooldown = cooldown /\ UsageIn(Snapshot) = UsedNow
  BY DEF Snapshot, UsageIn, UsedNow
<1>2. UsageIn(Snapshot) \in Nat /\ CoolingOf(Snapshot.cooldown) \in Nat /\ runtime \in Nat
  BY SnapshotTyped, RowTyped DEF MemoryTyped
<1>3. AtMost(UsedNow + runtime, Budget) \in 0..Budget
  <2>1. UsedNow + runtime \in Nat
    BY <1>1, <1>2
  <2>2. QED
    BY <2>1, AtMostBounded
<1>4. QED
  BY <1>1, <1>2, <1>3 DEF Fits, Holds

\* A row that nobody writes.
LEMMA RowBlank ==
  ASSUME NEW run, NEW age \in Nat, NEW use \in Nat, NEW cool \in Nat
  PROVE  Fits(DefaultRow, run, age, use, cool)
BY DEF Fits, DefaultRow, UsageIn, CoolingOf, NoCooldown

\* A row that is loaded is all there is.
LEMMA RowLoaded ==
  ASSUME NEW row \in Rows, row.is_running \/ row.runtime = 0
  PROVE  /\ Fits(row, row.is_running, row.runtime, UsageIn(row), CoolingOf(row.cooldown))
         /\ Holds(row, row.is_running, row.runtime, UsageIn(row), CoolingOf(row.cooldown))
<1>1. AtMost(UsageIn(row) + row.runtime, Budget) \in 0..Budget
  <2>1. UsageIn(row) + row.runtime \in Nat
    BY RowTyped
  <2>2. QED
    BY <2>1, AtMostBounded
<1>2. QED
  BY <1>1, RowTyped DEF Fits, Holds

\* A run that gets older stays covered.
LEMMA CoversLonger ==
  ASSUME NEW u \in 0..Budget, NEW w \in 0..Budget, NEW r \in 0..AgeCap, NEW a \in 0..AgeCap,
         r <= a, AtMost(u + r, Budget) <= AtMost(w + a, Budget)
  PROVE  /\ Older(r) <= Older(a)
         /\ AtMost(u + Older(r), Budget) <= AtMost(w + Older(a), Budget)
         /\ AtMost(u + r, Budget) <= AtMost(w + Older(a), Budget)
         /\ AtMost(0 + Older(r), Budget) <= AtMost(0 + Older(a), Budget)
         /\ AtMost(0 + 0, Budget) <= AtMost(0 + Older(a), Budget)
BY DEF Older, AtMost

\* What a row becomes as time passes.
LEMMA RowOlder ==
  ASSUME NEW row \in Rows, NEW rollover \in BOOLEAN
  PROVE  /\ Aged(row, rollover).is_running = row.is_running
         /\ Aged(row, rollover).runtime = IF row.is_running THEN Older(row.runtime) ELSE 0
         /\ UsageIn(Aged(row, rollover)) = IF rollover THEN 0 ELSE UsageIn(row)
         /\ CoolingOf(Aged(row, rollover).cooldown) = Left(CoolingOf(row.cooldown))
<1>1. /\ Aged(row, rollover).is_running = row.is_running
      /\ Aged(row, rollover).runtime = IF row.is_running THEN Older(row.runtime) ELSE 0
      /\ Aged(row, rollover).used = row.used
      /\ Aged(row, rollover).cooldown = Left(row.cooldown)
      /\ Aged(row, rollover).stale = (row.stale \/ (rollover /\ row.used > 0))
  BY DEF Aged, Rows
<1>2. UsageIn(Aged(row, rollover)) = IF rollover THEN 0 ELSE UsageIn(row)
  <2>1. row.used \in 0..Budget
    BY DEF Rows
  <2>2. CASE rollover
    <3>1. row.used > 0 => Aged(row, rollover).stale
      BY <1>1, <2>2
    <3>2. row.used > 0 \/ row.used = 0
      BY <2>1
    <3>3. QED
      BY <1>1, <2>2, <3>1, <3>2 DEF UsageIn
  <2>3. CASE ~rollover
    <3>1. Aged(row, rollover).stale <=> row.stale
      BY <1>1, <2>3
    <3>2. QED
      BY <1>1, <2>3, <3>1 DEF UsageIn
  <2>4. QED
    BY <2>2, <2>3
<1>3. CoolingOf(Left(row.cooldown)) = Left(CoolingOf(row.cooldown))
  BY RowTyped DEF CoolingOf, Left, NoCooldown
<1>4. QED
  BY <1>1, <1>2, <1>3

\* Time passes for a row as for the artwork.
LEMMA RowAges ==
  ASSUME NEW row \in Rows, NEW rollover \in BOOLEAN, NEW run \in BOOLEAN,
         NEW age \in 0..AgeCap, NEW use \in 0..Budget, NEW cool \in 0..Cooldown,
         run \/ age = 0,
         NEW older, older = IF run THEN Older(age) ELSE 0,
         NEW left, left = IF rollover THEN 0 ELSE use
  PROVE  /\ Fits(row, run, age, use, cool)
              => Fits(Aged(row, rollover), run, older, left, Left(cool))
         /\ Holds(row, run, age, use, cool)
              => Holds(Aged(row, rollover), run, older, left, Left(cool))
<1>1. ASSUME Fits(row, run, age, use, cool)
      PROVE  Fits(Aged(row, rollover), run, older, left, Left(cool))
  <2>1. /\ Aged(row, rollover).is_running \/ Aged(row, rollover).runtime = 0
        /\ UsageIn(Aged(row, rollover)) <= left
    BY <1>1, RowOlder, RowTyped DEF Fits
  <2>2. Left(CoolingOf(row.cooldown)) <= Left(cool)
    BY <1>1, RowTyped DEF Fits, Left
  <2>3. ASSUME row.is_running
        PROVE  /\ run => older <= Older(row.runtime)
               /\ AtMost(left + older, Budget)
                    <= AtMost((IF rollover THEN 0 ELSE UsageIn(row)) + Older(row.runtime), Budget)
    <3>1. /\ age <= row.runtime
          /\ AtMost(use + age, Budget) <= AtMost(UsageIn(row) + row.runtime, Budget)
      BY <1>1, <2>3, RowTyped DEF Fits
    <3>2. /\ Older(age) <= Older(row.runtime)
          /\ AtMost(use + Older(age), Budget) <= AtMost(UsageIn(row) + Older(row.runtime), Budget)
          /\ AtMost(use + age, Budget) <= AtMost(UsageIn(row) + Older(row.runtime), Budget)
          /\ AtMost(0 + Older(age), Budget) <= AtMost(0 + Older(row.runtime), Budget)
          /\ AtMost(0 + 0, Budget) <= AtMost(0 + Older(row.runtime), Budget)
      BY <3>1, RowTyped, CoversLonger
    <3>3. CASE run /\ rollover  BY <3>2, <3>3
    <3>4. CASE run /\ ~rollover  BY <3>2, <3>4
    <3>5. CASE ~run /\ rollover  BY <3>2, <3>5
    <3>6. CASE ~run /\ ~rollover  BY <3>2, <3>6
    <3>7. QED  BY <3>3, <3>4, <3>5, <3>6
  <2>4. QED
    BY <2>1, <2>2, <2>3, RowOlder DEF Fits
<1>2. ASSUME Holds(row, run, age, use, cool)
      PROVE  Holds(Aged(row, rollover), run, older, left, Left(cool))
  BY <1>2, RowOlder DEF Holds
<1>3. QED
  BY <1>1, <1>2

\* The copies are rows.
LEMMA CopyTyped ==
  ASSUME NEW d \in Rows, NEW wr \in [Tasks -> Rows], NEW w \in Tasks \cup {NoTask}
  PROVE  CopyOf(d, wr, w) \in Rows
BY DEF CopyOf

\* A run ends: every copy is outdated.
LEMMA BooksEnd ==
  ASSUME NEW d \in Rows, NEW wr \in [Tasks -> Rows], NEW out, NEW ws,
         NEW age \in Nat, NEW use \in Nat, NEW cool \in Nat, NEW more \in Nat,
         BooksRight(d, wr, out, ws, TRUE, age, use, cool),
         use <= Budget, more = cool \/ more = Cooldown
  PROVE  BooksRight(d, wr, ws \cup {NoTask}, ws, FALSE, 0, AtMost(use + age, Budget), more)
<1>1. ASSUME NEW w \in Tasks \cup {NoTask}
      PROVE  Fits(CopyOf(d, wr, w), FALSE, 0, AtMost(use + age, Budget), more)
  BY CopyTyped, RowEnds DEF BooksRight
<1>2. QED
  BY <1>1 DEF BooksRight

\* A run begins: no copy becomes worse.
LEMMA BooksBegin ==
  ASSUME NEW d \in Rows, NEW wr \in [Tasks -> Rows], NEW out, NEW ws \in SUBSET Tasks,
         NEW use \in Nat, NEW cool \in Nat,
         BooksRight(d, wr, out, ws, FALSE, 0, use, cool)
  PROVE  BooksRight(d, wr, out, ws, TRUE, 0, use, cool)
<1>1. ASSUME NEW w \in Tasks \cup {NoTask}
      PROVE  /\ Fits(CopyOf(d, wr, w), TRUE, 0, use, cool)
             /\ Holds(CopyOf(d, wr, w), FALSE, 0, use, cool)
                  => Holds(CopyOf(d, wr, w), TRUE, 0, use, cool)
  BY CopyTyped, RowBegins DEF BooksRight
<1>2. QED
  BY <1>1 DEF BooksRight

\* Time passes: for every copy alike.
LEMMA BooksTick ==
  ASSUME NEW d \in Rows, NEW wr \in [Tasks -> Rows], NEW out, NEW ws \in SUBSET Tasks,
         NEW rollover \in BOOLEAN, NEW run \in BOOLEAN, NEW age \in 0..AgeCap,
         NEW use \in 0..Budget, NEW cool \in 0..Cooldown,
         NEW older, older = IF run THEN Older(age) ELSE 0,
         NEW left, left = IF rollover THEN 0 ELSE use,
         BooksRight(d, wr, out, ws, run, age, use, cool)
  PROVE  BooksRight(Aged(d, rollover), [t \in Tasks |-> Aged(wr[t], rollover)], out, ws,
                    run, older, left, Left(cool))
<1> DEFINE wr2 == [t \in Tasks |-> Aged(wr[t], rollover)]
<1>1. ASSUME NEW w \in Tasks \cup {NoTask}
      PROVE  CopyOf(Aged(d, rollover), wr2, w) = Aged(CopyOf(d, wr, w), rollover)
  BY DEF CopyOf
<1>2. ASSUME NEW w \in Tasks \cup {NoTask}
      PROVE  /\ Fits(CopyOf(Aged(d, rollover), wr2, w), run, older, left, Left(cool))
             /\ Holds(CopyOf(d, wr, w), run, age, use, cool)
                  => Holds(CopyOf(Aged(d, rollover), wr2, w), run, older, left, Left(cool))
  <2>1. CopyOf(d, wr, w) \in Rows /\ (run \/ age = 0)
    BY CopyTyped DEF BooksRight
  <2>2. Fits(CopyOf(d, wr, w), run, age, use, cool)
    BY DEF BooksRight
  <2>3. QED
    BY <1>1, <2>1, <2>2, RowAges
<1>3. run \/ older = 0
  OBVIOUS
<1> HIDE DEF wr2
<1>4. BooksRight(Aged(d, rollover), wr2, out, ws, run, older, left, Left(cool))
  BY <1>2, <1>3 DEF BooksRight
<1>5. QED
  BY <1>4 DEF wr2

\* A task takes the values it will write.
LEMMA BooksCapture ==
  ASSUME NEW d \in Rows, NEW wr \in [Tasks -> Rows], NEW out, NEW ws \in SUBSET Tasks,
         NEW run, NEW age, NEW use, NEW cool,
         BooksRight(d, wr, out, ws, run, age, use, cool),
         NEW t \in Tasks, t \notin ws, NEW row,
         Fits(row, run, age, use, cool), Holds(row, run, age, use, cool)
  PROVE  BooksRight(d, [wr EXCEPT ![t] = row], out, ws \cup {t}, run, age, use, cool)
<1> DEFINE wr2 == [wr EXCEPT ![t] = row]
<1>1. ASSUME NEW w \in Tasks \cup {NoTask}
      PROVE  CopyOf(d, wr2, w) = IF w = t THEN row ELSE CopyOf(d, wr, w)
  BY DEF CopyOf
<1> HIDE DEF wr2
<1>2. BooksRight(d, wr2, out, ws \cup {t}, run, age, use, cool)
  BY <1>1 DEF BooksRight
<1>3. QED
  BY <1>2 DEF wr2

\* A write is committed, or is lost.
LEMMA BooksSettle ==
  ASSUME NEW d \in Rows, NEW wr \in [Tasks -> Rows], NEW out, NEW ws \in SUBSET Tasks,
         NEW run, NEW age \in Nat, NEW use \in Nat, NEW cool \in Nat,
         BooksRight(d, wr, out, ws, run, age, use, cool),
         NEW t \in ws, NEW kept \in BOOLEAN,
         NEW d2, d2 = (IF kept THEN wr[t] ELSE d),
         NEW out2, out2 = (IF kept THEN IF t \in out THEN (out \ {t}) \cup {NoTask}
                                                    ELSE out \ {NoTask}
                                   ELSE out \ {t})
  PROVE  BooksRight(d2, [wr EXCEPT ![t] = DefaultRow], out2, ws \ {t}, run, age, use, cool)
<1> DEFINE wr2 == [wr EXCEPT ![t] = DefaultRow]
<1>0. t \in Tasks /\ t # NoTask
  OBVIOUS
<1>1. ASSUME NEW w \in Tasks \cup {NoTask}
      PROVE  CopyOf(d2, wr2, w) = IF w = t THEN DefaultRow
                                  ELSE IF w = NoTask /\ kept THEN CopyOf(d, wr, t)
                                  ELSE CopyOf(d, wr, w)
  BY <1>0 DEF CopyOf
<1> HIDE DEF wr2
<1>2. \A w \in Tasks \cup {NoTask} : Fits(CopyOf(d2, wr2, w), run, age, use, cool)
  BY <1>0, <1>1, RowBlank DEF BooksRight
<1>3. ASSUME NEW w \in ((ws \ {t}) \cup {NoTask}) \ out2
      PROVE  Holds(CopyOf(d2, wr2, w), run, age, use, cool)
  <2>1. CASE w = NoTask /\ kept
    <3>1. t \notin out
      BY <2>1
    <3>2. QED
      BY <1>0, <1>1, <2>1, <3>1 DEF BooksRight
  <2>2. CASE w = NoTask /\ ~kept
    BY <1>0, <1>1, <2>2 DEF BooksRight
  <2>3. CASE w # NoTask
    BY <1>0, <1>1, <2>3 DEF BooksRight
  <2>4. QED
    BY <2>1, <2>2, <2>3
<1>4. out2 \subseteq (ws \ {t}) \cup {NoTask}
  BY <1>0 DEF BooksRight
<1>5. BooksRight(d2, wr2, out2, ws \ {t}, run, age, use, cool)
  BY <1>2, <1>3, <1>4 DEF BooksRight
<1>6. QED
  BY <1>5 DEF wr2

\* After a restart nobody writes.
LEMMA BooksRestart ==
  ASSUME NEW d, NEW run, NEW age \in Nat, NEW use \in Nat, NEW cool \in Nat,
         run \/ age = 0, Fits(d, run, age, use, cool), Holds(d, run, age, use, cool)
  PROVE  BooksRight(d, NoWrites, {}, {}, run, age, use, cool)
<1>1. ASSUME NEW w \in Tasks \cup {NoTask}
      PROVE  CopyOf(d, NoWrites, w) = IF w = NoTask THEN d ELSE DefaultRow
  BY DEF CopyOf, NoWrites
<1>2. QED
  BY <1>1, RowBlank DEF BooksRight

\* The types of what the ledger keeps.
LEMMA LedgerTyped ==
  ASSUME TypeOK
  PROVE  /\ UsedNow \in 0..Budget
         /\ runtime \in 0..AgeCap
         /\ cooldown \in NoCooldown..Cooldown
         /\ CoolingOf(cooldown) \in 0..Cooldown
         /\ is_running \in BOOLEAN
         /\ phase \in 0..(Window - 1)
         /\ db \in Rows /\ writing \in [Tasks -> Rows] /\ Writers \in SUBSET Tasks
<1>1. /\ used \in 0..Budget /\ runtime \in 0..AgeCap /\ cooldown \in NoCooldown..Cooldown
      /\ is_running \in BOOLEAN /\ phase \in 0..(Window - 1)
      /\ db \in Rows /\ writing \in [Tasks -> Rows]
  BY DEF TypeOK, MemoryTyped, WorldTyped, StoreTyped
<1>2. UsedNow \in 0..Budget
  BY <1>1 DEF UsedNow
<1>3. CoolingOf(cooldown) \in 0..Cooldown
  BY <1>1 DEF CoolingOf, NoCooldown
<1>4. Writers \in SUBSET Tasks
  BY DEF Writers
<1>5. QED
  BY <1>1, <1>2, <1>3, <1>4

\* The steps that are none of the ledger's.
Quietly ==
  /\ UNCHANGED <<is_running, runtime, db, writing, outdated, phase>>
  /\ UsedNow' = UsedNow
  /\ UNCHANGED cooldown \/ (cooldown <= 0 /\ cooldown' <= 0)
  /\ Writers' = Writers
  /\ pc'[Enforcer] = "want_resume" => cooldown' <= 0

\* What every step is to the ledger: one of its steps, or none.
LedgerKept == LedgerInv' /\ (Ledger!Next \/ UNCHANGED Ledger!lvars)

LEMMA QuietIsKept ==
  ASSUME TypeOK, TypeOK', LedgerInv, Quietly
  PROVE  LedgerKept
<1>1. CoolingOf(cooldown)' = CoolingOf(cooldown)
  <2>1. cooldown \in Int /\ cooldown' \in Int
    BY DEF TypeOK, MemoryTyped, NoCooldown
  <2>2. QED
    BY <2>1 DEF Quietly, CoolingOf
<1>2. LedgerInv'
  BY <1>1 DEF Quietly, LedgerInv
<1>3. UNCHANGED Ledger!lvars
  BY <1>1 DEF Quietly, Ledger!lvars, Unsaved
<1>4. QED
  BY <1>2, <1>3 DEF LedgerKept

\* The tasks that write are the same when one goes on that neither comes from a write nor
\* to one,
LEMMA MovesWriters ==
  ASSUME TypeOK, NEW t \in Tasks, NEW label, Goto(t, label)
  PROVE  /\ pc[t] \notin WritePC /\ label \notin WritePC => Writers' = Writers
         /\ label \in WritePC => Writers' = Writers \cup {t}
         /\ label \notin WritePC => Writers' = Writers \ {t}
         /\ pc'[t] = label /\ \A u \in Tasks \ {t} : pc'[u] = pc[u]
         /\ label # "want_resume" /\ pc'[Enforcer] = "want_resume"
              => pc[Enforcer] = "want_resume"
<1>1. pc'[t] = label /\ \A u \in Tasks \ {t} : pc'[u] = pc[u]
  BY DEF Goto, TypeOK, TasksTyped
<1>2. Enforcer \in Tasks
  BY DEF Tasks
<1>3. QED
  BY <1>1, <1>2 DEF Writers

\* and such a step does nothing to the ledger.
LEMMA MovesAreKept ==
  ASSUME TypeOK, TypeOK', LedgerInv, NEW t \in Tasks, NEW label, Goto(t, label),
         pc[t] \notin WritePC, label \notin WritePC \cup {"want_resume"},
         UNCHANGED <<is_running, runtime, cooldown, db, writing, outdated, phase>>,
         UsedNow' = UsedNow
  PROVE  LedgerKept
<1>1. Writers' = Writers /\ (pc'[Enforcer] = "want_resume" => pc[Enforcer] = "want_resume")
  BY MovesWriters
<1>2. Quietly
  BY <1>1 DEF Quietly, LedgerInv
<1>3. QED
  BY <1>2, QuietIsKept

\* Where a task goes when its command ends.
LEMMA EndCommandMoves ==
  ASSUME NEW t \in Tasks, EndCommand(t)
  PROVE  \E label \in {"idle", "cooldowns", "persist_resume"} :
           Goto(t, label) /\ label \notin WritePC \cup {"want_resume"}
BY DEF EndCommand, WritePC

\* A task begins to send,
LEMMA StartsAreKept ==
  ASSUME TypeOK, TypeOK', LedgerInv, NEW t \in Tasks, NEW j, NEW ds, StartCommand(t, j, ds),
         pc[t] \notin WritePC,
         UNCHANGED <<is_running, runtime, cooldown, db, writing, outdated, phase>>,
         UsedNow' = UsedNow
  PROVE  LedgerKept
<1>1. Goto(t, "send") /\ "send" \notin WritePC \cup {"want_resume"}
  BY DEF StartCommand, WritePC
<1>2. QED
  BY <1>1, MovesAreKept

\* ends its command,
LEMMA EndsAreKept ==
  ASSUME TypeOK, TypeOK', LedgerInv, NEW t \in Tasks, EndCommand(t), pc[t] \notin WritePC,
         UNCHANGED <<is_running, runtime, cooldown, db, writing, outdated, phase>>,
         UsedNow' = UsedNow
  PROVE  LedgerKept
<1>1. PICK label \in {"idle", "cooldowns", "persist_resume"} :
        Goto(t, label) /\ label \notin WritePC \cup {"want_resume"}
  BY EndCommandMoves
<1>2. QED
  BY <1>1, MovesAreKept

\* or stays where it is.
LEMMA StaysAreKept ==
  ASSUME TypeOK, TypeOK', LedgerInv,
         UNCHANGED <<is_running, runtime, cooldown, db, writing, outdated, phase, pc>>,
         UsedNow' = UsedNow
  PROVE  LedgerKept
<1>1. Writers' = Writers
  BY DEF Writers
<1>2. Quietly
  BY <1>1 DEF Quietly, LedgerInv
<1>3. QED
  BY <1>2, QuietIsKept

\* A run begins.
LEMMA BeginsLedger ==
  ASSUME TypeOK, LedgerInv, NEW t \in Tasks, NEW label, Goto(t, label),
         pc[t] \notin WritePC, label \notin WritePC \cup {"want_resume"},
         ~is_running, is_running' = TRUE, runtime' = 0,
         UNCHANGED <<cooldown, used, stale, db, writing, outdated, phase>>
  PROVE  LedgerInv' /\ Ledger!Begin
<1>1. UsedNow' = UsedNow /\ CoolingOf(cooldown)' = CoolingOf(cooldown)
  BY DEF UsedNow, CoolingOf
<1>2. Writers' = Writers /\ (pc'[Enforcer] = "want_resume" => pc[Enforcer] = "want_resume")
  BY MovesWriters
<1>3. runtime = 0 /\ is_running = FALSE
  BY LedgerTyped DEF LedgerInv, BooksRight
<1>4. BooksRight(db, writing, outdated, Writers, TRUE, 0, UsedNow, CoolingOf(cooldown))
  <2>1. BooksRight(db, writing, outdated, Writers, FALSE, 0, UsedNow, CoolingOf(cooldown))
    BY <1>3 DEF LedgerInv
  <2>2. UsedNow \in Nat /\ CoolingOf(cooldown) \in Nat
    BY LedgerTyped
  <2>3. QED
    BY <2>1, <2>2, LedgerTyped, BooksBegin
<1>5. LedgerInv'
  BY <1>1, <1>2, <1>4 DEF LedgerInv
<1>6. Unsaved' = Unsaved
  BY DEF Unsaved
<1>7. QED
  BY <1>1, <1>5, <1>6 DEF Ledger!Begin

\* A run ends, and its end is not written yet.
LEMMA EndsLedger ==
  ASSUME TypeOK, LedgerInv, NEW forced \in BOOLEAN, EndRun(forced), is_running,
         UNCHANGED phase, NEW t \in Tasks, NEW label, Goto(t, label),
         pc[t] \notin WritePC, label \notin WritePC \cup {"want_resume"},
         pc'[Enforcer] = "want_resume" => ~forced
  PROVE  LedgerInv' /\ Ledger!End
<1>1. /\ UsedNow' = AtMost(UsedNow + runtime, Budget)
      /\ is_running' = FALSE /\ runtime' = 0
      /\ cooldown' = IF forced /\ Cooldown > 0 THEN Cooldown ELSE cooldown
      /\ db' = db /\ writing' = writing /\ outdated' = Writers \cup {NoTask}
  BY EndRunCharges DEF EndRun
<1>2. Writers' = Writers /\ (pc'[Enforcer] = "want_resume" => pc[Enforcer] = "want_resume")
  BY MovesWriters
<1>3. CoolingOf(cooldown)' = CoolingOf(cooldown) \/ CoolingOf(cooldown)' = Cooldown
  BY <1>1, LedgerTyped DEF CoolingOf
<1>4. is_running = TRUE
  BY LedgerTyped
<1>5. BooksRight(db, writing, Writers \cup {NoTask}, Writers, FALSE, 0,
                 AtMost(UsedNow + runtime, Budget), CoolingOf(cooldown)')
  <2>1. BooksRight(db, writing, outdated, Writers, TRUE, runtime, UsedNow, CoolingOf(cooldown))
    BY <1>4 DEF LedgerInv
  <2>2. /\ runtime \in Nat /\ UsedNow \in Nat /\ UsedNow <= Budget
        /\ CoolingOf(cooldown) \in Nat /\ CoolingOf(cooldown)' \in Nat
    BY <1>3, LedgerTyped
  <2>3. QED
    BY <1>3, <2>1, <2>2, LedgerTyped, BooksEnd
<1>6. pc'[Enforcer] = "want_resume" => cooldown' <= 0
  BY <1>1, <1>2 DEF LedgerInv
<1>7. LedgerInv'
  BY <1>1, <1>2, <1>5, <1>6 DEF LedgerInv
<1>8. Unsaved' = TRUE
  BY <1>1 DEF Unsaved
<1>9. Ledger!End
  BY <1>1, <1>3, <1>8 DEF Ledger!End, Ledger!Capped, AtMost
<1>10. QED
  BY <1>7, <1>9

\* A task takes the values it will write.
LEMMA CapturesLedger ==
  ASSUME TypeOK, TypeOK', LedgerInv, NEW t \in Tasks, Capture(t)
  PROVE  LedgerKept
<1>1. /\ Goto(t, WriteOf(pc[t])) /\ WriteOf(pc[t]) \in WritePC /\ pc[t] \notin WritePC
      /\ WriteOf(pc[t]) # "want_resume"
      /\ writing' = [writing EXCEPT ![t] = Snapshot]
      /\ UNCHANGED <<is_running, runtime, cooldown, used, stale, db, outdated, phase>>
  BY DEF Capture, WriteOf, WritePC, memory, world
<1>2. UsedNow' = UsedNow /\ CoolingOf(cooldown)' = CoolingOf(cooldown)
  BY <1>1 DEF UsedNow, CoolingOf
<1>3. /\ Writers' = Writers \cup {t}
      /\ pc'[Enforcer] = "want_resume" => pc[Enforcer] = "want_resume"
  BY <1>1, MovesWriters
<1>4. t \notin Writers
  BY <1>1 DEF Writers
<1>5. /\ Fits(Snapshot, is_running, runtime, UsedNow, CoolingOf(cooldown))
      /\ Holds(Snapshot, is_running, runtime, UsedNow, CoolingOf(cooldown))
  BY RowTaken DEF TypeOK, LedgerInv, BooksRight
<1>6. BooksRight(db, [writing EXCEPT ![t] = Snapshot], outdated, Writers \cup {t},
                 is_running, runtime, UsedNow, CoolingOf(cooldown))
  BY <1>4, <1>5, LedgerTyped, BooksCapture DEF LedgerInv
<1>7. LedgerInv'
  BY <1>1, <1>2, <1>3, <1>6 DEF LedgerInv
<1>8. UNCHANGED Ledger!lvars
  BY <1>1, <1>2 DEF Ledger!lvars, Unsaved
<1>9. QED
  BY <1>7, <1>8 DEF LedgerKept

\* A write is over, and the books are saved when it was the last that was outdated.
LEMMA SettlesLedger ==
  ASSUME TypeOK, TypeOK', LedgerInv, NEW t \in Tasks, Settle(t), pc[t] \in WritePC,
         NEW label, Goto(t, label), label \notin WritePC \cup {"want_resume"},
         UNCHANGED <<memory, phase>>
  PROVE  LedgerKept
<1>1. PICK kept \in BOOLEAN : Settled(t, kept)
  BY DEF Settle
<1>2. /\ UNCHANGED <<is_running, runtime, cooldown, phase>> /\ UsedNow' = UsedNow
      /\ CoolingOf(cooldown)' = CoolingOf(cooldown)
  BY DEF memory, UsedNow, CoolingOf
<1>3. /\ Writers' = Writers \ {t}
      /\ pc'[Enforcer] = "want_resume" => pc[Enforcer] = "want_resume"
  BY MovesWriters
<1>4. t \in Writers
  BY DEF Writers
<1>5. /\ db' = (IF kept THEN writing[t] ELSE db)
      /\ writing' = [writing EXCEPT ![t] = DefaultRow]
      /\ outdated' = (IF kept THEN IF t \in outdated THEN (outdated \ {t}) \cup {NoTask}
                                                     ELSE outdated \ {NoTask}
                              ELSE outdated \ {t})
  BY <1>1 DEF Settled
<1>6. BooksRight(db', [writing EXCEPT ![t] = DefaultRow], outdated', Writers \ {t},
                 is_running, runtime, UsedNow, CoolingOf(cooldown))
  <2>1. BooksRight(db, writing, outdated, Writers, is_running, runtime, UsedNow,
                   CoolingOf(cooldown))
    BY DEF LedgerInv
  <2>2. runtime \in Nat /\ UsedNow \in Nat /\ CoolingOf(cooldown) \in Nat
    BY LedgerTyped
  <2>3. QED
    BY <1>4, <1>5, <2>1, <2>2, LedgerTyped, BooksSettle
<1>7. LedgerInv'
  BY <1>2, <1>3, <1>5, <1>6 DEF LedgerInv
<1>8. Unsaved' => Unsaved
  BY <1>5 DEF Unsaved
<1>9. Ledger!Save \/ UNCHANGED Ledger!lvars
  <2>1. Unsaved \in BOOLEAN /\ Unsaved' \in BOOLEAN
    BY DEF Unsaved
  <2>2. Unsaved' = Unsaved \/ (Unsaved /\ Unsaved' = FALSE)
    BY <1>8, <2>1
  <2>3. QED
    BY <1>2, <2>2 DEF Ledger!Save, Ledger!lvars
<1>10. QED
  BY <1>7, <1>9 DEF LedgerKept, Ledger!Next

\* Time passes.
LEMMA TicksLedger ==
  ASSUME TypeOK, LedgerInv, Tick
  PROVE  LedgerInv' /\ Ledger!Tick
<1> DEFINE rollover == phase = Window - 1
<1>0. rollover \in BOOLEAN
  OBVIOUS
<1>1. /\ is_running' = is_running
      /\ runtime' = IF is_running THEN Older(runtime) ELSE 0
      /\ cooldown' = Left(cooldown)
      /\ phase' = IF phase + 1 = Window THEN 0 ELSE phase + 1
      /\ db' = Aged(db, rollover) /\ writing' = [t \in Tasks |-> Aged(writing[t], rollover)]
      /\ outdated' = outdated
  BY DEF Tick, TypeOK, WorldTyped
<1>2. UsedNow' = IF rollover THEN 0 ELSE UsedNow
  <2>1. used' = used /\ used \in 0..Budget /\ stale' = (stale \/ (rollover /\ used > 0))
    BY DEF Tick, TypeOK, MemoryTyped
  <2>2. CASE rollover
    <3>1. used > 0 => stale'
      BY <2>1, <2>2
    <3>2. used > 0 \/ used = 0
      BY <2>1
    <3>3. QED
      BY <2>1, <2>2, <3>1, <3>2 DEF UsedNow
  <2>3. CASE ~rollover
    <3>1. stale' <=> stale
      BY <2>1, <2>3
    <3>2. QED
      BY <2>1, <2>3, <3>1 DEF UsedNow
  <2>4. QED
    BY <2>2, <2>3
<1>3. CoolingOf(cooldown)' = Left(CoolingOf(cooldown))
  BY <1>1, LedgerTyped DEF CoolingOf, Left, NoCooldown
<1>4. /\ Writers' = Writers
      /\ pc'[Enforcer] = "want_resume" => pc[Enforcer] = "want_resume"
  <2>1. \A t \in Tasks : pc'[t] = pc[t] \/ (pc[t] = "sleep" /\ pc'[t] = "runtimes")
    BY DEF Tick, TypeOK, TasksTyped
  <2>2. QED
    BY <2>1 DEF Writers, WritePC, Tasks
<1> HIDE DEF rollover
<1>5. BooksRight(Aged(db, rollover), [t \in Tasks |-> Aged(writing[t], rollover)], outdated,
                 Writers, is_running, runtime', UsedNow', Left(CoolingOf(cooldown)))
  BY <1>0, <1>1, <1>2, LedgerTyped, BooksTick DEF LedgerInv
<1>6. pc'[Enforcer] = "want_resume" => cooldown' <= 0
  BY <1>1, <1>4, LedgerTyped DEF LedgerInv, Left
<1>7. LedgerInv'
  BY <1>1, <1>3, <1>4, <1>5, <1>6 DEF LedgerInv
<1>8. rollover <=> phase' = 0
  BY <1>1, LedgerTyped DEF rollover
<1>9. Unsaved' = Unsaved
  BY <1>1 DEF Unsaved
<1>10. Ledger!Tick
  <2>1. runtime' = IF is_running THEN Ledger!Capped(runtime + 1, AgeCap) ELSE 0
    BY <1>1 DEF Older, AtMost, Ledger!Capped
  <2>2. UsedNow' = IF phase' = 0 THEN 0 ELSE UsedNow
    BY <1>2, <1>8
  <2>3. CoolingOf(cooldown)' = IF CoolingOf(cooldown) > 0 THEN CoolingOf(cooldown) - 1 ELSE 0
    BY <1>3, LedgerTyped DEF Left
  <2>4. QED
    BY <1>1, <1>9, <2>1, <2>2, <2>3 DEF Ledger!Tick
<1>11. QED
  BY <1>7, <1>10

\* After a restart no task is anywhere, and nothing is on its way.
LEMMA NothingUnsaved ==
  ASSUME TasksLost
  PROVE  /\ Unsaved' = FALSE /\ outdated' = {} /\ writing' = NoWrites
         /\ Writers' = {} /\ pc'[Enforcer] = "sleep"
<1>1. \A t \in Tasks : pc'[t] \in {"idle", "sleep"}
  BY DEF TasksLost, AllIdle
<1>2. outdated' = {} /\ writing' = NoWrites /\ pc'[Enforcer] = "sleep"
  BY DEF TasksLost, AllIdle, Tasks
<1>3. Writers' = {}
  BY <1>1 DEF Writers, WritePC
<1>4. Unsaved' = FALSE
  BY <1>2 DEF Unsaved
<1>5. QED
  BY <1>2, <1>3, <1>4

\* The service comes up with what the row held,
LEMMA CrashesLedger ==
  ASSUME TypeOK, LedgerInv, Crash
  PROVE  LedgerInv' /\ Ledger!Restart
<1>1. /\ is_running' = db.is_running /\ runtime' = db.runtime /\ cooldown' = db.cooldown
      /\ db' = db /\ phase' = phase
  BY DEF Crash, LoadRow, world
<1>2. UsedNow' = UsageIn(db) /\ CoolingOf(cooldown)' = CoolingOf(db.cooldown)
  BY <1>1 DEF Crash, LoadRow, UsedNow, UsageIn, CoolingOf
<1>3. /\ Unsaved' = FALSE /\ outdated' = {} /\ writing' = NoWrites
      /\ Writers' = {} /\ pc'[Enforcer] = "sleep"
  BY NothingUnsaved DEF Crash
<1>4. Fits(db, is_running, runtime, UsedNow, CoolingOf(cooldown))
  <2>1. CopyOf(db, writing, NoTask) = db
    BY DEF CopyOf
  <2>2. QED
    BY <2>1 DEF LedgerInv, BooksRight
<1>5. ~Unsaved => Holds(db, is_running, runtime, UsedNow, CoolingOf(cooldown))
  <2>1. CopyOf(db, writing, NoTask) = db
    BY DEF CopyOf
  <2>2. QED
    BY <2>1 DEF LedgerInv, BooksRight, Unsaved
<1>6. /\ UsageIn(db) \in 0..Budget /\ CoolingOf(db.cooldown) \in 0..Cooldown
      /\ db.runtime \in 0..AgeCap /\ db.is_running \in BOOLEAN
  BY LedgerTyped, RowTyped DEF Rows
<1>7. LedgerInv'
  <2>1. BooksRight(db, NoWrites, {}, {}, db.is_running, db.runtime, UsageIn(db),
                   CoolingOf(db.cooldown))
    <3>1. db.is_running \/ db.runtime = 0
      BY <1>4 DEF Fits
    <3>2. /\ Fits(db, db.is_running, db.runtime, UsageIn(db), CoolingOf(db.cooldown))
          /\ Holds(db, db.is_running, db.runtime, UsageIn(db), CoolingOf(db.cooldown))
      BY <3>1, LedgerTyped, RowLoaded
    <3>3. db.runtime \in Nat /\ UsageIn(db) \in Nat /\ CoolingOf(db.cooldown) \in Nat
      BY <1>6
    <3>4. QED
      BY <3>1, <3>2, <3>3, BooksRestart
  <2>2. QED
    BY <1>1, <1>2, <1>3, <2>1 DEF LedgerInv
<1>8. /\ is_running' \in BOOLEAN
      /\ runtime' \in IF is_running' THEN 0..AgeCap ELSE {0}
      /\ UsedNow' \in 0..UsedNow /\ CoolingOf(cooldown)' \in 0..CoolingOf(cooldown)
  BY <1>1, <1>2, <1>4, <1>6, LedgerTyped DEF Fits
<1>9. is_running' => UsedNow <= Ledger!Capped(UsedNow' + runtime', Budget)
  BY <1>1, <1>2, <1>4, <1>6, LedgerTyped DEF Fits, Ledger!Capped, AtMost
<1>10. ~Unsaved => /\ UsedNow' = UsedNow /\ CoolingOf(cooldown)' = CoolingOf(cooldown)
                   /\ is_running' => is_running /\ runtime' = runtime
  BY <1>1, <1>2, <1>5 DEF Holds
<1>11. QED
  BY <1>1, <1>3, <1>7, <1>8, <1>9, <1>10 DEF Ledger!Restart

\* or with what it has written while it went down.
LEMMA ShutdownKeepsLedger ==
  ASSUME TypeOK, LedgerInv, Shutdown
  PROVE  LedgerInv' /\ Ledger!Restart
<1>1. /\ UNCHANGED <<is_running, runtime, cooldown, phase>> /\ UsedNow' = UsedNow
      /\ CoolingOf(cooldown)' = CoolingOf(cooldown) /\ db' = Snapshot
  BY DEF Shutdown, memory, world, UsedNow, CoolingOf
<1>2. /\ Unsaved' = FALSE /\ outdated' = {} /\ writing' = NoWrites
      /\ Writers' = {} /\ pc'[Enforcer] = "sleep"
  BY NothingUnsaved DEF Shutdown
<1>3. is_running \/ runtime = 0
  BY DEF LedgerInv, BooksRight
<1>4. LedgerInv'
  <2>1. BooksRight(Snapshot, NoWrites, {}, {}, is_running, runtime, UsedNow, CoolingOf(cooldown))
    BY <1>3, LedgerTyped, RowTaken, BooksRestart DEF TypeOK
  <2>2. QED
    BY <1>1, <1>2, <2>1 DEF LedgerInv
<1>5. /\ is_running' \in BOOLEAN
      /\ runtime' \in IF is_running' THEN 0..AgeCap ELSE {0}
      /\ UsedNow' \in 0..UsedNow /\ CoolingOf(cooldown)' \in 0..CoolingOf(cooldown)
  BY <1>1, <1>3, LedgerTyped
<1>6. UsedNow <= Ledger!Capped(UsedNow' + runtime', Budget)
  BY <1>1, LedgerTyped DEF Ledger!Capped
<1>7. QED
  BY <1>1, <1>2, <1>4, <1>5, <1>6 DEF Ledger!Restart

\* A task of its own kind is at no other's await.
LEMMA OwnPlaces ==
  ASSUME TypeOK
  PROVE  /\ \A s \in Sensors : s \in Tasks
         /\ \A o \in Operators : o \in Tasks /\ o # Enforcer
         /\ Enforcer \in Tasks
         /\ UNCHANGED <<used, stale>> => UsedNow' = UsedNow
BY DEF Tasks, UsedNow

\* Every step keeps the ledger.
LEMMA LedgerStep ==
  TypeOK /\ SourcesRight /\ LedgerInv /\ [Next]_vars => LedgerKept
<1> SUFFICES ASSUME TypeOK, SourcesRight, LedgerInv, [Next]_vars
             PROVE  LedgerKept
  OBVIOUS
<1>0. TypeOK'
  BY TypeStep
<1>1. ASSUME NEW s \in Sensors, NEW c \in Commands, SensorRequest(s, c) PROVE LedgerKept
  BY <1>0, <1>1, MovesAreKept, OwnPlaces DEF SensorRequest, memory, store, world, WritePC
<1>2. ASSUME NEW s \in Sensors, SensorRefused(s) PROVE LedgerKept
  BY <1>0, <1>2, EndsAreKept, OwnPlaces DEF SensorRefused, memory, store, world, WritePC
<1>3. ASSUME NEW s \in Sensors, SensorOn(s) PROVE LedgerKept
  BY <1>0, <1>3, MovesAreKept, OwnPlaces DEF SensorOn, memory, store, world, WritePC
<1>4. ASSUME NEW s \in Sensors, SensorOff(s) PROVE LedgerKept
  BY <1>0, <1>4, StartsAreKept, OwnPlaces DEF SensorOff, memory, store, world, WritePC
<1>5. ASSUME NEW t \in Sensors \cup {Enforcer}, GateOpen(t) PROVE LedgerKept
  BY <1>0, <1>5, MovesAreKept, OwnPlaces DEF GateOpen, memory, store, world, WritePC
<1>6. ASSUME NEW s \in Sensors, SensorGateClosed(s) PROVE LedgerKept
  BY <1>0, <1>6, EndsAreKept, OwnPlaces DEF SensorGateClosed, memory, store, world, WritePC
<1>7. ASSUME NEW s \in Sensors, SensorAdmitted(s) PROVE LedgerKept
  BY <1>0, <1>7, StartsAreKept, RefreshKeepsUsage, OwnPlaces
     DEF SensorAdmitted, TypeOK, memory, store, world, WritePC
<1>8. ASSUME NEW s \in Sensors, SensorBlocked(s) PROVE LedgerKept
  BY <1>0, <1>8, EndsAreKept, RefreshKeepsUsage, OwnPlaces
     DEF SensorBlocked, TypeOK, memory, store, world, WritePC
<1>9. ASSUME NEW o \in Operators, NEW tgt \in OperatorTargets, OperatorOn(o, tgt[1], tgt[2])
       PROVE  LedgerKept
  BY <1>0, <1>9, StartsAreKept, RefreshKeepsUsage, OwnPlaces
     DEF OperatorOn, TypeOK, memory, store, world, WritePC
<1>10. ASSUME NEW o \in Operators, OperatorBlocked(o) PROVE LedgerKept
  BY <1>0, <1>10, StaysAreKept, RefreshKeepsUsage, OwnPlaces
     DEF OperatorBlocked, TypeOK, tasks, memory, store, world, WritePC
<1>11. ASSUME NEW o \in Operators, NEW tgt \in OperatorTargets, OperatorOff(o, tgt[1], tgt[2])
       PROVE  LedgerKept
  BY <1>0, <1>11, StartsAreKept, OwnPlaces DEF OperatorOff, memory, store, world, WritePC
<1>12. ASSUME NEW o \in Operators, SetGate(o) PROVE LedgerKept
  BY <1>0, <1>12, MovesAreKept, OwnPlaces DEF SetGate, memory, store, world, WritePC
<1>13. ASSUME NEW t \in Tasks, NEW d \in todo[t], DeviceObeys(t, d) PROVE LedgerKept
  BY <1>0, <1>13, StaysAreKept, OwnPlaces DEF DeviceObeys, memory, store, world, WritePC
<1>14. ASSUME NEW t \in Tasks, NEW d \in todo[t], DeviceFails(t, d) PROVE LedgerKept
  BY <1>0, <1>14, StaysAreKept, OwnPlaces DEF DeviceFails, memory, store, world, WritePC
<1>15. ASSUME NEW t \in Tasks, CommandFailed(t) PROVE LedgerKept
  BY <1>0, <1>15, EndsAreKept, OwnPlaces DEF CommandFailed, memory, store, world, WritePC
<1>16. ASSUME NEW t \in Tasks, CommandSent(t) PROVE LedgerKept
  BY <1>0, <1>16, MovesAreKept, OwnPlaces DEF CommandSent, memory, store, world, WritePC
<1>17. ASSUME NEW t \in Tasks, NotifyStarted(t) PROVE LedgerKept
  <2>1. PICK label \in {"idle", "cooldowns", "persist_resume"} :
          Goto(t, label) /\ label \notin WritePC \cup {"want_resume"}
    BY <1>17, EndCommandMoves DEF NotifyStarted
  <2>2. pc[t] \notin WritePC
    BY <1>17 DEF NotifyStarted, WritePC
  <2>3. CASE enabled /\ ~is_running
    <3>1. /\ is_running' = TRUE /\ runtime' = 0
          /\ UNCHANGED <<cooldown, used, stale, db, writing, outdated, phase>>
      BY <1>17, <2>3 DEF NotifyStarted, store, world
    <3>2. QED
      BY <2>1, <2>2, <2>3, <3>1, BeginsLedger DEF LedgerKept, Ledger!Next
  <2>4. CASE ~(enabled /\ ~is_running)
    BY <1>0, <1>17, <2>1, <2>2, <2>4, MovesAreKept, OwnPlaces DEF NotifyStarted, store, world
  <2>5. QED
    BY <2>3, <2>4
<1>18. ASSUME NEW t \in Tasks, NotifyStopped(t) PROVE LedgerKept
  <2>1. Goto(t, "persist") /\ EndRun(job[t].source = "protection") /\ is_running
        /\ UNCHANGED phase
    BY <1>18 DEF NotifyStopped, world
  <2>2. pc[t] = "notify" /\ "persist" \notin WritePC \cup {"want_resume"}
        /\ "notify" \notin WritePC
    BY <1>18 DEF NotifyStopped, WritePC
  <2>3. pc'[Enforcer] = "want_resume" => ~(job[t].source = "protection")
    BY <2>1, <2>2 DEF Goto, TypeOK, TasksTyped, Tasks, SourcesRight
  <2>4. (job[t].source = "protection") \in BOOLEAN
    OBVIOUS
  <2>5. QED
    BY <2>1, <2>2, <2>3, <2>4, EndsLedger DEF LedgerKept, Ledger!Next
<1>19. ASSUME NEW t \in Tasks, NotifyStoppedNothing(t) PROVE LedgerKept
  BY <1>0, <1>19, EndsAreKept, OwnPlaces DEF NotifyStoppedNothing, memory, store, world, WritePC
<1>20. ASSUME NEW t \in Tasks, Persist(t) PROVE LedgerKept
  <2>1. PICK label \in {"idle", "cooldowns", "persist_resume"} :
          Goto(t, label) /\ label \notin WritePC \cup {"want_resume"}
    BY <1>20, EndCommandMoves DEF Persist
  <2>2. pc[t] \in WritePC
    BY <1>20 DEF Persist, WritePC
  <2>3. QED
    BY <1>0, <1>20, <2>1, <2>2, SettlesLedger DEF Persist, world
<1>21. ASSUME CheckRuntimes PROVE LedgerKept
  BY <1>0, <1>21, MovesAreKept, RefreshKeepsUsage, OwnPlaces
     DEF CheckRuntimes, TypeOK, memory, store, world, WritePC
<1>22. ASSUME ForceStop PROVE LedgerKept
  <2>1. Goto(Enforcer, "persist_stop") /\ EndRun(TRUE) /\ is_running /\ UNCHANGED phase
        /\ pc[Enforcer] = "want_stop"
    BY <1>22 DEF ForceStop, world
  <2>2. /\ "persist_stop" \notin WritePC \cup {"want_resume"} /\ "want_stop" \notin WritePC
        /\ pc'[Enforcer] # "want_resume"
    BY <2>1 DEF Goto, TypeOK, TasksTyped, Tasks, WritePC
  <2>3. QED
    BY <2>1, <2>2, EndsLedger, OwnPlaces DEF LedgerKept, Ledger!Next
<1>23. ASSUME ForceStopMoot PROVE LedgerKept
  BY <1>0, <1>23, MovesAreKept, OwnPlaces DEF ForceStopMoot, memory, store, world, WritePC
<1>24. ASSUME PersistForceStop PROVE LedgerKept
  <2>1. /\ Goto(Enforcer, "send") /\ pc[Enforcer] \in WritePC
        /\ "send" \notin WritePC \cup {"want_resume"}
    BY <1>24 DEF PersistForceStop, StartCommand, WritePC
  <2>2. QED
    BY <1>0, <1>24, <2>1, SettlesLedger, OwnPlaces DEF PersistForceStop, world
<1>25. ASSUME CheckCooldown PROVE LedgerKept
  <2>1. PICK label \in {"want_resume", "sleep"} :
          Goto(Enforcer, label) /\ (label = "want_resume" => cooldown = 0)
    BY <1>25 DEF CheckCooldown
  <2>2. UNCHANGED <<is_running, runtime, cooldown, db, writing, outdated, phase>>
        /\ UsedNow' = UsedNow
    BY <1>25, OwnPlaces DEF CheckCooldown, memory, store, world
  <2>3. /\ Writers' = Writers /\ pc'[Enforcer] = label
    BY <1>25, <2>1, MovesWriters, OwnPlaces DEF CheckCooldown, WritePC
  <2>4. pc'[Enforcer] = "want_resume" => cooldown' <= 0
    BY <2>1, <2>2, <2>3
  <2>5. QED
    BY <1>0, <2>2, <2>3, <2>4, QuietIsKept DEF Quietly
<1>26. ASSUME ClearCooldown PROVE LedgerKept
  <2>1. PICK label \in {"ask_gate", "persist_resume"} : Goto(Enforcer, label)
    BY <1>26 DEF ClearCooldown
  <2>2. UNCHANGED <<is_running, runtime, db, writing, outdated, phase>> /\ UsedNow' = UsedNow
    BY <1>26, OwnPlaces DEF ClearCooldown, store, world
  <2>3. cooldown <= 0 /\ cooldown' <= 0
    BY <1>26 DEF ClearCooldown, LedgerInv, NoCooldown
  <2>4. Writers' = Writers
    BY <1>26, <2>1, MovesWriters, OwnPlaces DEF ClearCooldown, WritePC
  <2>5. QED
    BY <1>0, <2>2, <2>3, <2>4, QuietIsKept DEF Quietly
<1>27. ASSUME ResumeGateClosed PROVE LedgerKept
  BY <1>0, <1>27, MovesAreKept, OwnPlaces DEF ResumeGateClosed, memory, store, world, WritePC
<1>28. ASSUME Resume PROVE LedgerKept
  BY <1>0, <1>28, StartsAreKept, RefreshKeepsUsage, OwnPlaces
     DEF Resume, TypeOK, memory, store, world, WritePC
<1>29. ASSUME ResumeBlocked PROVE LedgerKept
  BY <1>0, <1>29, MovesAreKept, RefreshKeepsUsage, OwnPlaces
     DEF ResumeBlocked, TypeOK, memory, store, world, WritePC
<1>30. ASSUME PersistResume PROVE LedgerKept
  <2>1. /\ Goto(Enforcer, "sleep") /\ pc[Enforcer] \in WritePC
        /\ "sleep" \notin WritePC \cup {"want_resume"}
    BY <1>30 DEF PersistResume, WritePC
  <2>2. QED
    BY <1>0, <1>30, <2>1, SettlesLedger, OwnPlaces DEF PersistResume, world
<1>31. ASSUME Tick PROVE LedgerKept
  BY <1>31, TicksLedger DEF LedgerKept, Ledger!Next
<1>32. ASSUME Crash PROVE LedgerKept
  BY <1>32, CrashesLedger DEF LedgerKept, Ledger!Next
<1>33. ASSUME Shutdown PROVE LedgerKept
  BY <1>33, ShutdownKeepsLedger DEF LedgerKept, Ledger!Next
<1>34. ASSUME ToggleEnabled PROVE LedgerKept
  BY <1>0, <1>34, StaysAreKept, OwnPlaces
     DEF ToggleEnabled, tasks, memory, store, world, WritePC
<1>35. CASE UNCHANGED vars
  BY <1>0, <1>35, StaysAreKept, OwnPlaces DEF vars, memory, store, world, WritePC, tasks
<1>36. ASSUME NEW t \in Tasks, Capture(t) PROVE LedgerKept
  BY <1>0, <1>36, CapturesLedger
<1>37. QED
  BY <1>1, <1>2, <1>3, <1>4, <1>5, <1>6, <1>7, <1>8, <1>9, <1>10, <1>11, <1>12, <1>13,
     <1>14, <1>15, <1>16, <1>17, <1>18, <1>19, <1>20, <1>21, <1>22, <1>23, <1>24,
     <1>25, <1>26, <1>27, <1>28, <1>29, <1>30, <1>31, <1>32, <1>33, <1>34, <1>35, <1>36
  DEF Next, SensorStep, OperatorStep, EnforcerStep, CommandStep

\* Nothing runs, nothing is used, nothing is unsaved.
LEMMA LedgerStart == Init => LedgerInv /\ Ledger!Init
<1> SUFFICES ASSUME Init PROVE LedgerInv /\ Ledger!Init
  OBVIOUS
<1>1. /\ is_running = FALSE /\ runtime = 0 /\ cooldown = NoCooldown /\ ~stale /\ used = 0
      /\ phase = 0 /\ db = DefaultRow /\ writing = NoWrites /\ outdated = {}
  BY DEF Init
<1>2. UsedNow = 0 /\ CoolingOf(cooldown) = 0 /\ ~Unsaved
  BY <1>1 DEF UsedNow, CoolingOf, NoCooldown, Unsaved
<1>3. Writers = {} /\ pc[Enforcer] = "sleep"
  BY DEF Init, AllIdle, Writers, WritePC, Tasks
<1>4. LedgerInv
  <2>1. Fits(DefaultRow, FALSE, 0, 0, 0) /\ Holds(DefaultRow, FALSE, 0, 0, 0)
    <3>1. Fits(DefaultRow, FALSE, 0, 0, 0)
      BY RowBlank
    <3>2. Holds(DefaultRow, FALSE, 0, 0, 0)
      BY DEF Holds, DefaultRow, UsageIn, CoolingOf, NoCooldown
    <3>3. QED
      BY <3>1, <3>2
  <2>2. BooksRight(DefaultRow, NoWrites, {}, {}, FALSE, 0, 0, 0)
    BY <2>1, BooksRestart
  <2>3. QED
    BY <1>1, <1>2, <1>3, <2>2 DEF LedgerInv
<1>5. Ledger!Init
  BY <1>1, <1>2 DEF Ledger!Init
<1>6. QED
  BY <1>4, <1>5

LEMMA LedgerInvariant == Spec => []LedgerInv
<1>1. LedgerKept => LedgerInv'
  BY DEF LedgerKept
<1>2. CooldownInv => SourcesRight
  BY DEF CooldownInv
<1>3. QED
  BY <1>1, <1>2, LedgerStart, LedgerStep, TypeCorrect, CooldownInvariant, PTL DEF Spec

\* Sensors, operators and the enforcement loop keep the books of an artwork as RunLedger
\* demands, in whatever order their writes are committed: every step of them is one of its
\* steps, or none.
THEOREM KeepsLedgerCorrect == Spec => KeepsLedger
<1>1. LedgerKept => LedgerInv' /\ [Ledger!Next]_(Ledger!lvars)
  BY DEF LedgerKept
<1>2. CooldownInv => SourcesRight
  BY DEF CooldownInv
<1>3. QED
  BY <1>1, <1>2, LedgerStart, LedgerStep, TypeCorrect, CooldownInvariant, PTL
  DEF Spec, KeepsLedger, Ledger!Spec
=============================================================================
