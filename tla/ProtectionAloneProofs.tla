------------------------ MODULE ProtectionAloneProofs ------------------------
(***************************************************************************)
(* What the protection service promises while no operator commands the     *)
(* artwork: whoever is inside the lock then finds at its end what it found *)
(* at its beginning, for every number of requests and devices and every    *)
(* configuration; and what a crash may cost, with operators and without.   *)
(***************************************************************************)
EXTENDS ProtectionProofs

-----------------------------------------------------------------------------
(* What a task has found under the lock still holds                        *)

\* A sensor command still fits the artwork; a forced stop has ended the run.
FoundInv ==
  /\ \A s \in Sensors :
       /\ pc[s] \in {"ask_gate", "gate_open"} => job[s].cmd = "on"
       /\ pc[s] \in {"ask_gate", "gate_open", "send", "notify"}
            => (job[s].cmd = "on" <=> ~is_running)
       /\ pc[s] \in {"send", "notify"} /\ job[s].cmd = "off" => MayEnd
  /\ pc[Enforcer] \in {"persist_stop", "write_stop"} => ~is_running
  /\ pc[Enforcer] \in {"send", "notify"} /\ job[Enforcer].cmd = "off" => ~is_running

Base == TypeOK /\ LockDiscipline /\ SourcesRight

\* A step that leaves the run and the tasks in the lock alone, or ends their stay.
LEMMA FoundKept ==
  ASSUME FoundInv, is_running' = is_running, is_running /\ MayEnd => MayEnd',
         \A s \in Sensors : \/ pc'[s] \notin {"ask_gate", "gate_open", "send", "notify"}
                            \/ pc'[s] = pc[s] /\ job'[s] = job[s],
         \/ pc'[Enforcer] \notin {"persist_stop", "write_stop", "send", "notify"}
         \/ pc'[Enforcer] = pc[Enforcer] /\ job'[Enforcer] = job[Enforcer]
  PROVE  FoundInv'
<1>1. ASSUME NEW s \in Sensors, pc'[s] = pc[s], job'[s] = job[s]
      PROVE  /\ pc'[s] \in {"ask_gate", "gate_open"} => job'[s].cmd = "on"
             /\ pc'[s] \in {"ask_gate", "gate_open", "send", "notify"}
                  => (job'[s].cmd = "on" <=> ~is_running')
             /\ pc'[s] \in {"send", "notify"} /\ job'[s].cmd = "off" => MayEnd'
  <2>1. pc[s] \in {"send", "notify"} /\ job[s].cmd = "off" => MayEnd /\ is_running
    BY DEF FoundInv
  <2>2. QED
    BY <1>1, <2>1 DEF FoundInv
<1>2. ASSUME pc'[Enforcer] = pc[Enforcer], job'[Enforcer] = job[Enforcer]
      PROVE  /\ pc'[Enforcer] \in {"persist_stop", "write_stop"} => ~is_running'
             /\ pc'[Enforcer] \in {"send", "notify"} /\ job'[Enforcer].cmd = "off"
                  => ~is_running'
  BY <1>2 DEF FoundInv
<1>3. QED
  BY <1>1, <1>2 DEF FoundInv

\* A task in the lock leaves it, or has not come in: the others are not there.
LEMMA OnlyOneInside ==
  ASSUME LockDiscipline, NEW t \in Sensors \cup {Enforcer}, InLock(t) \/ LockFree
  PROVE  \A u \in (Sensors \cup {Enforcer}) \ {t} :
           pc[u] \notin {"ask_gate", "gate_open", "send", "notify", "persist", "persist_stop",
                         "persist_resume", "write", "write_stop", "write_resume"}
<1>1. \A u \in (Sensors \cup {Enforcer}) \ {t} : ~InLock(u)
  BY TasksAssumption DEF LockDiscipline, LockFree, Tasks
<1>2. QED
  BY <1>1 DEF InLock

LEMMA MayEndKept == runtime' = runtime => (MayEnd' <=> MayEnd)
BY DEF MayEnd

\* A step that changes the run, or sends t on, with nobody else inside.
LEMMA FoundByOne ==
  ASSUME LockDiscipline, NEW t \in Sensors \cup {Enforcer}, InLock(t) \/ LockFree,
         \A u \in (Sensors \cup {Enforcer}) \ {t} : pc'[u] = pc[u],
         t \in Sensors =>
           /\ pc'[t] \in {"ask_gate", "gate_open"} => job'[t].cmd = "on"
           /\ pc'[t] \in {"ask_gate", "gate_open", "send", "notify"}
                => (job'[t].cmd = "on" <=> ~is_running')
           /\ pc'[t] \in {"send", "notify"} /\ job'[t].cmd = "off" => MayEnd',
         t = Enforcer =>
           /\ pc'[Enforcer] \in {"persist_stop", "write_stop"} => ~is_running'
           /\ pc'[Enforcer] \in {"send", "notify"} /\ job'[Enforcer].cmd = "off"
                => ~is_running'
  PROVE  FoundInv'
<1>1. \A u \in (Sensors \cup {Enforcer}) \ {t} :
        pc'[u] \notin {"ask_gate", "gate_open", "send", "notify", "persist_stop", "write_stop"}
  BY OnlyOneInside
<1>2. QED
  BY <1>1 DEF FoundInv

LEMMA FoundStep == Operators = {} => (Base /\ FoundInv /\ [Next]_vars => FoundInv')
<1> SUFFICES ASSUME Operators = {}, TypeOK, LockDiscipline, SourcesRight, FoundInv, [Next]_vars
             PROVE  FoundInv'
  BY DEF Base
<1> USE DEF Tasks
<1>t. /\ pc \in [Tasks -> SensorPC \cup OperatorPC \cup EnforcerPC] /\ job \in [Tasks -> Jobs]
      /\ Enforcer \notin Sensors
  BY TasksAssumption DEF TypeOK, TasksTyped
<1>0. ASSUME UNCHANGED <<is_running, runtime, pc, job>> PROVE FoundInv'
  BY <1>0, MayEndKept, FoundKept
<1>1. ASSUME NEW s \in Sensors, NEW c \in Commands, SensorRequest(s, c) PROVE FoundInv'
  <2>1. is_running' = is_running /\ runtime' = runtime  BY <1>1 DEF SensorRequest, memory
  <2>2. \A u \in Tasks : pc'[u] = "queued" \/ (pc'[u] = pc[u] /\ job'[u] = job[u])
    BY <1>1, <1>t DEF SensorRequest, Goto
  <2> QED  BY <1>t, <2>1, <2>2, MayEndKept, FoundKept
<1>2. ASSUME NEW t \in Tasks, EndCommand(t), is_running' = is_running, runtime' = runtime
      PROVE  FoundInv'
  <2>1. \A u \in Tasks : \/ pc'[u] \in {"idle", "cooldowns", "persist_resume"}
                         \/ pc'[u] = pc[u] /\ job'[u] = job[u]
    BY <1>2, <1>t DEF EndCommand, Goto
  <2> QED  BY <1>2, <2>1, MayEndKept, FoundKept
<1>3. ASSUME NEW s \in Sensors,
             SensorRefused(s) \/ SensorGateClosed(s) \/ SensorBlocked(s)
      PROVE  FoundInv'
  BY <1>2, <1>3 DEF SensorRefused, SensorGateClosed, SensorBlocked, memory
<1>4. ASSUME NEW s \in Sensors, SensorOn(s) PROVE FoundInv'
  <2>1. /\ LockFree /\ pc'[s] = "ask_gate" /\ job'[s].cmd = "on" /\ ~is_running'
        /\ \A u \in Tasks \ {s} : pc'[u] = pc[u]
    BY <1>4, <1>t DEF SensorOn, Goto
  <2> QED  BY <1>t, <2>1, FoundByOne
<1>5. ASSUME NEW s \in Sensors, SensorOff(s) PROVE FoundInv'
  <2>1. /\ LockFree /\ pc'[s] = "send" /\ job'[s].cmd = "off" /\ is_running'
        /\ \A u \in Tasks \ {s} : pc'[u] = pc[u]
    BY <1>5, <1>t DEF SensorOff, StartCommand, Goto
  <2>2. MayEnd'  BY <1>5, MayEndKept DEF SensorOff
  <2> QED  BY <1>t, <2>1, <2>2, FoundByOne
<1>6. ASSUME NEW t \in Sensors \cup {Enforcer}, GateOpen(t) PROVE FoundInv'
  <2>1. /\ InLock(t) /\ pc'[t] = "gate_open" /\ job' = job /\ is_running' = is_running
        /\ \A u \in Tasks \ {t} : pc'[u] = pc[u]
    BY <1>6, <1>t DEF GateOpen, Goto, InLock, memory
  <2>2. t \in Sensors => job[t].cmd = "on" /\ ~is_running  BY <1>6 DEF GateOpen, FoundInv
  <2> QED  BY <1>t, <2>1, <2>2, FoundByOne
<1>7. ASSUME NEW s \in Sensors, SensorAdmitted(s) PROVE FoundInv'
  <2>1. /\ InLock(s) /\ pc'[s] = "send" /\ job'[s] = job[s] /\ is_running' = is_running
        /\ \A u \in Tasks \ {s} : pc'[u] = pc[u]
    BY <1>7, <1>t DEF SensorAdmitted, StartCommand, Goto, InLock
  <2>2. job[s].cmd = "on" /\ ~is_running  BY <1>7 DEF SensorAdmitted, FoundInv
  <2> QED  BY <1>t, <2>1, <2>2, FoundByOne
<1>8. ASSUME NEW t \in Tasks, NEW d \in todo[t], DeviceObeys(t, d) \/ DeviceFails(t, d)
      PROVE  FoundInv'
  BY <1>0, <1>8 DEF DeviceObeys, DeviceFails, memory
<1>9. ASSUME NEW t \in Tasks, CommandFailed(t) \/ NotifyStoppedNothing(t) \/ Persist(t)
      PROVE  FoundInv'
  BY <1>2, <1>9 DEF CommandFailed, NotifyStoppedNothing, Persist, memory
<1>10. ASSUME NEW t \in Tasks, CommandSent(t) PROVE FoundInv'
  <2>1. /\ InLock(t) /\ pc[t] = "send" /\ pc'[t] = "notify" /\ job' = job
        /\ is_running' = is_running /\ runtime' = runtime
        /\ \A u \in Tasks \ {t} : pc'[u] = pc[u]
    BY <1>10, <1>t DEF CommandSent, Goto, InLock, memory
  <2>2. t \in Sensors => /\ job[t].cmd = "on" <=> ~is_running
                         /\ job[t].cmd = "off" => MayEnd
    BY <2>1 DEF FoundInv
  <2>3. t = Enforcer /\ job[t].cmd = "off" => ~is_running  BY <2>1 DEF FoundInv
  <2> QED  BY <1>t, <2>1, <2>2, <2>3, MayEndKept, FoundByOne
<1>11. ASSUME NEW t \in Tasks, NotifyStarted(t) PROVE FoundInv'
  <2>1. /\ InLock(t) /\ pc'[t] \in {"idle", "cooldowns", "persist_resume"}
        /\ \A u \in Tasks \ {t} : pc'[u] = pc[u]
    BY <1>11, <1>t DEF NotifyStarted, EndCommand, Goto, InLock
  <2> QED  BY <1>t, <2>1, FoundByOne
<1>12. ASSUME NEW t \in Tasks, NotifyStopped(t) PROVE FoundInv'
  <2>1. InLock(t) /\ pc'[t] = "persist" /\ \A u \in Tasks \ {t} : pc'[u] = pc[u]
    BY <1>12, <1>t DEF NotifyStopped, Goto, InLock
  <2> QED  BY <1>t, <2>1, FoundByOne
<1>13. ASSUME NEW l \in {"want_stop", "cooldowns", "want_resume", "sleep", "ask_gate",
                         "persist_resume"},
              Goto(Enforcer, l), UNCHANGED <<is_running, runtime, job>>
       PROVE  FoundInv'
  <2>1. pc'[Enforcer] = l /\ \A u \in Sensors : pc'[u] = pc[u]  BY <1>13, <1>t DEF Goto
  <2> QED  BY <1>13, <2>1, MayEndKept, FoundKept
<1>14. ASSUME CheckRuntimes \/ ForceStopMoot \/ CheckCooldown \/ ClearCooldown
              \/ ResumeGateClosed \/ ResumeBlocked \/ PersistResume
       PROVE  FoundInv'
  BY <1>13, <1>14 DEF CheckRuntimes, ForceStopMoot, CheckCooldown, ClearCooldown,
     ResumeGateClosed, ResumeBlocked, PersistResume, memory
<1>15. ASSUME ForceStop PROVE FoundInv'
  <2>1. LockFree /\ ~is_running' /\ \A u \in Tasks \ {Enforcer} : pc'[u] = pc[u]
    BY <1>15, <1>t DEF ForceStop, EndRun, Goto
  <2> QED  BY <1>t, <2>1, FoundByOne
<1>16. ASSUME PersistForceStop \/ Resume PROVE FoundInv'
  <2>1. /\ InLock(Enforcer) /\ pc'[Enforcer] = "send" /\ is_running' = is_running
        /\ \A u \in Tasks \ {Enforcer} : pc'[u] = pc[u]
    BY <1>16, <1>t DEF PersistForceStop, Resume, StartCommand, Goto, InLock, memory
  <2>2. PersistForceStop => ~is_running  BY DEF PersistForceStop, FoundInv
  <2>3. Resume => job'[Enforcer].cmd = "on"
    BY <1>t DEF Resume, StartCommand, Job
  <2> QED  BY <1>t, <1>16, <2>1, <2>2, <2>3, FoundByOne
<1>17. ASSUME Tick PROVE FoundInv'
  <2>1. is_running' = is_running /\ job' = job  BY <1>17 DEF Tick
  <2>2. is_running /\ MayEnd => MayEnd'
    <3>1. is_running => runtime' = Older(runtime)  BY <1>17 DEF Tick
    <3>2. runtime \in 0..AgeCap  BY DEF TypeOK, MemoryTyped
    <3>3. /\ runtime >= MinRuntime => Older(runtime) >= MinRuntime
          /\ runtime >= MaxRuntime => Older(runtime) >= MaxRuntime
      BY <3>2, ConfigAssumption, BoundsAssumption DEF Older, AtMost
    <3> QED  BY <3>1, <3>3 DEF MayEnd
  <2>3. /\ \A u \in Sensors : pc'[u] = pc[u]
        /\ pc'[Enforcer] = pc[Enforcer] \/ pc'[Enforcer] = "runtimes"
    BY <1>17, <1>t DEF Tick
  <2> QED  BY <2>1, <2>2, <2>3, FoundKept
<1>18. ASSUME Crash \/ Shutdown PROVE FoundInv'
  <2>1. \A u \in Tasks : pc'[u] \in {"idle", "sleep"}
    BY <1>18 DEF Crash, Shutdown, TasksLost, AllIdle
  <2> QED  BY <2>1 DEF FoundInv
<1>19. ASSUME ToggleEnabled PROVE FoundInv'  BY <1>0, <1>19 DEF ToggleEnabled, memory, tasks
<1>20. CASE UNCHANGED vars  BY <1>0, <1>20 DEF vars, memory, tasks
<1>21. ASSUME NEW t \in Tasks, Capture(t) PROVE FoundInv'
  <2>1. /\ InLock(t) /\ pc'[t] \in {"write", "write_stop", "write_resume"}
        /\ pc'[t] = "write_stop" => pc[t] = "persist_stop"
        /\ is_running' = is_running /\ \A u \in Tasks \ {t} : pc'[u] = pc[u]
    BY <1>21, <1>t DEF Capture, WriteOf, Goto, InLock, memory
  <2>2. t = Enforcer /\ pc'[t] = "write_stop" => ~is_running'  BY <2>1 DEF FoundInv
  <2> QED  BY <1>t, <2>1, <2>2, FoundByOne
<1>22. QED
  BY <1>1, <1>3, <1>4, <1>5, <1>6, <1>7, <1>8, <1>9, <1>10, <1>11, <1>12, <1>14, <1>15,
     <1>16, <1>17, <1>18, <1>19, <1>20, <1>21
  DEF Next, SensorStep, EnforcerStep, CommandStep

LEMMA FoundInvariant == Operators = {} => (Spec => [](Base /\ FoundInv))
<1> SUFFICES ASSUME Operators = {} PROVE Spec => [](Base /\ FoundInv)
  OBVIOUS
<1>1. Init => FoundInv
  BY DEF Init, FoundInv, AllIdle, Tasks
<1>2. Base /\ FoundInv /\ [Next]_vars => FoundInv'
  BY FoundStep
<1>3. CooldownInv => SourcesRight
  BY DEF CooldownInv
<1>4. TypeOK /\ LockDiscipline /\ SourcesRight => Base
  BY DEF Base
<1>5. QED
  BY <1>1, <1>2, <1>3, <1>4, TypeCorrect, LockCorrect, CooldownInvariant, PTL DEF Spec

\* Without operators no sensor command ends a run before its minimum, although its OFF
\* is reported long after the check under the lock (_handle_sensor_off, notify_stopped).
THEOREM SensorKeepsMinimumCorrect == Operators = {} => (Spec => SensorKeepsMinimum)
<1> SUFFICES ASSUME Operators = {} PROVE Spec => SensorKeepsMinimum
  OBVIOUS
<1> DEFINE Kept1 == \A s \in Sensors :
                      pc[s] = "notify" /\ is_running /\ ~is_running' /\ ~Restarted
                        => runtime >= MinRuntime /\ (ForceCompletion => runtime >= MaxRuntime)
<1>1. ASSUME Base, FoundInv, [Next]_vars PROVE Kept1
  <2> SUFFICES ASSUME NEW s \in Sensors, pc[s] = "notify", is_running, ~is_running', ~Restarted
               PROVE  MayEnd
    BY DEF MayEnd
  <2>1. InLock(s) /\ ~LockFree /\ s \in Tasks
    BY <1>1, TasksAssumption DEF InLock, LockFree, Base, LockDiscipline, Tasks
  <2>2. ASSUME UNCHANGED is_running PROVE MayEnd  BY <2>2
  <2>3. ASSUME NEW t \in Tasks, NotifyStopped(t) PROVE MayEnd
    <3>1. pc[t] = "notify" /\ job[t].cmd = "off"  BY <2>3 DEF NotifyStopped
    <3>2. t = s  BY <1>1, <2>1, <3>1, OnlyOneInside DEF Base, Tasks
    <3> QED  BY <1>1, <3>1, <3>2 DEF FoundInv
  <2>4. ASSUME NEW t \in Tasks, NotifyStarted(t) PROVE MayEnd  BY <2>4 DEF NotifyStarted
  <2>5. CASE ForceStop  BY <2>1, <2>5 DEF ForceStop
  <2>6. CASE Crash \/ Shutdown
    <3>1. restarts \in Nat /\ restarts' = restarts + 1
      BY <1>1, <2>6 DEF Crash, Shutdown, Base, TypeOK, BoundsTyped
    <3> QED  BY <3>1 DEF Restarted
  <2>7. ASSUME NEW t \in Sensors, SensorStep(t) PROVE UNCHANGED is_running
    BY <2>7 DEF SensorStep, SensorRequest, SensorRefused, SensorOn, SensorOff,
       SensorGateClosed, SensorAdmitted, SensorBlocked, memory
  <2>8. ASSUME NEW t \in Sensors \cup {Enforcer}, GateOpen(t) PROVE UNCHANGED is_running
    BY <2>8 DEF GateOpen, memory
  <2>9. ASSUME NEW t \in Tasks,
               \/ \E d \in todo[t] : DeviceObeys(t, d) \/ DeviceFails(t, d)
               \/ CommandFailed(t) \/ CommandSent(t) \/ NotifyStoppedNothing(t) \/ Capture(t)
               \/ Persist(t)
        PROVE  UNCHANGED is_running
    BY <2>9 DEF DeviceObeys, DeviceFails, CommandFailed, CommandSent, NotifyStoppedNothing,
       Capture, Persist, memory
  <2>10. CASE EnforcerStep /\ ~ForceStop
    BY <2>2, <2>10 DEF EnforcerStep, CheckRuntimes, ForceStopMoot, PersistForceStop,
       CheckCooldown, ClearCooldown, ResumeGateClosed, Resume, ResumeBlocked, PersistResume,
       memory
  <2>11. CASE Tick \/ ToggleEnabled \/ UNCHANGED vars
    BY <2>2, <2>11 DEF Tick, ToggleEnabled, vars, memory
  <2> QED
    BY <1>1, <2>2, <2>3, <2>4, <2>5, <2>6, <2>7, <2>8, <2>9, <2>10, <2>11
    DEF Next, CommandStep
<1>2. Base /\ FoundInv /\ [Next]_vars => [Kept1]_vars
  BY <1>1
<1>3. QED
  BY <1>2, FoundInvariant, PTL DEF Spec, SensorKeepsMinimum

-----------------------------------------------------------------------------
(* is_running and the devices                                              *)

Clean == failures = 0 /\ restarts = 0 /\ toggles = 0
Level(b) == IF b THEN "on" ELSE "off"
AllAt(v) == \A d \in Automated : power[d] = v

\* The tasks that change the devices, or have yet to say that they did.
Working(t) == pc[t] \in {"send", "notify", "persist_stop", "write_stop"}

\* How far each of them is: the devices still to be told are as they were.
Sending(t) ==
  pc[t] = "send" =>
    /\ todo[t] \subseteq Automated
    /\ succ[t] <=> todo[t] # Automated
    /\ \A d \in Automated \ todo[t] : power[d] = job[t].cmd
    /\ \A d \in todo[t] : power[d] = Level(is_running \/ job[t].source = "protection")
Notifying(t) == pc[t] = "notify" => Automated # {} /\ AllAt(job[t].cmd)
Stopping(t) == pc[t] \in {"persist_stop", "write_stop"} => AllAt("on")
Right(t) == Sending(t) /\ Notifying(t) /\ Stopping(t)

RunsRight ==
  /\ enabled
  /\ \A d \in Devices \ Automated : power[d] = "off"
  /\ Automated = {} => ~is_running
  /\ \A t \in Tasks : Right(t)
  /\ (\A t \in Tasks : ~Working(t)) => AllAt(Level(is_running))

\* A step of a task that works neither before nor after, nor changes run or devices.
LEMMA RunsKept ==
  ASSUME RunsRight, NEW t \in Tasks, ~Working(t), ~Working(t)',
         UNCHANGED <<enabled, is_running, power>>,
         \A u \in Tasks \ {t} : /\ pc'[u] = pc[u] /\ job'[u] = job[u]
                                /\ todo'[u] = todo[u] /\ succ'[u] = succ[u]
  PROVE  RunsRight'
<1>1. \A u \in Tasks : Working(u)' <=> Working(u)
  BY DEF Working
<1>2. ASSUME NEW u \in Tasks PROVE Right(u)'
  <2>1. CASE u = t
    BY <2>1 DEF Working, Right, Sending, Notifying, Stopping
  <2>2. CASE u # t
    <3>1. Right(u)  BY DEF RunsRight
    <3>2. /\ pc'[u] = pc[u] /\ job'[u] = job[u] /\ todo'[u] = todo[u] /\ succ'[u] = succ[u]
          /\ power' = power /\ is_running' = is_running
      BY <2>2
    <3>3. Sending(u)'  BY <3>1, <3>2 DEF Right, Sending
    <3>4. Notifying(u)' /\ Stopping(u)'  BY <3>1, <3>2 DEF Right, Notifying, Stopping, AllAt
    <3>5. QED  BY <3>3, <3>4 DEF Right
  <2>3. QED  BY <2>1, <2>2
<1>3. AllAt(Level(is_running))' <=> AllAt(Level(is_running))  BY DEF AllAt
<1>4. QED
  BY <1>1, <1>2, <1>3 DEF RunsRight

\* Nobody else works beside a task that is inside, or while the lock is free.
LEMMA OnlyOneWorks ==
  ASSUME Operators = {}, Base, NEW t \in Tasks, InLock(t) \/ LockFree
  PROVE  /\ \A u \in Tasks \ {t} : ~Working(u)
         /\ RunsRight /\ ~Working(t) => AllAt(Level(is_running))
<1>1. \A u \in Tasks \ {t} : ~Working(u)
  BY OnlyOneInside DEF Base, Working, Tasks
<1>2. QED
  BY <1>1 DEF RunsRight

LEMMA RunsByOne ==
  ASSUME Operators = {}, Base, NEW t \in Tasks, InLock(t) \/ LockFree,
         \A u \in Tasks \ {t} : pc'[u] = pc[u],
         enabled', \A d \in Devices \ Automated : power'[d] = "off",
         Automated = {} => ~is_running',
         Right(t)', ~Working(t)' => AllAt(Level(is_running))'
  PROVE  RunsRight'
<1>1. \A u \in Tasks \ {t} : ~Working(u)'
  BY OnlyOneWorks DEF Working
<1>2. \A u \in Tasks \ {t} : Right(u)'
  BY <1>1 DEF Working, Right, Sending, Notifying, Stopping
<1>3. QED
  BY <1>1, <1>2 DEF RunsRight

\* A command begins with devices that are as the run says.
LEMMA RunsStart ==
  ASSUME Operators = {}, Base, RunsRight, NEW t \in Tasks, InLock(t) \/ LockFree,
         NEW j \in Jobs, StartCommand(t, j, Automated), UNCHANGED <<enabled, is_running, power>>,
         AllAt(Level(is_running \/ j.source = "protection"))
  PROVE  RunsRight'
<1>1. /\ pc'[t] = "send" /\ job'[t] = j /\ todo'[t] = Automated /\ succ'[t] = FALSE
      /\ \A u \in Tasks \ {t} : pc'[u] = pc[u]
  BY DEF StartCommand, Goto, Base, TypeOK, TasksTyped
<1>2. Sending(t)'
  <2>1. \A d \in Automated : power[d] = Level(is_running \/ j.source = "protection")
    BY DEF AllAt
  <2>2. QED
    BY <1>1, <2>1 DEF Sending
<1>3. Right(t)' /\ Working(t)'
  BY <1>1, <1>2 DEF Right, Notifying, Stopping, Working
<1>4. QED
  BY <1>1, <1>3, RunsByOne DEF RunsRight

LEMMA RunsStep ==
  ASSUME Operators = {}, Base, FoundInv, RunsRight, Clean, Clean', [Next]_vars
  PROVE  RunsRight'
<1>t. /\ pc \in [Tasks -> SensorPC \cup OperatorPC \cup EnforcerPC] /\ job \in [Tasks -> Jobs]
      /\ todo \in [Tasks -> SUBSET Devices] /\ succ \in [Tasks -> BOOLEAN]
      /\ power \in [Devices -> Commands] /\ Automated \subseteq Devices
      /\ Enforcer \notin Sensors /\ Tasks = Sensors \cup {Enforcer}
  BY TasksAssumption, DevicesAssumption DEF Base, TypeOK, TasksTyped, WorldTyped, Tasks
<1>e. enabled  BY DEF RunsRight
\* Steps that stay away from the devices.
<1>1. ASSUME NEW t \in Tasks, ~Working(t), EndCommand(t), UNCHANGED <<enabled, is_running, power>>
      PROVE  RunsRight'
  <2>1. pc'[t] \in {"idle", "cooldowns", "persist_resume"}  BY <1>1, <1>t DEF EndCommand, Goto
  <2>2. \A u \in Tasks \ {t} : /\ pc'[u] = pc[u] /\ job'[u] = job[u]
                               /\ todo'[u] = todo[u] /\ succ'[u] = succ[u]
    BY <1>1, <1>t DEF EndCommand, Goto
  <2>3. ~Working(t)'  BY <2>1 DEF Working
  <2> QED  BY <1>1, <2>2, <2>3, RunsKept
<1>2. ASSUME NEW t \in Tasks, ~Working(t), NEW l, Goto(t, l),
             l \notin {"send", "notify", "persist_stop", "write_stop"},
             \A u \in Tasks \ {t} : job'[u] = job[u],
             UNCHANGED <<enabled, is_running, power, todo, succ>>
      PROVE  RunsRight'
  <2>1. pc'[t] = l /\ \A u \in Tasks \ {t} : pc'[u] = pc[u]  BY <1>2, <1>t DEF Goto
  <2>2. ~Working(t)'  BY <1>2, <2>1 DEF Working
  <2> QED  BY <1>2, <2>1, <2>2, RunsKept
<1>3. ASSUME NEW s \in Sensors, NEW c \in Commands, SensorRequest(s, c) PROVE RunsRight'
  BY <1>2, <1>3, <1>t DEF SensorRequest, Working, memory, world
<1>4. ASSUME NEW s \in Sensors, SensorRefused(s) \/ SensorGateClosed(s) \/ SensorBlocked(s)
      PROVE  RunsRight'
  BY <1>1, <1>4, <1>t DEF SensorRefused, SensorGateClosed, SensorBlocked, Working, memory, world
<1>5. ASSUME NEW s \in Sensors, SensorOn(s) PROVE RunsRight'
  BY <1>2, <1>5, <1>t DEF SensorOn, Working, world
<1>6. ASSUME NEW t \in Tasks, GateOpen(t) PROVE RunsRight'
  BY <1>2, <1>6, <1>t DEF GateOpen, Working, memory, world
<1>7. ASSUME NEW t \in Tasks, Persist(t) PROVE RunsRight'
  BY <1>1, <1>7 DEF Persist, Working, memory, world
<1>8. ASSUME CheckRuntimes \/ ForceStopMoot \/ CheckCooldown \/ ClearCooldown
             \/ ResumeGateClosed \/ ResumeBlocked \/ PersistResume
      PROVE  RunsRight'
  BY <1>2, <1>8, <1>t DEF CheckRuntimes, ForceStopMoot, CheckCooldown, ClearCooldown,
     ResumeGateClosed, ResumeBlocked, PersistResume, Working, memory, world
<1>9. ASSUME Tick PROVE RunsRight'
  <2>1. /\ \A u \in Sensors : pc'[u] = pc[u]
        /\ \/ pc'[Enforcer] = pc[Enforcer]
           \/ pc[Enforcer] = "sleep" /\ pc'[Enforcer] = "runtimes"
        /\ UNCHANGED <<enabled, is_running, power, job, todo, succ>>
    <3>1. \A u \in Sensors : pc'[u] = pc[u]  BY <1>9, <1>t DEF Tick
    <3>2. pc'[Enforcer] = IF pc[Enforcer] = "sleep" THEN "runtimes" ELSE pc[Enforcer]
      BY <1>9, <1>t DEF Tick
    <3>3. \/ pc'[Enforcer] = pc[Enforcer]
          \/ pc[Enforcer] = "sleep" /\ pc'[Enforcer] = "runtimes"
      BY <3>2
    <3>4. UNCHANGED <<enabled, is_running, power, job, todo, succ>>  BY <1>9 DEF Tick
    <3> QED  BY <3>1, <3>3, <3>4
  <2>2. CASE pc'[Enforcer] = pc[Enforcer]
    BY <1>t, <2>1, <2>2 DEF RunsRight, Right, Sending, Notifying, Stopping, Working, AllAt
  <2>3. CASE pc[Enforcer] = "sleep" /\ pc'[Enforcer] = "runtimes"
    <3>1. ~Working(Enforcer) /\ ~Working(Enforcer)'  BY <2>3 DEF Working
    <3> QED  BY <1>t, <2>1, <3>1, RunsKept
  <2> QED  BY <2>1, <2>2, <2>3
\* The beginning of a command.
<1>10. ASSUME NEW s \in Sensors, SensorOff(s) \/ SensorAdmitted(s) PROVE RunsRight'
  <2>1. /\ s \in Tasks
        /\ InLock(s) \/ LockFree
        /\ ~Working(s) /\ UNCHANGED <<enabled, is_running, power>>
        /\ StartCommand(s, job[s], Automated)
    BY <1>10, <1>t DEF SensorOff, SensorAdmitted, InLock, Working, Eligible, memory, world
  <2>2. AllAt(Level(is_running))  BY <2>1, OnlyOneWorks
  <2>3. job[s] \in Jobs /\ job[s].source # "protection"
    BY <1>t, <2>1 DEF Base, SourcesRight
  <2>4. AllAt(Level(is_running \/ job[s].source = "protection"))
    BY <2>2, <2>3 DEF Level, AllAt
  <2> QED  BY <2>1, <2>3, <2>4, RunsStart
<1>11. ASSUME Resume PROVE RunsRight'
  <2> DEFINE j == Job("on", "sensor", "artwork")
  <2>1. /\ InLock(Enforcer) /\ ~Working(Enforcer)
        /\ UNCHANGED <<enabled, is_running, power>> /\ StartCommand(Enforcer, j, Automated)
    BY <1>11 DEF Resume, InLock, Working, Eligible, world
  <2>2. AllAt(Level(is_running))  BY <1>t, <2>1, OnlyOneWorks
  <2>3. j \in Jobs /\ j.source # "protection"  BY DEF Job, Jobs, Commands
  <2>4. AllAt(Level(is_running \/ j.source = "protection"))
    BY <2>2, <2>3 DEF Level, AllAt
  <2> HIDE DEF j
  <2> QED  BY <1>t, <2>1, <2>3, <2>4, RunsStart
<1>12. ASSUME PersistForceStop PROVE RunsRight'
  <2> DEFINE j == Job("off", "protection", "artwork")
  <2>1. /\ InLock(Enforcer) /\ pc[Enforcer] = "write_stop"
        /\ UNCHANGED <<enabled, is_running, power>> /\ StartCommand(Enforcer, j, Automated)
    BY <1>12 DEF PersistForceStop, InLock, Eligible, memory, world
  <2>2. AllAt("on")  BY <1>t, <2>1 DEF RunsRight, Right, Stopping
  <2>3. j \in Jobs /\ j.source = "protection"  BY DEF Job, Jobs, Commands
  <2>4. AllAt(Level(is_running \/ j.source = "protection"))
    BY <2>2, <2>3 DEF Level, AllAt
  <2> HIDE DEF j
  <2> QED  BY <1>t, <2>1, <2>3, <2>4, RunsStart
\* The devices answer.
<1>13. ASSUME NEW t \in Tasks, NEW d \in todo[t], DeviceObeys(t, d) PROVE RunsRight'
  <2>1. /\ pc[t] = "send" /\ pc' = pc /\ job' = job /\ UNCHANGED <<enabled, is_running>>
        /\ power' = [power EXCEPT ![d] = job[t].cmd]
        /\ todo'[t] = todo[t] \ {d} /\ succ'[t] = TRUE
    BY <1>13, <1>t DEF DeviceObeys, memory
  <2>2. Sending(t)  BY DEF RunsRight, Right
  <2>3. d \in Automated /\ d \in Devices  BY <1>t, <2>1, <2>2 DEF Sending
  <2>4. \A e \in Devices : power'[e] = IF e = d THEN job[t].cmd ELSE power[e]
    BY <1>t, <2>1
  <2>5. Sending(t)'
    <3>1. todo'[t] \subseteq Automated /\ d \notin todo'[t]  BY <2>1, <2>2 DEF Sending
    <3>2. \A e \in Automated \ todo'[t] : power'[e] = job'[t].cmd
      BY <1>t, <2>1, <2>2, <2>4 DEF Sending
    <3>3. \A e \in todo'[t] : power'[e] = Level(is_running' \/ job'[t].source = "protection")
      BY <1>t, <2>1, <2>2, <2>4, <3>1 DEF Sending
    <3>4. succ'[t] <=> todo'[t] # Automated  BY <2>1, <2>3, <3>1
    <3> QED  BY <3>1, <3>2, <3>3, <3>4 DEF Sending
  <2>6. Right(t)' /\ Working(t)'  BY <2>1, <2>5 DEF Right, Notifying, Stopping, Working
  <2>7. \A e \in Devices \ Automated : power'[e] = "off"  BY <2>3, <2>4 DEF RunsRight
  <2>8. InLock(t)  BY <1>t, <2>1 DEF InLock
  <2> QED  BY <2>1, <2>6, <2>7, <2>8, RunsByOne DEF RunsRight
<1>14. ASSUME NEW t \in Tasks, NEW d \in todo[t], DeviceFails(t, d) PROVE RunsRight'
  <2>1. failures' = failures + 1 /\ failures = 0 /\ failures' = 0
    BY <1>14 DEF DeviceFails, Clean
  <2> QED  BY <2>1
\* The command is over, with the run as it was,
<1>15. ASSUME NEW t \in Tasks, InLock(t), EndCommand(t), UNCHANGED <<enabled, power>>,
              Automated = {} => ~is_running', AllAt(Level(is_running'))
       PROVE  RunsRight'
  <2>1. /\ pc'[t] \in {"idle", "cooldowns", "persist_resume"}
        /\ \A u \in Tasks \ {t} : pc'[u] = pc[u]
    BY <1>15, <1>t DEF EndCommand, Goto
  <2>2. Right(t)'  BY <2>1 DEF Right, Sending, Notifying, Stopping
  <2>3. AllAt(Level(is_running))'  BY <1>15 DEF AllAt
  <2> QED  BY <1>15, <2>1, <2>2, <2>3, RunsByOne DEF RunsRight
<1>16. ASSUME NEW t \in Tasks, CommandFailed(t) PROVE RunsRight'
  <2>1. /\ InLock(t) /\ pc[t] = "send" /\ todo[t] = {} /\ ~succ[t] /\ EndCommand(t)
        /\ UNCHANGED <<enabled, power, is_running>>
    BY <1>16, <1>t DEF CommandFailed, InLock, memory, world
  <2>2. Automated = {}  BY <2>1 DEF RunsRight, Right, Sending
  <2> QED  BY <1>15, <2>1, <2>2 DEF AllAt, RunsRight
<1>17. ASSUME NEW t \in Tasks, CommandSent(t) PROVE RunsRight'
  <2>1. /\ InLock(t) /\ pc[t] = "send" /\ todo[t] = {} /\ succ[t] /\ pc'[t] = "notify"
        /\ \A u \in Tasks \ {t} : pc'[u] = pc[u]
        /\ UNCHANGED <<enabled, power, is_running, job>>
    BY <1>17, <1>t DEF CommandSent, Goto, InLock, memory, world
  <2>2. Automated # {} /\ AllAt(job[t].cmd)  BY <2>1 DEF RunsRight, Right, Sending, AllAt
  <2>3. Right(t)' /\ Working(t)'
    BY <2>1, <2>2 DEF Right, Sending, Notifying, Stopping, Working, AllAt
  <2> QED  BY <2>1, <2>3, RunsByOne DEF RunsRight
\* or with the run begun or ended.
<1>n. ASSUME NEW t \in Tasks, pc[t] = "notify"
      PROVE  InLock(t) /\ Automated # {} /\ AllAt(job[t].cmd)
  BY <1>n, <1>t DEF InLock, RunsRight, Right, Notifying
<1>18. ASSUME NEW t \in Tasks, NotifyStarted(t) PROVE RunsRight'
  <2>1. /\ pc[t] = "notify" /\ job[t].cmd = "on" /\ EndCommand(t) /\ UNCHANGED <<enabled, power>>
    BY <1>18 DEF NotifyStarted, world
  <2>2. is_running'  BY <1>18, <1>e DEF NotifyStarted
  <2>3. AllAt(Level(is_running'))  BY <1>n, <2>1, <2>2 DEF Level
  <2> QED  BY <1>15, <1>n, <2>1, <2>3
<1>19. ASSUME NEW t \in Tasks, NotifyStoppedNothing(t) PROVE RunsRight'
  <2>1. /\ pc[t] = "notify" /\ job[t].cmd = "off" /\ EndCommand(t) /\ ~is_running
        /\ UNCHANGED <<enabled, power, is_running>>
    BY <1>19, <1>e DEF NotifyStoppedNothing, memory, world
  <2>2. AllAt(Level(is_running'))  BY <1>n, <2>1 DEF Level
  <2> QED  BY <1>15, <1>n, <2>1, <2>2
<1>20. ASSUME NEW t \in Tasks, NotifyStopped(t) PROVE RunsRight'
  <2>1. /\ pc[t] = "notify" /\ job[t].cmd = "off" /\ ~is_running' /\ pc'[t] = "persist"
        /\ \A u \in Tasks \ {t} : pc'[u] = pc[u]
        /\ UNCHANGED <<enabled, power>>
    BY <1>20, <1>t DEF NotifyStopped, EndRun, Goto, world
  <2>2. Right(t)'  BY <2>1 DEF Right, Sending, Notifying, Stopping
  <2>3. AllAt(Level(is_running))'  BY <1>n, <2>1 DEF Level, AllAt
  <2> QED  BY <1>n, <2>1, <2>2, <2>3, RunsByOne DEF RunsRight
<1>21. ASSUME ForceStop PROVE RunsRight'
  <2>1. /\ LockFree /\ pc[Enforcer] = "want_stop" /\ is_running /\ ~is_running'
        /\ pc'[Enforcer] = "persist_stop" /\ \A u \in Tasks \ {Enforcer} : pc'[u] = pc[u]
        /\ UNCHANGED <<enabled, power>>
    BY <1>21, <1>t DEF ForceStop, EndRun, Goto, world
  <2>2. AllAt("on")
    <3>1. Enforcer \in Tasks /\ ~Working(Enforcer)  BY <1>t, <2>1 DEF Working
    <3> QED  BY <2>1, <3>1, OnlyOneWorks DEF Level
  <2>3. Right(Enforcer)' /\ Working(Enforcer)'
    BY <2>1, <2>2 DEF Right, Sending, Notifying, Stopping, Working, AllAt
  <2> QED  BY <1>t, <2>1, <2>3, RunsByOne DEF RunsRight
<1>22. ASSUME Crash \/ Shutdown \/ ToggleEnabled PROVE RunsRight'
  <2>1. (restarts = 0 /\ restarts' = 0 /\ restarts' = restarts + 1)
        \/ (toggles = 0 /\ toggles' = 0 /\ toggles' = toggles + 1)
    BY <1>22 DEF Crash, Shutdown, ToggleEnabled, Clean
  <2> QED  BY <2>1
<1>23. CASE UNCHANGED vars
  BY <1>23 DEF vars, memory, world, tasks, RunsRight, Right, Sending, Notifying, Stopping,
     Working, AllAt
<1>24. ASSUME NEW t \in Tasks, Capture(t) PROVE RunsRight'
  <2>1. /\ InLock(t) /\ Goto(t, WriteOf(pc[t])) /\ pc[t] \in {"persist", "persist_stop",
                                                              "persist_resume"}
        /\ UNCHANGED <<enabled, is_running, power, job, todo, succ>>
    BY <1>24, <1>t DEF Capture, InLock, memory, world
  <2>2. CASE pc[t] = "persist_stop"
    <3>1. pc'[t] = "write_stop" /\ \A u \in Tasks \ {t} : pc'[u] = pc[u]
      BY <1>t, <2>1, <2>2 DEF Goto, WriteOf
    <3>2. AllAt("on")  BY <2>2 DEF RunsRight, Right, Stopping
    <3>3. Right(t)' /\ Working(t)'
      BY <2>1, <3>1, <3>2 DEF Right, Sending, Notifying, Stopping, Working, AllAt
    <3> QED  BY <2>1, <3>1, <3>3, RunsByOne DEF RunsRight
  <2>3. CASE pc[t] # "persist_stop"
    <3>1. ~Working(t) /\ WriteOf(pc[t]) \notin {"send", "notify", "persist_stop", "write_stop"}
      BY <2>1, <2>3 DEF Working, WriteOf
    <3> QED  BY <1>2, <2>1, <3>1
  <2> QED  BY <2>2, <2>3
<1> QED
  BY <1>t, <1>24, <1>3, <1>4, <1>5, <1>6, <1>7, <1>8, <1>9, <1>10, <1>11, <1>12, <1>13, <1>14, <1>16,
     <1>17, <1>18, <1>19, <1>20, <1>21, <1>22, <1>23
  DEF Next, SensorStep, EnforcerStep, CommandStep

\* No step takes a failure, a restart or a switch of protection back.
LEMMA Counted ==
  ASSUME [Next]_vars
  PROVE  /\ failures' = failures \/ failures' = failures + 1
         /\ restarts' = restarts \/ restarts' = restarts + 1
         /\ toggles' = toggles \/ toggles' = toggles + 1
<1>1. CASE UNCHANGED vars  BY <1>1 DEF vars, bounds
<1>2. ASSUME NEW s \in Sensors, SensorStep(s) PROVE UNCHANGED bounds
  BY <1>2 DEF SensorStep, SensorRequest, SensorRefused, SensorOn, SensorOff,
     SensorGateClosed, SensorAdmitted, SensorBlocked, bounds
<1>3. ASSUME NEW o \in Operators, OperatorStep(o) PROVE UNCHANGED bounds
  BY <1>3 DEF OperatorStep, OperatorOn, OperatorOff, OperatorBlocked, SetGate, bounds
<1>4. ASSUME NEW t \in Sensors \cup {Enforcer}, GateOpen(t) PROVE UNCHANGED bounds
  BY <1>4 DEF GateOpen, bounds
<1>s. ASSUME NEW t \in Tasks, Settle(t)
      PROVE  /\ failures' = failures \/ failures' = failures + 1
             /\ UNCHANGED <<restarts, toggles>>
  BY <1>s DEF Settle, bounds
<1>5. ASSUME NEW t \in Tasks, CommandStep(t)
      PROVE  /\ failures' = failures \/ failures' = failures + 1
             /\ UNCHANGED <<restarts, toggles>>
  BY <1>5, <1>s DEF CommandStep, DeviceObeys, DeviceFails, CommandFailed, CommandSent, NotifyStarted,
     NotifyStopped, NotifyStoppedNothing, Capture, Persist, bounds
<1>6. CASE EnforcerStep
  <2>1. CASE PersistForceStop \/ PersistResume
    BY <2>1, <1>s DEF PersistForceStop, PersistResume, Tasks
  <2>2. CASE ~(PersistForceStop \/ PersistResume)
    <3>1. UNCHANGED bounds
      BY <1>6, <2>2 DEF EnforcerStep, CheckRuntimes, ForceStop, ForceStopMoot,
         CheckCooldown, ClearCooldown, ResumeGateClosed, Resume, ResumeBlocked, bounds
    <3> QED  BY <3>1 DEF bounds
  <2> QED  BY <2>1, <2>2
<1>7. CASE Tick  BY <1>7 DEF Tick, bounds
<1>8. CASE Crash  BY <1>8 DEF Crash
<1>9. CASE Shutdown  BY <1>9 DEF Shutdown
<1>10. CASE ToggleEnabled  BY <1>10 DEF ToggleEnabled
<1> QED
  BY <1>1, <1>2, <1>3, <1>4, <1>5, <1>6, <1>7, <1>8, <1>9, <1>10 DEF Next, bounds

\* Without operators, and while no device has failed, the service has not been restarted
\* and protection not been switched, is_running says at rest whether the artwork is on
\* (docs/admin-guide/protection.md:92; execute_control_command, notify_started,
\* notify_stopped, _force_stop_locked).
THEOREM RunningIffOnCorrect == Operators = {} => (Spec => []RunningIffOn)
<1> SUFFICES ASSUME Operators = {} PROVE Spec => []RunningIffOn
  OBVIOUS
<1>1. Init => (Clean => RunsRight)
  <2> SUFFICES ASSUME Init PROVE RunsRight  OBVIOUS
  <2>1. \A t \in Tasks : ~Working(t) /\ Right(t)
    BY DEF Init, AllIdle, Working, Right, Sending, Notifying, Stopping
  <2>2. AllAt("off") /\ ~is_running /\ enabled /\ \A d \in Devices : power[d] = "off"
    BY DevicesAssumption DEF Init, AllAt
  <2> QED  BY <2>1, <2>2 DEF RunsRight, Level
<1>2. Base /\ FoundInv /\ (Clean => RunsRight) /\ [Next]_vars => (Clean => RunsRight)'
  <2> SUFFICES ASSUME Base, FoundInv, Clean => RunsRight, [Next]_vars, Clean'
               PROVE  RunsRight'
    OBVIOUS
  <2>1. failures \in Nat /\ restarts \in Nat /\ toggles \in Nat
    BY DEF Base, TypeOK, BoundsTyped
  <2>2. Clean
    <3>1. /\ failures' = failures \/ failures' = failures + 1
          /\ restarts' = restarts \/ restarts' = restarts + 1
          /\ toggles' = toggles \/ toggles' = toggles + 1
      BY Counted
    <3> QED  BY <2>1, <3>1 DEF Clean
  <2> QED  BY <2>2, RunsStep
<1>3. Base /\ (Clean => RunsRight) => RunningIffOn
  <2> SUFFICES ASSUME RunsRight, Quiet PROVE is_running <=> \E d \in Devices : power[d] = "on"
    BY DEF RunningIffOn, Clean
  <2>1. \A t \in Tasks : ~Working(t)  BY DEF Quiet, AllIdle, Working
  <2>2. \A d \in Automated : d \in Devices /\ power[d] = Level(is_running)
    BY <2>1, DevicesAssumption DEF RunsRight, AllAt
  <2> QED  BY <2>2 DEF RunsRight, Level
<1>4. QED
  BY <1>1, <1>2, <1>3, FoundInvariant, PTL DEF Spec
-----------------------------------------------------------------------------
(* What is saved                                                           *)

\* While no write fails: only the row can be outdated, and then somebody in the lock is
\* about to write it; a first row is inserted while there is none.
SavedInv ==
  failures = 0 =>
    /\ outdated \subseteq {NoTask}
    /\ NoTask \in outdated
         => \E t \in Tasks : pc[t] \in {"persist", "persist_stop", "write", "write_stop"}
    /\ inserting \subseteq Writers
    /\ inserting # {} => ~recorded

\* A step of a task that does not write.
LEMMA SavedByMove ==
  ASSUME TypeOK, SavedInv, NEW t \in Tasks, NEW label, Goto(t, label),
         pc[t] \notin {"persist", "persist_stop"} \cup WritePC, label \notin WritePC,
         UNCHANGED <<failures, outdated, recorded, inserting>>
  PROVE  SavedInv'
<1>1. Writers' = Writers /\ \A u \in Tasks \ {t} : pc'[u] = pc[u]
  BY MovesWriters
<1>2. ASSUME NEW u \in Tasks, pc[u] \in {"persist", "persist_stop", "write", "write_stop"}
      PROVE  pc'[u] \in {"persist", "persist_stop", "write", "write_stop"}
  BY <1>1, <1>2 DEF WritePC
<1>3. QED
  BY <1>1, <1>2 DEF SavedInv

LEMMA SavedByEnd ==
  ASSUME TypeOK, SavedInv, NEW t \in Tasks, EndCommand(t),
         pc[t] \notin {"persist", "persist_stop"} \cup WritePC,
         UNCHANGED <<failures, outdated, recorded, inserting>>
  PROVE  SavedInv'
BY EndCommandMoves, SavedByMove

LEMMA SavedByStay ==
  ASSUME SavedInv, UNCHANGED <<pc, outdated, recorded, inserting>>,
         failures \in Nat, failures' = failures \/ failures' = failures + 1
  PROVE  SavedInv'
<1>1. Writers' = Writers /\ (failures' = 0 => failures = 0)
  BY DEF Writers
<1>2. QED
  BY <1>1 DEF SavedInv

\* The end of a run, with nobody inside who writes.
LEMMA SavedByRunEnd ==
  ASSUME Operators = {}, Base, SavedInv, NEW t \in Tasks, InLock(t) \/ LockFree,
         pc[t] \notin WritePC, NEW label \in {"persist", "persist_stop"}, Goto(t, label),
         outdated' = Writers \cup {NoTask}, UNCHANGED <<failures, recorded, inserting>>
  PROVE  SavedInv'
<1>1. Writers' = Writers /\ pc'[t] = label
  BY MovesWriters DEF Base, WritePC
<1>2. Writers = {}
  BY OnlyOneInside DEF Base, Writers, WritePC, Tasks
<1>3. QED
  BY <1>1, <1>2 DEF SavedInv

\* A task takes what it will write.
LEMMA SavedByCapture ==
  ASSUME Operators = {}, Base, SavedInv, NEW t \in Tasks, Capture(t)
  PROVE  SavedInv'
<1>1. /\ Goto(t, WriteOf(pc[t])) /\ WriteOf(pc[t]) \in WritePC
      /\ pc[t] \in {"persist", "persist_stop"} => WriteOf(pc[t]) \in {"write", "write_stop"}
      /\ UNCHANGED <<failures, outdated, recorded>>
      /\ inserting' = IF recorded THEN inserting ELSE inserting \cup {t}
      /\ pc[t] \notin {"write", "write_stop"}
  BY DEF Capture, WriteOf, WritePC, bounds
<1>2. /\ Writers' = Writers \cup {t} /\ pc'[t] = WriteOf(pc[t])
      /\ \A u \in Tasks \ {t} : pc'[u] = pc[u]
  BY <1>1, MovesWriters DEF Base
<1>3. ASSUME NEW u \in Tasks, pc[u] \in {"persist", "persist_stop", "write", "write_stop"}
      PROVE  pc'[u] \in {"persist", "persist_stop", "write", "write_stop"}
  BY <1>1, <1>2, <1>3
<1>4. QED
  BY <1>1, <1>2, <1>3 DEF SavedInv

\* A write is over: it was the only one, and nobody has inserted a row meanwhile.
LEMMA SavedBySettle ==
  ASSUME Operators = {}, Base, SavedInv, NEW t \in Tasks, pc[t] \in WritePC, Settle(t),
         NEW label, Goto(t, label), label \notin WritePC
  PROVE  SavedInv'
<1>1. InLock(t)
  BY DEF InLock, WritePC, Tasks
<1>2. /\ Writers' = Writers \ {t} /\ Writers \subseteq {t}
  <2>1. Writers' = Writers \ {t}
    BY MovesWriters DEF Base
  <2>2. Writers \subseteq {t}
    BY <1>1, OnlyOneInside DEF Base, Writers, WritePC, Tasks
  <2> QED  BY <2>1, <2>2
<1>3. CASE failures' # 0
  BY <1>3 DEF SavedInv
<1>4. CASE failures' = 0
  <2>1. failures \in Nat
    BY DEF Base, TypeOK, BoundsTyped
  <2>2. \/ Settled(t, TRUE) /\ failures' = failures
        \/ t \in inserting /\ recorded /\ failures' = failures
        \/ failures' = failures + 1
    BY DEF Settle, bounds
  <2>3. failures = 0 /\ failures' # failures + 1
    <3>1. failures' = failures \/ failures' = failures + 1
      BY <2>2
    <3> QED  BY <1>4, <2>1, <3>1
  <2>4. /\ outdated \subseteq {NoTask} /\ inserting \subseteq {t}
        /\ t \in inserting => ~recorded
    BY <1>2, <2>3 DEF SavedInv
  <2>5. Settled(t, TRUE)
    BY <2>2, <2>3, <2>4
  <2>6. outdated' = {}
    <3>1. t # NoTask
      BY TasksAssumption
    <3>2. t \notin outdated
      BY <2>4, <3>1
    <3>3. outdated' = outdated \ {NoTask}
      BY <2>5, <3>2 DEF Settled
    <3> QED  BY <2>4, <3>3
  <2>7. inserting' = {}
    BY <2>4, <2>5 DEF Settled
  <2> QED  BY <2>6, <2>7 DEF SavedInv
<1>5. QED
  BY <1>3, <1>4

LEMMA SavedStep ==
  ASSUME Operators = {}, Base, SavedInv, [Next]_vars
  PROVE  SavedInv'
<1>t. /\ TypeOK /\ failures \in Nat /\ Tasks = Sensors \cup {Enforcer}
  BY DEF Base, TypeOK, BoundsTyped, Tasks
<1>1. ASSUME NEW s \in Sensors, SensorStep(s) PROVE SavedInv'
  <2>1. ASSUME NEW c \in Commands, SensorRequest(s, c) PROVE SavedInv'
    BY <1>t, <2>1, SavedByMove DEF SensorRequest, WritePC, store, bounds
  <2>2. CASE SensorRefused(s) \/ SensorGateClosed(s) \/ SensorBlocked(s)
    BY <1>t, <2>2, SavedByEnd DEF SensorRefused, SensorGateClosed, SensorBlocked, WritePC,
       store, bounds
  <2>3. CASE SensorOn(s)
    BY <1>t, <2>3, SavedByMove DEF SensorOn, WritePC, store, bounds
  <2>4. CASE SensorOff(s) \/ SensorAdmitted(s)
    BY <1>t, <2>4, SavedByMove DEF SensorOff, SensorAdmitted, StartCommand, WritePC,
       store, bounds
  <2> QED  BY <1>1, <2>1, <2>2, <2>3, <2>4 DEF SensorStep
<1>2. ASSUME NEW t \in Tasks, GateOpen(t) PROVE SavedInv'
  BY <1>t, <1>2, SavedByMove DEF GateOpen, WritePC, store, bounds
<1>3. ASSUME NEW t \in Tasks, NEW d \in todo[t], DeviceObeys(t, d) \/ DeviceFails(t, d)
      PROVE  SavedInv'
  BY <1>t, <1>3, SavedByStay DEF DeviceObeys, DeviceFails, store, bounds
<1>4. ASSUME NEW t \in Tasks, CommandFailed(t) \/ NotifyStarted(t) \/ NotifyStoppedNothing(t)
      PROVE  SavedInv'
  BY <1>t, <1>4, SavedByEnd DEF CommandFailed, NotifyStarted, NotifyStoppedNothing, WritePC,
     store, bounds
<1>5. ASSUME NEW t \in Tasks, CommandSent(t) PROVE SavedInv'
  BY <1>t, <1>5, SavedByMove DEF CommandSent, WritePC, store, bounds
<1>6. ASSUME NEW t \in Tasks, NotifyStopped(t) PROVE SavedInv'
  <2>1. /\ InLock(t) /\ pc[t] \notin WritePC /\ Goto(t, "persist")
        /\ outdated' = Writers \cup {NoTask} /\ UNCHANGED <<failures, recorded, inserting>>
    BY <1>t, <1>6 DEF NotifyStopped, EndRun, InLock, WritePC, bounds
  <2> QED  BY <2>1, SavedByRunEnd
<1>7. ASSUME NEW t \in Tasks, Persist(t) PROVE SavedInv'
  <2>1. PICK label \in {"idle", "cooldowns", "persist_resume"} :
          Goto(t, label) /\ label \notin WritePC
    BY <1>7, EndCommandMoves DEF Persist
  <2> QED  BY <1>7, <2>1, SavedBySettle DEF Persist, WritePC
<1>8. CASE EnforcerStep
  <2>e. Enforcer \in Tasks
    BY <1>t
  <2>1. CASE ForceStop
    <3>1. /\ LockFree /\ pc[Enforcer] \notin WritePC /\ Goto(Enforcer, "persist_stop")
          /\ outdated' = Writers \cup {NoTask} /\ UNCHANGED <<failures, recorded, inserting>>
      BY <2>1 DEF ForceStop, EndRun, WritePC, bounds
    <3> QED  BY <2>e, <3>1, SavedByRunEnd
  <2>2. CASE PersistForceStop
    <3>1. /\ Goto(Enforcer, "send") /\ Settle(Enforcer) /\ pc[Enforcer] \in WritePC
          /\ "send" \notin WritePC
      BY <2>2 DEF PersistForceStop, StartCommand, WritePC
    <3> QED  BY <2>e, <3>1, SavedBySettle
  <2>3. CASE PersistResume
    <3>1. /\ Goto(Enforcer, "sleep") /\ Settle(Enforcer) /\ pc[Enforcer] \in WritePC
          /\ "sleep" \notin WritePC
      BY <2>3 DEF PersistResume, WritePC
    <3> QED  BY <2>e, <3>1, SavedBySettle
  <2>4. CASE CheckRuntimes \/ ForceStopMoot \/ CheckCooldown \/ ClearCooldown
             \/ ResumeGateClosed \/ ResumeBlocked \/ Resume
    <3>1. \E label \in {"want_stop", "cooldowns", "want_resume", "sleep", "ask_gate",
                        "persist_resume", "send"} : Goto(Enforcer, label)
      BY <2>4 DEF CheckRuntimes, ForceStopMoot, CheckCooldown, ClearCooldown,
         ResumeGateClosed, ResumeBlocked, Resume, StartCommand
    <3>2. /\ pc[Enforcer] \in {"runtimes", "want_stop", "cooldowns", "want_resume", "ask_gate",
                               "gate_open"}
          /\ UNCHANGED <<failures, outdated, recorded, inserting>>
      BY <2>4 DEF CheckRuntimes, ForceStopMoot, CheckCooldown, ClearCooldown,
         ResumeGateClosed, ResumeBlocked, Resume, store, bounds
    <3> QED  BY <1>t, <2>e, <3>1, <3>2, SavedByMove DEF WritePC
  <2> QED  BY <1>8, <2>1, <2>2, <2>3, <2>4 DEF EnforcerStep
<1>9. CASE Tick
  <2>1. \A u \in Tasks : pc'[u] = pc[u] \/ (pc[u] = "sleep" /\ pc'[u] = "runtimes")
    BY <1>9, <1>t DEF Tick, TypeOK, TasksTyped
  <2>2. Writers' = Writers
    BY <2>1 DEF Writers, WritePC
  <2>3. UNCHANGED <<failures, outdated, recorded, inserting>>
    BY <1>9 DEF Tick, bounds
  <2> QED  BY <2>1, <2>2, <2>3 DEF SavedInv
<1>10. CASE Crash \/ Shutdown
  <2>1. outdated' = {} /\ inserting' = {}
    BY <1>10 DEF Crash, Shutdown, TasksLost
  <2> QED  BY <2>1 DEF SavedInv
<1>11. CASE ToggleEnabled \/ UNCHANGED vars
  BY <1>t, <1>11, SavedByStay DEF ToggleEnabled, vars, tasks, store, bounds
<1>12. QED
  BY <1>t, <1>1, <1>2, <1>3, <1>4, <1>5, <1>6, <1>7, <1>8, <1>9, <1>10, <1>11, SavedByCapture
  DEF Next, CommandStep

\* While nobody is inside the lock, everything is saved.
LEMMA UndisturbedSaved == Spec => [](Undisturbed => ~Unsaved)
<1>1. CASE Operators = {}
  <2>1. Init => SavedInv
    BY DEF Init, SavedInv
  <2>2. Base /\ SavedInv /\ [Next]_vars => SavedInv'
    BY <1>1, SavedStep
  <2>3. Base /\ SavedInv => (Undisturbed => ~Unsaved)
    <3> SUFFICES ASSUME Base, SavedInv, Undisturbed PROVE ~Unsaved
      OBVIOUS
    <3>1. \A t \in Tasks : pc[t] \notin {"persist", "persist_stop", "write", "write_stop"}
      BY <1>1, TasksAssumption DEF Undisturbed, Base, LockDiscipline, InLock, Tasks
    <3> QED  BY <3>1 DEF SavedInv, Undisturbed, Unsaved
  <2>4. CooldownInv => SourcesRight
    BY DEF CooldownInv
  <2>5. TypeOK /\ LockDiscipline /\ SourcesRight => Base
    BY DEF Base
  <2> QED
    BY <2>1, <2>2, <2>3, <2>4, <2>5, TypeCorrect, LockCorrect, CooldownInvariant, PTL DEF Spec
<1>2. CASE Operators # {}
  <2>1. Undisturbed => ~Unsaved
    BY <1>2 DEF Undisturbed
  <2> QED  BY <2>1, PTL
<1>3. QED
  BY <1>1, <1>2

\* A row that is not outdated holds what memory holds.
LEMMA NotOutdated ==
  ASSUME LedgerInv, ~Unsaved
  PROVE  UsageIn(db) = UsedNow /\ CoolingOf(db.cooldown) = CoolingOf(cooldown)
<1>1. NoTask \in (Writers \cup {NoTask}) \ outdated /\ CopyOf(db, writing, NoTask) = db
  BY DEF Unsaved, CopyOf
<1>2. QED
  BY <1>1 DEF LedgerInv, BooksRight, Holds

\* A crash forgets and revives no cooldown, unless the books of the last run are unsaved:
\* without operators and failed writes they never are while the lock is free
\* (_persist_state, _force_stop_locked, _auto_resume_locked).
THEOREM CooldownDurableCorrect == Spec => []CooldownDurable
<1>1. LedgerInv /\ (Undisturbed => ~Unsaved) => CooldownDurable
  BY NotOutdated DEF CooldownDurable
<1>2. QED
  BY <1>1, LedgerInvariant, UndisturbedSaved, PTL

\* And a crash gives no artwork its budget back (_persist_state, notify_stopped).
THEOREM UsageDurableCorrect == Spec => []UsageDurable
<1>1. LedgerInv /\ (Undisturbed => ~Unsaved) => UsageDurable
  BY NotOutdated DEF UsageDurable
<1>2. QED
  BY <1>1, LedgerInvariant, UndisturbedSaved, PTL
=============================================================================
