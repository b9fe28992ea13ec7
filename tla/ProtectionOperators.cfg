SPECIFICATION Spec
CONSTANTS
  Sensors = {s1}
  Operators = {o1}
  Enforcer = enforcer
  NoTask = nobody
  Devices = {d1}
  Automated = {d1}
  MinRuntime = 1
  MaxRuntime = 2
  Budget = 2
  Window = 3
  Cooldown = 1
  ForceCompletion = FALSE
  OperatorTargets <- WebOnly
  AgeCap = 2
  MaxFailures = 0
  MaxRestarts = 1
  MaxToggles = 0
INVARIANTS SensorOnOutsideCooldown
PROPERTIES KeepsLedger
