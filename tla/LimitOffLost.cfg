SPECIFICATION FairSpec
CONSTANTS
  Sensors = {s1}
  Operators = {}
  Enforcer = enforcer
  NoTask = nobody
  Devices = {d1}
  Automated = {d1}
  MinRuntime = 1
  MaxRuntime = 2
  Budget = 3
  Window = 4
  Cooldown = 2
  ForceCompletion = FALSE
  OperatorTargets = {}
  AgeCap = 4
  MaxFailures = 1
  MaxRestarts = 0
  MaxToggles = 0
PROPERTIES LimitTurnsOff
