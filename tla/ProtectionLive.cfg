SPECIFICATION FairSpec
CONSTANTS
  Sensors = {s1, s2}
  Operators = {}
  Enforcer = enforcer
  NoTask = nobody
  Devices = {d1}
  Automated = {d1}
  MinRuntime = 1
  MaxRuntime = 2
  Budget = 2
  Window = 3
  Cooldown = 1
  ForceCompletion = FALSE
  OperatorTargets = {}
  AgeCap = 3
  MaxFailures = 1
  MaxRestarts = 0
  MaxToggles = 0
PROPERTIES RunsEnd RequestsAnswered WantedResumes
