SPECIFICATION FairSpec
CONSTANTS
  webOn = webOn
  webOff = webOff
  fastOff = fastOff
  k1 = k1
  None = None
  Commands = {webOn, webOff}
  Direction <- Asks
  Enforced = {webOn, webOff}
  Corrections = {k1}
  ManagerCooldown = TRUE
  Overlap = TRUE
  MaxFailures = 1
  MaxUpsets = 1
INVARIANTS OneEnforcer
PROPERTIES EnforcementCorrects RefusedIsRetried CommandsReturn StateCatchesUp
