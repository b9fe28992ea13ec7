SPECIFICATION Spec
CONSTANTS
  webOn = webOn
  webOff = webOff
  fastOff = fastOff
  k1 = k1
  None = None
  Commands = {webOn, fastOff}
  Direction <- Asks
  Enforced = {webOn}
  Corrections = {k1}
  ManagerCooldown = FALSE
  Overlap = TRUE
  MaxFailures = 0
  MaxUpsets = 0
INVARIANT EnforcesNewest
