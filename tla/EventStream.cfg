SPECIFICATION FairSpec
CONSTANTS
  Clients = {c1}
  Artworks = {a1}
  Devices = {d1}
  MaxEvents = 4
  MaxBreaks = 2
  None = None
INVARIANTS GateReaches StatusReaches VerificationReaches
PROPERTY PageCatchesUp
