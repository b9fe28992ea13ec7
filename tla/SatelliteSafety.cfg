SPECIFICATION Spec
CONSTANTS
  Sockets = {w1, w2}
  Commands = {c1, c2}
  Admins = {a1}
  None = None
  MaxDrops = 2
  MaxChores = 2
SYMMETRY Symmetry
INVARIANTS SuccessWasExecuted
PROPERTIES Relays
CHECK_DEADLOCK FALSE
