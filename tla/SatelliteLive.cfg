SPECIFICATION FairSpec
CONSTANTS
  Sockets = {w1, w2, w3}
  Commands = {c1}
  Admins = {a1}
  None = None
  MaxDrops = 1
  MaxChores = 2
INVARIANTS NobodyStranded
PROPERTIES CommandsReturn KnownReconnects
CHECK_DEADLOCK FALSE
