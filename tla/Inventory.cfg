SPECIFICATION FairSpec
CONSTANTS
  h1 = h1
  h2 = h2
  n1 = n1
  Exhibitions = {e1, e2}
  Artworks = {a1, a2}
  Devices = {d1, d2}
  Satellites = {s1}
  Hosts = {h1, h2}
  Numbers = {n1}
  NumberOf <- Numbered
  Configs = {c1, c2}
  Admins = {r1, r2}
  MaxAssets = 2
  MaxEvents = 2
  Loop = Loop
  None = None
  Gone = Gone
INVARIANTS TypeOK ReadTogether ConfigInForce
PROPERTIES OnlyMovesStray LinkedInTheEnd HistoryBegins CacheInTheEnd
