SPECIFICATION FairSpec
CONSTANTS
  s1 = s1
  s12 = s12
  on = on
  off = off
  query = query
  Strips = {s1, s12}
  Requests = {on, off, query}
  Strip <- StripOf
  Want <- WantOf
  Fast = {}
  Named <- SubAddress
  None = None
  QueueSize = 1
  MaxAir = 1
  MaxRestarts = 1
INVARIANTS PendingInFlight
PROPERTIES ServesInOrder RequestsEnd CacheCatchesUp
