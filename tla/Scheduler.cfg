SPECIFICATION FairSpec
CONSTANTS
  cron = cron
  once1 = once1
  once2 = once2
  t1 = t1
  t2 = t2
  Loop = Loop
  None = None
  Recurring = {cron}
  Seeded = {cron}
  OneShots = {once1, once2}
  Triggers = {t1}
  Limit = 2
  MaxAdmin = 1
  MaxLost = 2
INVARIANTS OneRunPerJob RetriesBounded LoopRunsOnce
PROPERTIES DueIsRun CallServed
