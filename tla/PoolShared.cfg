SPECIFICATION FairSpec
CONSTANTS
  Threads = {t1, t2}
  PoolSize = 3
  Null = Null
  Depth = 2
CHECK_DEADLOCK FALSE
INVARIANTS
  TypeOK
  ExclusiveUntilStale
  LostOnlyWhenStale
PROPERTIES
  PoolMovesOn
