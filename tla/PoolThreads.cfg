SPECIFICATION Spec
CONSTANTS
  Threads = {t1, t2}
  PoolSize = 2
  Null = Null
  Depth = 1
SYMMETRY ThreadSymmetry
INVARIANTS
  NoConnectionLost
