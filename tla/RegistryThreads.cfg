SPECIFICATION LSpec
CONSTANTS
  Threads = {t1, t2}
  Readers = {r1}
  Names = {n1}
  NumberOf <- MCNumberOf
  UserUuids = {u1, u2}
  GameUuids = {g1, g2}
  HistoryLimit = 1
  RecentLimit = 1
  Outcomes <- MCOutcomes
  Absent = absent
  Faults = {"refuse", "crash"}
SYMMETRY Symmetry
CHECK_DEADLOCK FALSE
INVARIANTS
  IndexSound
  HistoryWithinLimit
  ListedOnce
PROPERTIES
  ImplementsDirectory
