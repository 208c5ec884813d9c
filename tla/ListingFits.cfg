SPECIFICATION LSpec
CONSTANTS
  Threads = {t1}
  Readers = {r1}
  Names = {n1}
  NumberOf <- MCNumberOf
  UserUuids = {u1}
  GameUuids = {g1, g2, g3, g4, g5}
  HistoryLimit = 5
  RecentLimit = 5
  Outcomes <- MCOutcomes
  Absent = absent
  Faults = {}
SYMMETRY Symmetry
CHECK_DEADLOCK FALSE
INVARIANTS
  ReplyFits
