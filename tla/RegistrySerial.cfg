SPECIFICATION Spec
CONSTANTS
  Threads = {t1}
  ann = ann
  one = one
  Names = {ann, one}
  NumberOf <- MCNumberOf
  UserUuids = {u1, u2}
  GameUuids = {g1, g2, g3, g4}
  HistoryLimit = 2
  Absent = absent
  Faults = {"refuse", "crash"}
SYMMETRY Symmetry
CHECK_DEADLOCK FALSE
INVARIANTS
  TypeOK
  UsersResolve
  NamesResolve
  NewestGamesListed
