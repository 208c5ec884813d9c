SPECIFICATION DSpec
CONSTANTS
  Threads = {t1}
  Games = {g1}
  Nobody <- MCNobody
  NoGame = NoGame
  Faults = {"refuse"}
  AcceptedLimit = 1
  LossLimit = 3
  Attrs <- MCAttrs
  Goals <- MCGoals
CHECK_DEADLOCK FALSE
INVARIANTS
  SavedRepliesHold
  IdleGamesSurvive
  ResetForgets
