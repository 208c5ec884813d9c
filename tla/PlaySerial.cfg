SPECIFICATION Spec
CONSTANTS
  Threads = {t1}
  Games = {g1}
  Nobody <- MCNobody
  NoGame = NoGame
  Faults = {"refuse", "crash"}
  AcceptedLimit = 2
  LossLimit = 4
  Attrs <- MCAttrs
  Goals <- MCGoals
INVARIANTS
  TypeOK
  Capacity
  JudgedAsShown
  AcksKept
  SerialInv
  NoOfferAfterEnd
PROPERTIES
  AppendOnly
  RunningShowsGame
  ImplementsGameLog
