SPECIFICATION AFairSpec
CONSTANTS
  AcceptedLimit = 3
  LossLimit = 5
  Attrs <- MCAttrs
  Goals <- MCGoals
  Prob <- MCProb
  Corr <- MCCorr
  BufSize = 4
CHECK_DEADLOCK FALSE
INVARIANTS
  TypeOK
  NeedsFit
  BooksAgree
  FullVenueWins
  SameGameWon
  ShortestPossible
PROPERTIES
  PlayerFinishes
  AnalysisEnds
