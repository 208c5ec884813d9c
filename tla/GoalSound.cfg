SPECIFICATION PageFairSpec
CONSTANTS
  Goals <- MCGoals
  Counts <- MCCounts
  NaN = NaN
CHECK_DEADLOCK FALSE
INVARIANTS
  TypeOK
  StackFits
  ValueAsDocumented
  PageSound
PROPERTIES
  EvaluableDecided
  PageFinishes
