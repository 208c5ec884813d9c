SPECIFICATION PageSpec
CONSTANTS
  Goals <- BuiltInGoals
  Counts <- MCCounts
  NaN = NaN
CHECK_DEADLOCK FALSE
INVARIANTS
  PageAgrees
