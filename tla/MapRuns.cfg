SPECIFICATION MapFairSpec
CONSTANTS
  MaxTasks = 4
  MaxParams = 3
INVARIANTS
  RestCancelled
PROPERTIES
  MapEnds
CHECK_DEADLOCK FALSE
