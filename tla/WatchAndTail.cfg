SPECIFICATION FairSpec
CONSTANTS
  Retry = 2
  MaxAttempts = 2
  MaxLines = 2
  MaxCalls = 2
  MaxFaults = 2
INVARIANTS
  WaitReached
  TailComplete
PROPERTIES
  CallsReturn
CHECK_DEADLOCK FALSE
