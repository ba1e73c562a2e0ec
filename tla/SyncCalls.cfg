SPECIFICATION FairSpec
CONSTANTS
  N = 4
  Callers <- CallersDef
  Nobody = Nobody
INVARIANTS
  BlockedElsewhere
PROPERTIES
  CallsEnd
CHECK_DEADLOCK FALSE
