SPECIFICATION FairSpec
CONSTANTS
  Call = {c1, c2}
  Background = {c2}
  MaxRetries = 2
  MaxFaults = 2
  NoCall = NoCall
INVARIANTS
  TypeOK
  ExitIsTruthful
  WaitersAreServed
PROPERTIES
  ContainerExits
\* the process may wait for a loop that has ended
CHECK_DEADLOCK FALSE
