SPECIFICATION FairSpec
CONSTANTS
  Branch = {"b1", "b2"}
  Program <- TwoBranches
  Fn = {"task", "trace"}
  Input = {"x", "y"}
  TraceFn = {"trace"}
  Hash <- OwnNames
  Result <- Results
  Permits = 1
  MaxAttempts = 2
  MaxFaults = 1
INVARIANTS
  TypeOK
  RecordedHasOutputs
  NamesDiffer
  NoExtraActions
PROPERTIES
  RerunOnlyUnknown
  Completes
