SPECIFICATION FairSpec
CONSTANTS
  a = a
  b = b
  app = app
  i1 = i1
  i2 = i2
  Env = {a, b, app}
  App = {app}
  Image = {i1, i2}
  Programs <- ProgramsDef
  Code = Code
  Old = Old
  MaxPlans = 2
  MaxFaults = 1
INVARIANTS
  BuiltOnce
  ImagesFirst
  ReturnsDeployed
PROPERTIES
  DeployEnds
CHECK_DEADLOCK FALSE
