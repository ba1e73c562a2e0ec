SPECIFICATION FairSpec
CONSTANTS
  Action = {a}
  Trace = {}
  Recoverable = {a}
  Worker = {w1, w2}
  NoRef = NoRef
  QueueSize = 3
  MaxRetries = 1
  MaxFaults = 3
  MaxReconnects = 2
INVARIANTS
  OneLauncher
PROPERTIES
  NoSendAfterCancel
  AdoptedNotResent
  ImplementsContract
  SubmitEnds
\* every coroutine may be waiting for the services: SubmitEnds says that this is not for ever
CHECK_DEADLOCK FALSE
