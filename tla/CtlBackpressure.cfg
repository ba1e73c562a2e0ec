SPECIFICATION Spec
CONSTANTS
  Action = {a, t}
  Trace = {t}
  Recoverable = {a, t}
  Worker = {w1, w2}
  NoRef = NoRef
  QueueSize = 1
  MaxRetries = 1
  MaxFaults = 0
  MaxReconnects = 1
SYMMETRY WorkerSymmetry
INVARIANTS
  TypeOK
  NoLostWakeup
  ReturnedFinal
