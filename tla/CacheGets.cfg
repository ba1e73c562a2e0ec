SPECIFICATION CacheFairSpec
CONSTANTS
  c1 = c1  c2 = c2  c3 = c3
  main = main  submit = submit
  k1 = k1  k2 = k2  k3 = k3
  Getter = {c1, c2, c3}
  Loop = {main, submit}
  LoopOf <- LoopOfDef
  Key = {k1, k2, k3}
  KeyOf <- KeyOfDef
  MaxSize = 2
  Ttl = TRUE
  MaxCalls = 2
  Nobody = Nobody
INVARIANTS
  SingleFlight
  Recency
PROPERTIES
  GetsEnd
