SPECIFICATION FairSpec
CONSTANTS
  r1 = r1  r2 = r2  r3 = r3  x1 = x1  x2 = x2
  Request = {r1, r2, r3}
  Authn = {x1, x2}
  User <- UserDef
  Stream = {r3}
  Http = {r1, r2}
  Cancellable = {r1}
  MaxPolls = 1
  MaxTokens = 3
  NoRequest = NoRequest
INVARIANTS
  OneRefreshPerExpiry
  RetryIsFresh
PROPERTIES
  CallsEnd
