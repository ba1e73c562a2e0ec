SPECIFICATION FairSpec
CONSTANTS
  File = {"big", "small", "empty"}
  Size <- Sizes
  Listings <- Prefixes
  ChunkSize = 2
  Worker = {w1, w2}
  MaxFaults = 1
INVARIANTS
  TypeOK
  MovedWhole
  BufferKept
  EndedIsComplete
PROPERTIES
  GroupEnds
\* the caller may wait for ever when everything has ended (DownloadReturns)
CHECK_DEADLOCK FALSE
