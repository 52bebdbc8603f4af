\* Headers with two records, the second one left for the next boot; the
\* power fails for a while, then stays on.
CONSTANTS
  b1 = b1
  b2 = b2
  v1 = v1
  v2 = v2
  Blocks = {b1}
  Values = {v1, v2}
  V0 = v1
  Garbage = Garbage
  NoBlock = NoBlock
  NoRequest = NoRequest
  W = 6
  AllocSizes = {2}
  PrivateData = {TRUE}
  Services <- AllServices
  FvbErrors = FALSE
  LookupFails = FALSE
SPECIFICATION FairSpec
PROPERTIES
  AtomicWrites
  Recovers
