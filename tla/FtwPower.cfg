\* One header with one record at a time, two blocks; a work space of
\* five cells is reclaimed after every second write.
CONSTANTS
  b1 = b1
  b2 = b2
  v1 = v1
  v2 = v2
  Blocks = {b1, b2}
  Values = {v1, v2}
  V0 = v1
  Garbage = Garbage
  NoBlock = NoBlock
  NoRequest = NoRequest
  W = 5
  AllocSizes = {1}
  PrivateData = {TRUE, FALSE}
  Services <- AllServices
  FvbErrors = FALSE
  LookupFails = FALSE
SPECIFICATION Spec
INVARIANTS
  Recovered
  SpaceAllocated
  WritesErased
PROPERTY
  AtomicWrites
