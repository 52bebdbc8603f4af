\* Flash errors, an FVB that is not found and losses of power together.
CONSTANTS
  b1 = b1
  b2 = b2
  v1 = v1
  v2 = v2
  Blocks = {b1}
  Values = {v1, v2}
  V0 = v1
  Garbage = Garbage
  NoBlock = NoBlock
  NoRequest = NoRequest
  W = 4
  AllocSizes = {1}
  PrivateData = {TRUE, FALSE}
  Services <- AllServices
  FvbErrors = TRUE
  LookupFails = TRUE
SPECIFICATION Spec
INVARIANT
  BootRecovered
