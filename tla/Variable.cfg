\* Every interleaving of calls, phases, losses of power and failed writes,
\* with room for three variables, one of them not at runtime.
CONSTANTS
  Names = {n1, n2}
  Values = {a, b}
  NoVal = NoVal
  Space = 6
  RuntimeSpace = 5
  FtwErrors = {"before", "spare", "target", "dest", "after"}
  NoName = NoName
  VolatilePresent = TRUE
CONSTRAINT Followed
SYMMETRY Symmetry
SPECIFICATION Spec
INVARIANTS TypeOK Durable CacheInSync StatusTruth EnumerationComplete
