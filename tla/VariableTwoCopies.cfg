\* One update cut short, and a second one that finds no room at runtime or is
\* cut short as well.
CONSTANTS
  Names = {n1, n2}
  Values = {a, b}
  NoVal = NoVal
  Space = 6
  RuntimeSpace = 5
  FtwErrors = {}
  NoName = NoName
  VolatilePresent = TRUE
SPECIFICATION Spec
INVARIANT StoredOrDeleted
