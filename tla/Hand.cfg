CONSTANTS
  Handles = {h1, h2}
  Protocols = {p, q}
  Watched = {p}
  Interfaces = {i1}
  d = d
  a = a
  Agents = {d, a}
  Core = Core
  Opens <- DriverAndApplication
  MaxProt = 2
  MaxDepth = 2
  OwnersWait = TRUE
  NestedExclusive = FALSE
SYMMETRY Symmetry
SPECIFICATION Spec
INVARIANTS ListsAgree NoStalePointer OneManager ToldOnce ToldSoon
PROPERTY RemovedUnused
