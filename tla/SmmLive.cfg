SPECIFICATION FairSpec
CONSTANTS
  c1 = c1
  c2 = c2
  c3 = c3
  CPU = {c1, c2}
  BootCpu = c1
  NoCpu = NoCpu
  Modes <- TwoModes
  Top = 15
  MaxCalls = 2
  SmiTargets <- OneOrAll
  Prompt = TRUE
  LateBroadcast = FALSE
PROPERTIES
  SmiServed
  EveryoneLeaves
