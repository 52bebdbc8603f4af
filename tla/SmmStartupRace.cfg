SPECIFICATION Spec
CONSTANTS
  c1 = c1
  c2 = c2
  c3 = c3
  CPU = {c1, c2, c3}
  BootCpu = c1
  NoCpu = NoCpu
  Modes <- RelaxedMode
  Top = 15
  MaxCalls = 1
  SmiTargets <- OneOrAll
  Prompt = TRUE
  LateBroadcast = TRUE
INVARIANT BusyHeld
