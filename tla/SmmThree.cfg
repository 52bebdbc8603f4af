SPECIFICATION Spec
CONSTANTS
  c1 = c1
  c2 = c2
  c3 = c3
  CPU = {c1, c2, c3}
  BootCpu = c1
  NoCpu = NoCpu
  Modes <- ThreeModes
  Top = 15
  MaxCalls = 1
  SmiTargets <- BootOrAll
  Prompt = TRUE
  LateBroadcast = FALSE
SYMMETRY Symmetry
INVARIANTS
  TypeOK
  CountExact
  NoNormalCode
  MtrrsKept
  RunConsumed
  BusyHeld
  TasksFinished
  OneBsp
