SPECIFICATION Spec
CONSTANTS
  Block = {b1, b2, b3}
  NULL = NULL
  HandleMod = 8
  TimeMod = 4
  CyclesPerMs = 1
  Timeouts = {1}
  MaxStep = 2
  MaxRx = 1
  App = {"late", "timer"}
SYMMETRY MCSymmetry
INVARIANT QueuesAreLists
CHECK_DEADLOCK FALSE
