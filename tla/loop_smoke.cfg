SPECIFICATION Spec
CONSTANTS
  Block = {b1, b2, b3, b4}
  NULL = NULL
  HandleMod = 3
  TimeMod = 4
  CyclesPerMs = 1
  Timeouts = {1}
  MaxStep = 2
  MaxRx = 1
  App = {"timer", "tx", "self"}
SYMMETRY MCSymmetry
INVARIANTS QueuesAreLists ActiveCount RoundComplete
PROPERTY TimerPeriod
CHECK_DEADLOCK FALSE
