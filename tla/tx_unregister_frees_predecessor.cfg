SPECIFICATION Spec
CONSTANTS
  Block = {b1, b2, b3}
  NULL = NULL
  HandleMod = 8
  TimeMod = 4
  CyclesPerMs = 1
  Timeouts = {1}
  MaxStep = 2
  MaxRx = 1
  App = {"tx"}
SYMMETRY MCSymmetry
INVARIANT LinkedIsLive
CHECK_DEADLOCK FALSE
