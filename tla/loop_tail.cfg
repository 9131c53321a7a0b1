SPECIFICATION FairSpec
CONSTANTS
  Block = {b1, b2, b3}
  NULL = NULL
  HandleMod = 4
  TimeMod = 3
  CyclesPerMs = 1
  Timeouts = {1}
  MaxStep = 1
  MaxRx = 1
  App = {"late", "tail"}
INVARIANTS TypeOK ActiveCount QueuesAreLists LinkedIsLive  RoundComplete LoopInv
PROPERTIES TimerPeriod TxServed TimerServed ServesHandles
