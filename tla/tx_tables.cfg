SPECIFICATION TxFairSpec
CONSTANTS
  Lcore = {c0}
  Mbuf = {m1, m2, m3}
  NumPorts = 2
  Managed <- BothPorts
  MaxBurst = 2
  DrainTsc = 1
  TscMod = 4
  MaxStep = 2
INVARIANTS TxTypeOK TableHasRoom OneOwner Fifo
PROPERTY TableDrains
