SPECIFICATION TxFairSpec
CONSTANTS
  Lcore = {c0}
  Mbuf = {m1, m2}
  NumPorts = 2
  Managed <- SecondPort
  MaxBurst = 3
  DrainTsc = 1
  TscMod = 4
  MaxStep = 2
PROPERTY TableDrains
