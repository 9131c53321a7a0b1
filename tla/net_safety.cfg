SPECIFICATION Spec
CONSTANTS
  Lcore = {c0}
  Mbuf = {m1, m2, m3}
  NumPorts = 1
  Managed <- OnePort
  MaxBurst = 2
  DrainTsc = 0
  TscMod = 2
  MaxStep = 1
  Ip <- Addresses
  Neighbour <- OnLink
  Mac = {h1, h2}
  MyIp <- Self
  MyMac = mymac
  Subnet <- Local
  Gateway <- Router
  Broadcast = broadcast
  NoMac = nomac
  MaxQueued = 2
  QueuedMod = 4
  TimeLimit = 1
  MaxPending = 2
  MallocMayFail = FALSE
  Traffic <- Few
  RxRing = 2
  MaxRxBurst = 2
SYMMETRY MCSymmetry
INVARIANTS NetTypeOK TableUnique Addressed OwnedOrPending  
