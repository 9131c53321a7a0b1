SPECIFICATION FairSpec
CONSTANTS
  Lcore = {c0}
  Mbuf = {m1, m2}
  NumPorts = 1
  Managed <- OnePort
  MaxBurst = 2
  DrainTsc = 0
  TscMod = 2
  MaxStep = 1
  Ip <- Addresses
  Neighbour <- OnLink
  Mac = {h1}
  MyIp <- Self
  MyMac = mymac
  Subnet <- Local
  Gateway <- Router
  Broadcast = broadcast
  NoMac = nomac
  MaxQueued = 2
  QueuedMod = 4
  TimeLimit = 2
  MaxPending = 2
  MallocMayFail = TRUE
  Traffic <- Frames
  RxRing = 2
  MaxRxBurst = 1
PROPERTIES  RxServed
