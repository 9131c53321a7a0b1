SPECIFICATION Spec
CONSTANTS
  Lcore = {c0}
  Mbuf = {m1, m2, m3, m4}
  NumPorts = 1
  Managed <- OnePort
  MaxBurst = 2
  DrainTsc = 0
  TscMod = 2
  MaxStep = 1
  Ip <- Addresses
  Neighbour <- OnLink
  Mac = {h1}
  MyIp <- Self
  MyMac = mymac
  Subnet <- Local
  Gateway <- Router
  Broadcast = broadcast
  NoMac = nomac
  MaxQueued = 3
  QueuedMod = 8
  TimeLimit = 1
  MaxPending = 3
  MallocMayFail = FALSE
  Traffic <- Replies
  RxRing = 1
  MaxRxBurst = 1
SYMMETRY MCSymmetry
INVARIANT OwnedOrPending
