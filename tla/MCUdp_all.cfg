SPECIFICATION FairSpec
CONSTANTS
  k1 = k1
  k2 = k2
  u1 = u1
  Fns = {u1}
  NoFn = NoFn
  Handlers <- MCSocks
  MainEnds = {"scheduler", "return"}
  MaxQueued = 1
  MaxDepth = 2
  Socks <- MCSocks
  Ids = {1, 2}
  NoSock = NoSock
  NoRecv = NoRecv
  NoId = NoId
  MaxPending = 2
INVARIANTS
  UdpInv
  KernelPointersLive
  OpenSocketOwnsId
PROPERTIES
  PacketsHandled
  ClosedSilent
CHECK_DEADLOCK FALSE
