SPECIFICATION Spec
CONSTANTS
  k1 = k1
  k2 = k2
  u1 = u1
  Fns = {u1}
  NoFn = NoFn
  Handlers <- MCOneSock
  MainEnds = {"scheduler", "return"}
  MaxQueued = 1
  MaxDepth = 0
  Socks <- MCOneSock
  Ids = {1}
  NoSock = NoSock
  NoRecv = NoRecv
  NoId = NoId
  MaxPending = 1
INVARIANTS
  RunningSocketAlive
CHECK_DEADLOCK FALSE
