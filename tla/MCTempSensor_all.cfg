SPECIFICATION TempFairSpec
CONSTANTS
  o1 = o1
  o2 = o2
  o3 = o3
  b1 = b1
  b2 = b2
  t1 = t1
  s1 = s1
  Fns = {t1}
  NoFn = NoFn
  Handlers <- MCOps
  MainEnds = {"scheduler", "return"}
  MaxQueued = 1
  MaxDepth = 2
  Ops <- MCOps
  Bufs = {b1, b2}
  NoBuf = NoBuf
  Timers = {t1}
  Slots = {s1}
  NoTimer = NoTimer
  NoSlot = NoSlot
  MaxPending = 1
  Programs = {"any", "temperature"}
  AnyOps = {o1, o2}
INVARIANTS
  TempInv
  KernelBuffersOwned
  OpsAccounted
  FetchesTemperature
  BusReleased
PROPERTIES
  OpsComplete
  KeepsTicking
CHECK_DEADLOCK FALSE
