SPECIFICATION Spec
CONSTANTS
  t1 = t1
  t2 = t2
  u1 = u1
  s1 = s1
  s2 = s2
  Fns <- MCOneTimerFns
  NoFn = NoFn
  Handlers = {}
  MainEnds = {"scheduler", "return"}
  MaxQueued = 2
  MaxDepth = 1
  Timers <- MCTimersOnly
  Slots = {s1}
  NoTimer = NoTimer
  NoSlot = NoSlot
  MaxPending = 2
PROPERTIES
  CancelPurgesTaskQueue
CHECK_DEADLOCK FALSE
