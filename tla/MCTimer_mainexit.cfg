SPECIFICATION FairSpec
CONSTANTS
  t1 = t1
  t2 = t2
  u1 = u1
  s1 = s1
  s2 = s2
  Fns <- MCNoUserFns
  NoFn = NoFn
  Handlers = {}
  MainEnds = {"scheduler", "return"}
  MaxQueued = 2
  MaxDepth = 0
  Timers <- MCTimersOnly
  Slots = {s1}
  NoTimer = NoTimer
  NoSlot = NoSlot
  MaxPending = 2
PROPERTIES
  CallbacksSurviveMain
CHECK_DEADLOCK FALSE
