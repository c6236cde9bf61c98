SPECIFICATION FairSpec
CONSTANTS
  t1 = t1
  t2 = t2
  u1 = u1
  s1 = s1
  s2 = s2
  Fns <- MCFns
  NoFn = NoFn
  Handlers = {}
  MainEnds = {"scheduler", "return"}
  MaxQueued = 2
  MaxDepth = 1
  Timers <- MCTimers
  Slots = {s1, s2}
  NoTimer = NoTimer
  NoSlot = NoSlot
  MaxPending = 2
INVARIANTS
  KernelPointersLive
  RunningFnOwned
  OneShotOnce
  TimerInv
PROPERTIES
  TimersRun
  EntryReleasedByOwner
  CancelledNotQueued
CHECK_DEADLOCK FALSE
