SPECIFICATION FairSpec
CONSTANTS
  f1 = f1
  f2 = f2
  u1 = u1
  Fns <- MCFns
  NoFn = NoFn
  Handlers = {}
  MainEnds = {"scheduler", "return"}
  MaxQueued = 2
  MaxDepth = 1
  NumPtrs = 2
  Pins = {0, 1}
  IrqFns <- MCIrqFns
  MaxPending = 1
INVARIANTS
  GpioInv
  RunningFnOwned
  RegistrationAgrees
PROPERTIES
  InterruptsServed
  LateIrqDropped
CHECK_DEADLOCK FALSE
