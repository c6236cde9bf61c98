SPECIFICATION Spec
CONSTANTS
  f1 = f1
  f2 = f2
  u1 = u1
  Fns <- MCFns
  NoFn = NoFn
  Handlers = {}
  MainEnds = {"scheduler"}
  MaxQueued = 2
  MaxDepth = 0
  NumPtrs = 2
  Pins = {1, 2}
  IrqFns <- MCIrqFns
  MaxPending = 1
INVARIANTS
  StaysInArray
CHECK_DEADLOCK FALSE
