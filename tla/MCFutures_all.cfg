SPECIFICATION FairSpec
CONSTANTS
  Futs = {f1, f2, f3}
  NoFut = NoFut
  Modes = {"ACC_REJ", "REJ", "REJ_VOID", "PLAIN", "PLAIN_VOID"}
  MaxRuns = 2
  MaxCalls = 1
  MaxDepth = 3
INVARIANTS
  FuturesInv
  NearestCatches
PROPERTIES
  RejectedNotAccepted
  ChainGetsOn
CHECK_DEADLOCK FALSE
