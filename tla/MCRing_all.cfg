SPECIFICATION FairSpec
CONSTANTS
  Size = 3
  Modes = {"SKIP", "TRIM", "BLOCK"}
  MaxCall = 4
  MaxBytes = 5
INVARIANTS
  RingInv
  ReportedIsStored
  ModeContract
  NeverWaits
PROPERTIES
  ImplementsChannel
  StoredIsRead
CHECK_DEADLOCK FALSE
