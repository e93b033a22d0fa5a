SPECIFICATION FairSpec
CONSTANTS
  Order = {o1}
  Size = 2
  Days = 2
  Corrections = 1
  Carried = FALSE
  Faults = 2
CHECK_DEADLOCK FALSE
INVARIANTS
  TypeOK
PROPERTIES
  LedgerHolds
  MirrorsGoWhenCovered
  SyncClearsMirrors
  Settles
