SPECIFICATION Spec
CONSTANTS
  Order = {o1}
  Size = 2
  Days = 2
  Corrections = 0
  Carried = TRUE
  Faults = 0
CHECK_DEADLOCK FALSE
PROPERTIES
  SyncClearsMirrors
