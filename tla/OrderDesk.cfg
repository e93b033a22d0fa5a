SPECIFICATION Spec
CONSTANTS
    Req = {r1, r2}
    Resting = {w1, w2}
    Kinds = {"place", "replace", "cancel", "kill", "scan", "sweep", "batch"}
    Cap = 2
    Reserved = 1
    Interactive = 1
    Budget = 1
    AutoRestart = TRUE
    LateBook = FALSE
    Stops = 1
SYMMETRY Symmetric
INVARIANTS TypeOK KillSweeps PlainReplaceIsUntouched ReplacementComesAfter
PROPERTIES SwitchHolds
CHECK_DEADLOCK FALSE
