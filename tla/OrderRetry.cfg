SPECIFICATION PathSpec
CONSTANTS
    Req = {r1, r2}
    Resting = {}
    Kinds = {"place"}
    Cap = 2
    Reserved = 1
    Interactive = 1
    Budget = 2
    AutoRestart = FALSE
    LateBook = FALSE
    Stops = 1
    Key = {k1}
    NoOne = NoOne
    WebStops = 1
SYMMETRY Symmetric
INVARIANT ClearedIsNotLive
CHECK_DEADLOCK FALSE
