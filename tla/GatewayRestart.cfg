SPECIFICATION FairSpec
CONSTANTS
    Role = {"data"}
    Ladder <- Rungs
    TTL = 2
    Grace = 1
    Span = 2
    Cooldown = 1
    MaxFails = 2
    NoLease = NoLease
INVARIANTS TypeOK PushIsCovered
PROPERTIES AttemptsSpaced EscalationIsSlow PoolComesBack
