SPECIFICATION Spec
CONSTANTS
    Proc = {p1, p2}
    Holder = {watchdog, api}
    watchdog = watchdog
    api = api
    Requests <- ComponentRequests
    Unreadable = Unreadable
    AnyHolder = AnyHolder
    NoLease = NoLease
    NoProc = NoProc
    TTL = 2
    Grace = 1
    Probes = 2
    MaxTime = 2
    MaxGrants = 2
SYMMETRY Symmetric
INVARIANTS
  TypeOK
  ConsumedOnce
PROPERTIES
  YoungCoverSurvives
  ContractHolds
