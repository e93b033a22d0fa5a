SPECIFICATION Spec
CONSTANTS
    data = data
    orders = orders
    t1 = t1
    t2 = t2
    t3 = t3
    c1 = c1
    c2 = c2
    c3 = c3
    Role = {data, orders}
    Probed = {orders}
    Task = {t1, t2}
    Client = {c1, c2, c3}
    Callers = {"bounded", "abandoning"}
    Jobs = {"connect", "drop", "redrop", "roles"}
    Threads = 3
    MinUsable = 2
    Attempts = 2
    MayCancel = TRUE
    NoClient = NoClient
    NoRole = NoRole
    Free = Free
SYMMETRY Symmetric
INVARIANTS TypeOK NoLostConnection BorrowIsUndisturbed QuarantineHolds
