SPECIFICATION Spec
CONSTANTS
    Tenant = {t1, t2}
    Registered = {t1}
    Request = {r1, r2}
    MaxArrivals = 3
    NoTenant = NoTenant
    Erp = {e1, e2}
    NoErp = NoErp
    Device = {d1, d2}
    Code = {k1, k2}
    Job = {j1, j2}
    MaxJobs = 4
    NoDevice = NoDevice
    NoCode = NoCode
    Row = {w1, w2, w3}
    MaxTime = 3
    Limits = {1, 2}
    Spelled = {"ownerName", "businessName", "planType", "dueDate", "amount"}
INVARIANTS
    BoardsAgree
    ErpAgrees
    CountError
    SilencedOnceLocked
    OnlineIsShown
    LockIsTold
    WalkMissesNothing
    LettersAreFilled
PROPERTIES
    ImplementsLifecycle
CHECK_DEADLOCK FALSE
