SPECIFICATION FairSpec
CONSTANTS
    Invoice = {i1, i2}
    Period = {p1, p2}
    Request = {r1, r2}
    NoInvoice = NoInvoice
    NoPeriod = NoPeriod
    MayAbort = FALSE
INVARIANT NothingLost
PROPERTY NumberingProgress
CHECK_DEADLOCK FALSE
