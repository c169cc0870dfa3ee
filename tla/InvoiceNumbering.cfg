SPECIFICATION Spec
CONSTANTS
    Invoice = {i1, i2}
    Period = {p1, p2}
    Request = {r1, r2}
    NoInvoice = NoInvoice
    NoPeriod = NoPeriod
    MayAbort = TRUE
SYMMETRY Symmetry
INVARIANTS
    TypeOK
    GaplessNumbering
    TrailOrder
    FeedAgrees
    SettlementBound
PROPERTIES
    ImplementsWeakLedger
    SettledRests
CHECK_DEADLOCK FALSE
