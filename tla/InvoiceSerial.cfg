SPECIFICATION Spec
CONSTANTS
    Invoice = {i1, i2, i3}
    Period = {p1, p2}
    Request = {r1}
    NoInvoice = NoInvoice
    NoPeriod = NoPeriod
    MayAbort = TRUE
SYMMETRY Symmetry
PROPERTY ImplementsStrictLedger
CHECK_DEADLOCK FALSE
