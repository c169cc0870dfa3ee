SPECIFICATION Spec
CONSTANTS
    Invoice = {i1}
    Period = {p1}
    Request = {r1, r2}
    NoInvoice = NoInvoice
    NoPeriod = NoPeriod
    MayAbort = FALSE
PROPERTY PaidStaysPaid
CHECK_DEADLOCK FALSE
