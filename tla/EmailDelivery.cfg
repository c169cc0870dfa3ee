SPECIFICATION Spec
CONSTANTS
    BillingJob = {}
    OverdueJob = {}
    Notice = {n1}
    ServiceNotice = {n1}
    BillingWorker = {}
    EmailWorker = {w1, w2}
    Nobody = Nobody
    Nothing = Nothing
    Attempts = 3
    MaxStalled = 1
    MaxResends = 2
SYMMETRY Symmetry
INVARIANTS TypeOK SentIsTrue CompletedIsSent
CHECK_DEADLOCK FALSE
