SPECIFICATION FairSpec
CONSTANTS
    BillingJob = {b1}
    OverdueJob = {b1}
    Notice = {n1, n2, n3}
    ServiceNotice = {}
    BillingWorker = {v1}
    EmailWorker = {w1}
    Nobody = Nobody
    Nothing = Nothing
    Attempts = 1
    MaxStalled = 1
    MaxResends = 0
INVARIANT WorkBound
PROPERTIES NothingVanishes ImplementsQueues
CHECK_DEADLOCK FALSE
