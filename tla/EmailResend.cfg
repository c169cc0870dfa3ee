SPECIFICATION Spec
CONSTANTS
    BillingJob = {}
    OverdueJob = {}
    Notice = {n1}
    ServiceNotice = {n1}
    BillingWorker = {}
    EmailWorker = {w1}
    Nobody = Nobody
    Nothing = Nothing
    Attempts = 3
    MaxStalled = 1
    MaxResends = 1
CHECK_DEADLOCK FALSE
PROPERTY ResendQueues
