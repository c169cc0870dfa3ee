SPECIFICATION FairSpec
CONSTANTS
    i1 = i1
    i2 = i2
    Invoice = {i1, i2}
    ReminderCron = {}
    OverdueCron = {ov1, ov2}
    NoInvoice = NoInvoice
    Lead <- OverdueLead
    MaxFaults = 2
INVARIANTS
    JobBound
    FlagsEarned
PROPERTIES
    FollowUpSpacing
    ChaseEnds
    Escalation
