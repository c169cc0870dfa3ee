SPECIFICATION Spec
CONSTANTS
    i1 = i1
    i2 = i2
    Invoice = {i1, i2}
    ReminderCron = {rem1, rem2}
    OverdueCron = {}
    NoInvoice = NoInvoice
    Lead <- ReminderLead
    MaxFaults = 0
INVARIANT NoDuplicateJob
