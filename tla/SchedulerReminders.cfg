SPECIFICATION Spec
CONSTANTS
    i1 = i1
    i2 = i2
    Invoice = {i1, i2}
    ReminderCron = {rem1, rem2}
    OverdueCron = {}
    NoInvoice = NoInvoice
    Lead <- ReminderLead
    MaxFaults = 8
SYMMETRY Symmetry
INVARIANT RemindedBeforeDue
