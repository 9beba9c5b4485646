\* Two requests at once: payments recorded on the same invoices, or every call.
SPECIFICATION MixedSpec
CONSTANTS
    Sessions = {s1, s2}
    Payments = {p1, p2}
    Lone = p1
    Invoices = {i1, i2}
    Amounts = {1, 2}
    Totals = {1, 2}
    Plans <- WholePlans
    Fees = {}
    MaxTotal = 2
    Ops = {"record", "apply", "unapply", "refund", "cancel", "send"}
CHECK_DEADLOCK FALSE
INVARIANTS
    NothingInvented
PROPERTIES
    RecordingImplementsLedger
    
