\* Two payments and two invoices: allocation, edits, late fees, refunds, cancellation.
SPECIFICATION Spec
CONSTANTS
    Payments = {p1, p2}
    Invoices = {i1, i2}
    Amounts = {3}
    Totals = {2}
    Plans <- AnyPlans
    Fees = {1}
    MaxTotal = 3
SYMMETRY Symmetric
CHECK_DEADLOCK FALSE
INVARIANTS
    PaymentColumns
    InvoiceColumns
    ScheduleCoversTotal
    StampsTrustworthy
PROPERTIES
    RefundsAreForever
    CancelledIsFinal
