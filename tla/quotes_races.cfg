\* Two requests at a time on one quote.
SPECIFICATION Spec
CONSTANTS
    Sessions = {s1, s2}
    Terms = {t1, t2}
    Keys = {k1, k2}
    Invoices = {i1, i2, i3}
    MaxRevision = 2
    NoInvoice = none
SYMMETRY Symmetric
CHECK_DEADLOCK FALSE
INVARIANTS
    RowsAgree
PROPERTIES
    ImplementsContract
    DecisionKept
