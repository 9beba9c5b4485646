\* The widget, the links and staff on the same appointments at the same time.
SPECIFICATION Spec
CONSTANTS
    Sessions = {s1, s2}
    Submissions = {f1}
    MaxId = 3
    Grid <- TwoSlots
    StaffSlots <- Straddling
    Capacity = 1
    Reps = {r1}
    Leads = {l1}
    MaxStaff = 2
    Nobody = Nobody
    NoForm = NoForm
    NoLead = NoLead
SYMMETRY Interchangeable
CHECK_DEADLOCK FALSE
INVARIANTS
    NotOverbooked

    
    
