\* Two calls and the monitor on two requests.
SPECIFICATION Spec
CONSTANTS
    Sessions = {s1, s2}
    Users = {u1, u2, u3}
    Slots = {k1}
    Shifts = {e1, e2}
    Requests = {r1, r2}
    Posts = {p1}
SYMMETRY Symmetric
CHECK_DEADLOCK FALSE
INVARIANTS
    OneShiftPerPost
    HonouredUnlessRaced
PROPERTIES
    FinalUnlessRaced
