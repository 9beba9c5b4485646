\* Two requests at a time on two shifts of two people and one time off.
SPECIFICATION Spec
CONSTANTS
    Sessions = {s1, s2}
    Users = {u1, u2}
    Slots = {k1, k2}
    Entries = {e1, e2}
    Requests = {o1}
SYMMETRY Symmetric

    
PROPERTIES
    SettledUnlessRaced
