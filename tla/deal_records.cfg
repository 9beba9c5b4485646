\* Two requests at once on the records of the sales desk.
SPECIFICATION MixedSpec
CONSTANTS
    Sessions = {s1, s2}
    Contacts = {c1, c2}
    OneContact = c1
    Deals = {d1, d2}
    OneDeal = d1
    Papers = {p1}
    Guests = {g1}
    Orders = {o1}
    Cars = {k1, k2}
    Phones = {n1}
SYMMETRY Symmetry
CHECK_DEADLOCK FALSE
INVARIANTS
    BinHidesNothing
    BoardTrue
