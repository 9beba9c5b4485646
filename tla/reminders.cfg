\* Two loops over two installments, two days, one restart; two requests on one
\* document with three links and two contacts.
SPECIFICATION MixedSpec
CONSTANTS
    w1 = w1
    w2 = w2
    i1 = i1
    i2 = i2
    Processes = {w1, w2}
    Installments = {i1, i2}
    Target <- TwoDays
    Late = 3
    MaxDay = 2
    MaxRestarts = 1
    Requests = {r1, r2}
    Keys = {k1, k2, k3}
    Contacts = {c1, c2}
    Billed = c1
    t1 = t1
    Terms = {t1, t2}
    MaxRevision = 2
    MaxViews = 2
SYMMETRY Symmetry
CHECK_DEADLOCK FALSE
INVARIANTS
    OnceUnlessShared
    EffectsStamped
    LinksSound
    CopyShows
