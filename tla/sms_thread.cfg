\* Two requests at once on one thread: STOP, START and a question come in.
SPECIFICATION Spec
CONSTANTS
    s1 = s1
    s2 = s2
    stop = stop
    start = start
    text = text
    r1 = r1
    r2 = r2
    NoText = NoText
    Sessions = {s1, s2}
    Stops = {stop}
    Starts = {start}
    Texts = {text}
    Replies = {r1}
SYMMETRY TwoSessions
INVARIANTS
    StoredOnce
    UnansweredShows
PROPERTIES
    StopStands
    DeliveredIsFinal
