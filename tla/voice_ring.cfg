\* One call, three browsers, a callback that may be repeated.
SPECIFICATION VoiceSpec
CONSTANTS
    Workers = {w1, w2}
    Reps = {r1, r2, r3}
    Retries = 0
    Resends = 1
    ResponsesLost = FALSE
CHECK_DEADLOCK FALSE
INVARIANTS
    NobodyStillRings
    FallbackOnce

    
