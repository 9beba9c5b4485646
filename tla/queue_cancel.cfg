\* Two loops, two reminders and the notice of a cancellation; sends may raise
\* and one tick may be rolled back.
SPECIFICATION Spec
CONSTANTS
    Workers = {w1, w2}
    Jobs = {r1, r2, n1}
    Reminders = {r1, r2}
    Notices = {n1}
    Limit = 2
    MaxAttempts = 2
    MaxCrashes = 1
CHECK_DEADLOCK FALSE
INVARIANTS
    SentOncePerCrash
PROPERTIES
    RemindersStop
    OnlyCaughtLeave
    DueJobsSettle
