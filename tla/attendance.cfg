\* Two requests and a background loop, two days, four punches.
SPECIFICATION AttendanceSpec
CONSTANTS
    Tasks = {s1, s2}
    MaxPunches = 4
    LastTap = 1
    MaxTime = 3
    MaxEdits = 1
    Day = 2
    LateAfter = 0
    CloseAt = 1
    MaxSession = 2
CHECK_DEADLOCK FALSE
INVARIANTS
    ShiftMatchesPunches
PROPERTIES
    DecisionsStay
    SessionsEnd
