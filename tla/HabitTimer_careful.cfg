CONSTANTS
    Cells = {c1, c2}
    Durations <- MCDurations
    MaxStarts = 3
    MaxFetches = 1
    MaxPending = 0
    MaxReadErrors = 1
    MaxRelaunches = 1
SPECIFICATION CarefulSpec
INVARIANTS
    TimersAgree
PROPERTIES
    TimeOnlyShrinks
    TimersEnd
CHECK_DEADLOCK FALSE
