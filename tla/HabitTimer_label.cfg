CONSTANTS
    Cells = {c1, c2}
    Durations <- MCDurations
    MaxStarts = 1
    MaxFetches = 1
    MaxPending = 0
    MaxReadErrors = 0
    MaxRelaunches = 0
SPECIFICATION WaitingSpec
INVARIANTS
    LabelStaysOnItsCell
CHECK_DEADLOCK FALSE
