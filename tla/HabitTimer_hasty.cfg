CONSTANTS
    Cells = {c1, c2, c3}
    Durations <- OneDuration
    MaxStarts = 3
    MaxFetches = 1
    MaxPending = 1
    MaxReadErrors = 0
    MaxRelaunches = 0
SPECIFICATION Spec
SYMMETRY Symmetry
INVARIANTS
    TypeOK
PROPERTIES
    OneTimerSurvives
CHECK_DEADLOCK FALSE
