CONSTANTS
    Habits = {h1}
    Data <- MCData
    NoDoc = NoDoc
    MaxEdits = 0
    MaxTaps = 3
    MaxPressed = 1
    MaxPending = 2
    MaxDeletions = 0
    MaxRelaunches = 1
    MaxReadErrors = 1
SPECIFICATION Spec
INVARIANTS
    NoDeletionNoGap
    CellsMatchListAtRest
PROPERTIES
    CounterOnlyGrows
CHECK_DEADLOCK FALSE
