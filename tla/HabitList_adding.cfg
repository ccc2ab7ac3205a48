CONSTANTS
    Habits = {h1, h2}
    Data <- MCData
    NoDoc = NoDoc
    MaxEdits = 1
    MaxTaps = 1
    MaxPressed = 1
    MaxPending = 2
    MaxDeletions = 0
    MaxRelaunches = 1
    MaxReadErrors = 0
SPECIFICATION Spec
SYMMETRY Symmetry
INVARIANTS
    AddsAreKept
CHECK_DEADLOCK FALSE
