CONSTANTS
    Habits = {h1, h2, h3}
    Data <- MCData
    NoDoc = NoDoc
    MaxEdits = 1
    MaxTaps = 1
    MaxPressed = 2
    MaxPending = 0
    MaxDeletions = 2
    MaxRelaunches = 1
    MaxReadErrors = 0
SPECIFICATION PatientFairSpec
INVARIANTS
    RestIsConsistent
PROPERTIES
    ImplementsStore
    AddIsShown
CHECK_DEADLOCK FALSE
