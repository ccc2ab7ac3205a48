CONSTANTS
    Habits = {h1}
    Data <- MCData
    NoDoc = NoDoc
    MaxEdits = 0
    MaxTaps = 1
    MaxPressed = 1
    MaxPending = 1
    MaxDeletions = 1
    MaxRelaunches = 1
    MaxReadErrors = 0
SPECIFICATION FairSpec
INVARIANTS
    TypeOK
PROPERTIES
    Settles
CHECK_DEADLOCK FALSE
