CONSTANTS
    HabitCount = 2
    Goal <- MCGoal
    Timed = {}
    Milestones = {1}
    MaxDays = 2
    MaxPending = 1
    MaxEdits = 1
    MaxRelaunches = 0
    Data <- DayData
    NoDoc = NoDoc
    MaxReadErrors = 1
SPECIFICATION FairSpec
INVARIANTS
    TypeOK
PROPERTIES
    FinishedOnlyGrows
    FinishIsRecorded
CHECK_DEADLOCK FALSE
