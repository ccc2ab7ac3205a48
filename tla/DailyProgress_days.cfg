CONSTANTS
    HabitCount = 3
    Goal <- MCGoal
    Timed = {2}
    Milestones = {1, 2}
    MaxDays = 3
    MaxPending = 0
    MaxEdits = 1
    MaxRelaunches = 1
    Data <- DayData
    NoDoc = NoDoc
    MaxReadErrors = 0
SPECIFICATION Spec
INVARIANTS
    ListAgreesAtRest
    TapsOfTodayAreKept
    FinishedAreCounted
    MilestonesAreAwarded
PROPERTIES
    StepsOfTheLedger
CHECK_DEADLOCK FALSE
