CONSTANTS
    Durations <- MCDurations
    MaxSeconds = 69
    MaxRelaunches = 1
SPECIFICATION FairSpec
INVARIANTS
    TypeOK
    FinishedOnTime
    NoSecondLost
PROPERTIES
    ImplementsStopwatch
    TimerEnds
CHECK_DEADLOCK FALSE
