CONSTANTS
    Minute = 2
    Times = {4}
    Lefts = {0, 3}
    Amounts = {1}
    Colors = {1}
    MaxHabits = 1
    MaxTouches = 2
    MaxGroups = 2
    MaxForms = 2
SPECIFICATION Spec
INVARIANTS
    TypeOK
    TimesAreReadable
    ChosenTimeIsKept
    ChosenGoalIsKept
    ColorIsAsShown
    UnusedTimeIsFull
CHECK_DEADLOCK FALSE
