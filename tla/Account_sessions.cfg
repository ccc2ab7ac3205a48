CONSTANTS
    Users = {ann, ben}
    NoUser = NoUser
    MaxRequests = 3
    MaxCalls = 1
    MaxHabits = 2
SPECIFICATION FairSpec
INVARIANTS
    TypeOK
    SessionIsCurrent
    EveryAccountHasADocument
    NoTrap
    HabitsAreOwn
PROPERTIES
    SignUpLeadsHome
CHECK_DEADLOCK FALSE
