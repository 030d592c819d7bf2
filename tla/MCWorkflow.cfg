SPECIFICATION Spec
CONSTANTS
    MaxId = 2
    Shops = {w1}
    Items = {bolts}
    Makes <- MCMakes
    Weight <- MCWeight
    Goals = {1}
    Freed = Freed
    MaxJobs = 2
    DayTicks = 2
    MaxDelay = 2
    MaxStock = 1
INVARIANTS
    TypeOK
    PendingExact
    WorldConsistent
    NoStalePointerFollowed
PROPERTIES
    ProtectionLasts
    LostJobSettled
    GoalStopsJobs
