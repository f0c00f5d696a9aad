CONSTANTS
    w1 = w1
    w2 = w2
    NumTasks = 3
    Size <- Sizes
    Workers = {w1, w2}
    Capacity <- Capacities
    SCHEDULING_CHANCES = 2
    MaxErrors = 2
    None = None
SPECIFICATION FairSpec
INVARIANTS
    TypeOK
    JobHasItsNodes
    EndsWhenFree
PROPERTIES
    TasksEnd
CHECK_DEADLOCK FALSE
