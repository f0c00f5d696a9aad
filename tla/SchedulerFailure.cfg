CONSTANTS
    NumActions = 3
    w1 = w1
    w2 = w2
    Workers = {w1, w2}
    InitialWorkers = {w1, w2}
    Capacity <- Capacities
    Requirement <- Ones
    Priority <- Zeros
    SCHEDULING_CHANCES = 2
    MaxErrors = 3
    MayDepend <- OnFirst
    None = None
SPECIFICATION Spec
INVARIANTS
    FailurePropagated
CHECK_DEADLOCK FALSE
