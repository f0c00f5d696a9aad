CONSTANTS
    NumActions = 4
    w1 = w1
    w2 = w2
    Workers = {w1, w2}
    InitialWorkers = {w1}
    Capacity <- Capacities
    Requirement <- Requirements
    Priority <- Priorities
    SCHEDULING_CHANCES = 2
    MaxErrors = 3
    MayDepend <- FirstAndLast
    None = None
SPECIFICATION FairSpec
INVARIANTS
    TypeOK
    CapacityRespected
    NoLostAction
    DependenciesHonoured
    ReadyCountExact
    FailureNotified
PROPERTIES
    ActionsFinish
CHECK_DEADLOCK FALSE
