CONSTANTS
    Programs <- ThreeOrMoreTasks
    Slots = 2
    MAX_RETRIES = 3
    Null = Null
    Environments <- PacedOrNot
SPECIFICATION FairSpec
INVARIANTS
    TypeOK
    NoFault
    RightArguments
    VersionKept
    ObsoleteDropped
PROPERTIES
    TasksEnd
CHECK_DEADLOCK FALSE
