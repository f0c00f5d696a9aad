CONSTANTS
    e1 = e1
    e2 = e2
    Executors = {e1, e2}
    Null = Null
    Quit = Quit
    MAX_RETRIES = 3
    Environments <- TimelyOrNot
    Load <- MoreWhenTimely
SPECIFICATION FairSpec
INVARIANTS
    TypeOK
    AnswersTrue
    NoMissedResult
    StopIsClean
PROPERTIES
    StopEnds
CHECK_DEADLOCK FALSE
