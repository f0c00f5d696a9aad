CONSTANTS
    e1 = e1
    e2 = e2
    Executors = {e1}
    Null = Null
    Quit = Quit
    MAX_RETRIES = 3
    Environments <- TimelyOnly
    Load <- OneJob
SPECIFICATION FairSpec
PROPERTIES
    AnsweredDespiteCrash
CHECK_DEADLOCK FALSE
