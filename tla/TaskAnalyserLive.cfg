CONSTANTS
    NumTasks = 2
    h1 = h1
    h2 = h2
    f = f
    o = o
    Threads = {h1, h2}
    Apps = {h1, h2}
    AppOf <- OwnApp
    Data = {f, o}
    Objects = {o}
    Signatures <- SomeSignatures
    TaskData <- AllOfFirst
    MainData <- AllOfFirst
    Executions <- Single
    None = None
SPECIFICATION FairSpec
PROPERTIES
    ImplementsDataflow
    ThreadsReleased
CHECK_DEADLOCK FALSE
