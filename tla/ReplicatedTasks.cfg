CONSTANTS
    NumTasks = 2
    h1 = h1
    h2 = h2
    f = f
    o = o
    Threads = {h1}
    Apps = {h1, h2}
    AppOf <- OwnApp
    Data = {f, o}
    Objects = {o}
    Signatures <- SomeSignatures
    TaskData <- FileShared
    MainData <- NoData
    Executions <- Double
    None = None
SPECIFICATION Spec
PROPERTIES
    BarrierWaitsForTasks
CHECK_DEADLOCK FALSE
