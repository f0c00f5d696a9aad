CONSTANTS
    NumTasks = 3
    h1 = h1
    h2 = h2
    f = f
    o = o
    Threads = {h1, h2}
    Apps = {h1, h2}
    AppOf <- OwnApp
    Data = {f, o}
    Objects = {o}
    Signatures <- SomeSignatures
    TaskData <- FileShared
    MainData <- OwnObject
    Executions <- Single
    None = None
SPECIFICATION Spec
INVARIANTS
    TypeOK
    DependenciesRespected
    FailuresStopTheRuntime
    CountExact
    NoLostWakeup
PROPERTIES
    BarrierWaitsForTasks
CHECK_DEADLOCK FALSE
