CONSTANTS
    t1 = t1
    t2 = t2
    t3 = t3
    t4 = t4
    Task <- MCTask
    Awaits <- MCAwaits
    Thread = {x1, x2, x3, x4, x5}
    InitCount = 1
    AppendCount = 2
    PerfectArg = 2
    MaxArg = 3
    MaxQueueLength = 3
    Latency = 1
SPECIFICATION Spec
INVARIANTS
    TypeOK
    NoLostWakeup
    EnoughThreads
    CountsAgree
PROPERTIES
    ImplementsExecutor
    ReleaseReturns
CHECK_DEADLOCK FALSE
