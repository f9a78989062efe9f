CONSTANTS
    t1 = t1
    t2 = t2
    t3 = t3
    t4 = t4
    unknown = unknown
    Unknown = unknown
    Threads = {t1, t2, t3, t4}
    Cpus = 8
    Limit = 7
    LaneMemory = 1
    MaxLanes = 4
    Minimum = 2
    Available <- MCAvailable
    MaxDepth = 2
SPECIFICATION LiveSpec
INVARIANTS
    PermitsCounted
    LanesFitMemory
    SleepersHaveWaker
PROPERTIES
    AcquiresReturn
