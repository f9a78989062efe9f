CONSTANTS
    c1 = c1
    c2 = c2
    none = none
    NoBatch = none
    Executors = {1, 2}
    Parallelism <- LentLanes
    Capacity = 1
    Callers = {c1, c2}
    Workers <- MCWorkers
    Batches = {1, 2, 3, 4}
    Home <- LentHome
    Size <- LentSize
    Roots = {2, 4}
    Child <- LentChild
    Stuck <- LentStuck
    Pools = {4}
    MaxParallelism = 2
CHECK_DEADLOCK FALSE
SPECIFICATION LiveSpec
PROPERTIES
    BatchesFinish
    ShutdownCompletes
