CONSTANTS
    c1 = c1
    c2 = c2
    none = none
    NoBatch = none
    Executors = {1}
    Parallelism <- LaneLanes
    Capacity = 1
    Callers = {c1, c2}
    Workers <- MCWorkers
    Batches = {1, 2}
    Home <- LaneHome
    Size <- LaneSize
    Roots = {1, 2}
    Child <- NoChild
    Stuck = {}
    Pools = {}
    MaxParallelism = 2
CHECK_DEADLOCK FALSE
SPECIFICATION LiveSpec
PROPERTIES
    BatchesFinish
