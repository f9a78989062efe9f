CONSTANTS
    c1 = c1
    c2 = c2
    none = none
    NoBatch = none
    Executors = {1, 2}
    Parallelism <- NestedLanes
    Capacity = 3
    Callers = {c1, c2}
    Workers <- MCWorkers
    Batches = {1, 2, 3}
    Home <- NestedHome
    Size <- NestedSize
    Roots = {1, 3}
    Child <- NestedChild
    Stuck = {}
    Pools = {3}
    MaxParallelism = 2
CHECK_DEADLOCK FALSE
SPECIFICATION Spec
INVARIANTS
    PermitsCounted
    LanesBounded
    TasksOnce
    OwnersOutliveTasks
