CONSTANTS
    owner = owner
    other = other
    worker = worker
    nobody = nobody
    Threads = {owner, other, worker}
    Workers = {worker}
    MaxDepth = 2
    BatchSize = 2
    Nobody = nobody
SPECIFICATION LiveSpec
CHECK_DEADLOCK FALSE
PROPERTIES
    RetirementProceeds
