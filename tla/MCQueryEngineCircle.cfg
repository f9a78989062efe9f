CONSTANTS
    t1 = t1
    t2 = t2
    Threads <- MCThreads
    Nodes <- CircleNodes
    Inputs = {}
    Values = {0}
    Policy <- CirclePolicy
    NextRead <- CircleReads
    Provide <- ConstantProvide
    Done <- MCDone
    MaxReads = 1
    Fallible = {}
    Broken = {}
    MaxChanges = 0
    Overlapping = FALSE
SPECIFICATION Spec
INVARIANTS
    NoCircularWait
