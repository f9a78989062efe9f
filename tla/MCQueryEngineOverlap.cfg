CONSTANTS
    t1 = t1
    t2 = t2
    Threads <- MCThreads
    Nodes <- DiamondNodes
    Inputs = {1}
    Values = {0, 1}
    Policy <- OpaquePolicy
    NextRead <- KnotReads
    Provide <- KnotProvide
    Done <- MCDone
    MaxReads = 2
    Fallible = {}
    Broken = {}
    MaxChanges = 2
    Overlapping = TRUE
SPECIFICATION LiveSpec
INVARIANTS
    OneComputer
    NoSpeculativeEdges
    InputIsCurrent
    NoCircularWait
PROPERTIES
    GetsReturn
