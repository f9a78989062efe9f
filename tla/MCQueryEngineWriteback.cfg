CONSTANTS
    t1 = t1
    t2 = t2
    Threads <- MCThreads
    Nodes <- DiamondNodes
    Inputs = {1}
    Values = {0, 1}
    Policy <- OpaquePolicy
    NextRead <- DiamondReads
    Provide <- DiamondProvide
    Done <- MCDone
    MaxReads = 2
    Fallible = {}
    Broken = {}
    MaxChanges = 1
    Overlapping = TRUE
SPECIFICATION Spec
SYMMETRY ThreadSymmetry
INVARIANTS
    NoStaleWriteback
