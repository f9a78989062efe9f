CONSTANTS
    t1 = t1
    t2 = t2
    Threads <- MCThreads
    Nodes <- TowerNodes
    Inputs = {1}
    Values = {0, 1, 2}
    Policy <- TowerPolicy
    NextRead <- DiamondReads
    Provide <- DiamondProvide
    Done <- MCDone
    MaxReads = 2
    Fallible = {2}
    Broken = {1}
    MaxChanges = 2
    Overlapping = FALSE
SPECIFICATION Spec
SYMMETRY ThreadSymmetry
CHECK_DEADLOCK FALSE
INVARIANTS
    OneComputer
    ReadyIsCurrent
    EdgesCoverReads
    ReadyStandsOnReady
