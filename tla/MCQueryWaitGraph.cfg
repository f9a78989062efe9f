CONSTANTS
    n1 = n1
    n2 = n2
    n3 = n3
    n4 = n4
    w1 = w1
    w2 = w2
    w3 = w3
    w4 = w4
    None = None
    Nodes = {n1, n2, n3, n4}
    Waiters = {w1, w2, w3, w4}
SPECIFICATION Spec
SYMMETRY Symmetry
INVARIANTS
    NoWaitCycle
    CountsAreGuards
    FramesAreLive
    PathIsReachability
