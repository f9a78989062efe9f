CONSTANTS
    p1 = p1
    p2 = p2
    none = none
    None = none
    Procs = {p1, p2}
    Platforms = {"unix"}
    MaxKills = 0
    WritesFail = FALSE
    Patience = FALSE
SPECIFICATION Spec
INVARIANTS
    MutualExclusion
