CONSTANTS
    p1 = p1
    p2 = p2
    none = none
    None = none
    Procs = {p1, p2}
    Platforms = {"unix", "windows"}
    MaxKills = 2
    WritesFail = TRUE
    Patience = TRUE
SPECIFICATION LiveSpec
INVARIANTS
    WindowsExcludes
    LockedOwnerSpared
PROPERTIES
    StaleLocksGo
    CreatorsProceed
