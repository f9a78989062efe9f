CONSTANTS
    p1 = p1
    p2 = p2
    absent = absent
    none = none
    Absent = absent
    None = none
    Procs = {p1, p2}
    Outputs = {1, 2}
    Initial = {{1}, {2}}
    MaxTxn = 2
    MaxKills = 2
SPECIFICATION LiveSpec
INVARIANTS
    RejectsOnlyTorn
PROPERTIES
    PublishesAtomically
    JournalsRetire
