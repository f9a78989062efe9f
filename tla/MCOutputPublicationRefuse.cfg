CONSTANTS
    p1 = p1
    p2 = p2
    absent = absent
    none = none
    Absent = absent
    None = none
    Procs = {p1, p2}
    Outputs = {1}
    Initial = {{}}
    MaxTxn = 2
    MaxKills = 0
SPECIFICATION Spec
INVARIANTS
    RefusesOnlyDamage
