CONSTANTS
    a = a
    b = b
    c = c
    Actions = {a, b, c}
    Conservative = {b}
    Lanes = 2
    Selected = 4
    Steps <- FourSteps
    Drafts <- SmallDrafts
SPECIFICATION LiveSpec
CHECK_DEADLOCK FALSE
INVARIANTS
    InputsReady
    PermitsExclude
    KeepGoingReports
    FirstFailure
PROPERTIES
    BuildEnds
