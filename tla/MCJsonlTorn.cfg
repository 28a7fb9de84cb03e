SPECIFICATION LogSpec
CONSTANTS
    Ids = {i1, i2}
    Junk = Junk
    NoTail = NoTail
    ErrorLeaves = {"none", "line"}
    MaxPuts = 3
    MaxErrors = 0
    MaxCrashes = 1
INVARIANTS
    AcknowledgedSurvives
CHECK_DEADLOCK FALSE
