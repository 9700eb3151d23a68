SPECIFICATION Spec
CONSTANTS
    Project = {p1, p2}
    None = None
    RollsBackDecided = TRUE
    MaxCrashes = 0
    MaxFaults = 0
    MaxEdits = 0
PROPERTY DecidedNotRolledBack
CHECK_DEADLOCK FALSE
