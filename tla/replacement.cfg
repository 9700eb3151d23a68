SPECIFICATION Spec
CONSTANTS
    Project = {p1, p2}
    None = None
    RollsBackDecided = FALSE
    MaxCrashes = 2
    MaxFaults = 1
    MaxEdits = 1
INVARIANTS RevisionsSafe SettledOrLocked
PROPERTIES ImplementsCohortChange StartsInTheEnd
CHECK_DEADLOCK FALSE
