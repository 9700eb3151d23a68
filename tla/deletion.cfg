SPECIFICATION Spec
CONSTANTS
    None = None
    Foreign = Foreign
    MaxCrashes = 2
    MaxFaults = 2
    MaxEdits = 2
INVARIANTS VersionsSafe SettledOrLocked
PROPERTIES ImplementsRemoval StartsInTheEnd
CHECK_DEADLOCK FALSE
