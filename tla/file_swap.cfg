SPECIFICATION Spec
CONSTANTS
    Files = {f1, f2}
    None = None
    MaxCrashes = 2
    MaxFaults = 1
    MaxEdits = 2
INVARIANTS ForeignBytesKept AllOrNothing RevisionsKept
PROPERTIES JournalSettles
CHECK_DEADLOCK FALSE
