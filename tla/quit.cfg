SPECIFICATION Spec
CONSTANTS
    Editor = {e1, e2}
    None = None
    MaxEdits = 3
    MaxFailures = 1
    MaxTimeouts = 1
    MaxLosses = 1
INVARIANTS ExitKeepsText PreparedIsQuiet
PROPERTIES ReopenedOrExited QuitsInTheEnd
CHECK_DEADLOCK FALSE
