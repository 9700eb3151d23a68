SPECIFICATION FairSpec
CONSTANTS
    Passage = {p, q}
    Text = {s, t}
    None = None
    Mutations = {"persisted", "plain", "broad"}
    FallsBack = FALSE
    MaxRevision = 5
    MaxFailures = 0
INVARIANTS IdleOnDisk
PROPERTIES AcknowledgedOnDisk EventuallyClean
CHECK_DEADLOCK FALSE
