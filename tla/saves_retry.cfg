SPECIFICATION Spec
CONSTANTS
    Passage = {p, q}
    Text = {s, t, u}
    None = None
    Mutations = {"persisted"}
    FallsBack = TRUE
    MaxRevision = 4
    MaxFailures = 2
INVARIANTS IdleOnDisk FailedTextRetryable
CHECK_DEADLOCK FALSE
