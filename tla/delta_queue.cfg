SPECIFICATION FairSpec
CONSTANTS
    r1 = r1
    r2 = r2
    d1 = d1
    d2 = d2
    d3 = d3
    Root = {r1, r2}
    Delta = {d1, d2, d3}
    RootOf <- MCRootOf
    None = None
    Queue = {q1, q2, q3}
    MaxRemembered = 2
    MaxItems = 2
INVARIANTS StopAfterDrain MemoryExact
PROPERTIES ImplementsChannel NothingStuck
CHECK_DEADLOCK FALSE
