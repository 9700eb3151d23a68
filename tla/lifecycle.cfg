SPECIFICATION LifecycleSpec
CONSTANTS
    Nothing = Nothing
    MaxMounts = 2
    MaxSessions = 3
    MaxDeltas = 2
    MaxAnswers = 1
    MaxFailures = 3
INVARIANTS SessionsApart ReviewHoldsFolder AcceptedIsMerged
PROPERTIES MergedBeforeStop UsesChannel DeliveredSettles SessionFollowsMount
CHECK_DEADLOCK FALSE
