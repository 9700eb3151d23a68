SPECIFICATION FairSpec
CONSTANTS
    Path = {p}
    AssetPath = {}
    Savers = {s}
    AssetEffects = {}
    Resolver = resolver
    Resolutions = {"keepApp", "acceptDisk"}
    None = None
    MaxVersions = 3
    MaxSaves = 2
    MaxDeltas = 2
INVARIANTS OwnWritesNotDelivered
PROPERTIES LeaseHeld ExternalChangesSettle
CHECK_DEADLOCK FALSE
