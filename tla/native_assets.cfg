SPECIFICATION FairSpec
CONSTANTS
    Path = {}
    AssetPath = {asset}
    Savers = {s}
    AssetEffects = {effect}
    Resolver = resolver
    Resolutions = {"acceptDisk", "dismiss"}
    None = None
    MaxVersions = 2
    MaxSaves = 1
    MaxDeltas = 2
PROPERTIES ExternalChangesSettle
CHECK_DEADLOCK FALSE
