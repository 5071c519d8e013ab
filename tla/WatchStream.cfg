SPECIFICATION FairWatchSpec
CONSTANTS
    Scopes = {"prod"}
    Services = {"api", "jobs"}
    i1 = i1
    InstanceIds = {i1}
    Keys <- MCKeys
    Applications = {}
    Groups = {}
    None = None
    Retention = 1
    GcBatch = 1
    CompactKeep = 1
    WatchScope = "prod"
    WatchedService = "api"
    ReplayBatch = 1
    Capacity = 1
    BufferSize = 2
    ReadOnlyOnFailure = TRUE
    Stale = Stale
    MaxRevision = 3
INVARIANTS
    WatchTypeOK
    DeliveryInOrder
    NothingSkipped
    CaughtUpAgrees
PROPERTIES
    Converges
