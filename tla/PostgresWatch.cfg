SPECIFICATION FairPgWatchSpec
CONSTANTS
    Procs = {p1}
    Scopes = {"prod"}
    Services = {"api", "jobs"}
    InstanceIds = {"i1", "i2"}
    Keys <- MCKeys
    KeyRank <- MCKeyRank
    Applications = {}
    Groups = {}
    None = None
    Retention = 9
    GcBatch = 1
    CompactKeep = 2
    Ttls = {1}
    Persistence = {FALSE}
    MaxI64 = 3
    ScanBatch = 2
    IdempotencyKeys = {}
    WatchScope = "prod"
    MaxClock = 1
    MaxRevision = 3
    MaxDrafts = 0
    WatchedService = "api"
    ReplayBatch = 1
PROPERTIES
    CatchesUp
