SPECIFICATION PgSpec
CONSTANTS
    Procs = {p1, p2}
    Scopes = {"prod", "test"}
    Services = {"api", "jobs"}
    InstanceIds = {i1}
    Keys <- MCKeys
    KeyRank <- MCKeyRank
    Applications = {}
    Groups = {}
    None = None
    Retention = 1
    GcBatch = 1
    CompactKeep = 1
    Ttls = {1}
    Persistence = {FALSE}
    MaxI64 = 3
    ScanBatch = 2
    IdempotencyKeys = {"k1"}
    WatchScope = "prod"
    MaxClock = 1
    MaxRevision = 2
    MaxDrafts = 1
SYMMETRY ProcSymmetry
INVARIANTS
    PgTypeOK
    OneReleasePerKey
    PgReplayTargetsExist
PROPERTIES
    PgLeaseHonoured
    PgKeepsPromise
