SPECIFICATION RedisSpec
CONSTANTS
    Scopes = {"prod"}
    Services = {"api", "jobs"}
    InstanceIds = {i1}
    Keys <- MCKeys
    KeyRank <- MCKeyRank
    Applications = {}
    Groups = {"main"}
    None = None
    Status = {"Serving"}
    Ttls = {1, 3}
    MinTtl = 1
    MaxTtl = 3
    MaxU64 = 3
    ScanBatch = 1
    Retention = 2
    GcBatch = 1
    CompactKeep = 1
    MaxClock = 1
    MaxRevision = 2
    ConfigKeys = {"timeout"}
    Values <- MCValues
    MaxBodyBytes = 1
    AllowSecretRefs = TRUE
    AllowSecretValues = FALSE
    IdempotencyKeys = {"k1"}
    Hashes = {"h1"}
    MaxDrafts = 1
    MaxReleases = 2
PROPERTIES
    CommandsAreDurable
