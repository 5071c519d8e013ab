SPECIFICATION ConfigSpec
CONSTANTS
    Scopes = {"prod"}
    Services = {"api"}
    InstanceIds = {}
    Keys = {}
    Applications = {"shop"}
    Groups = {"main"}
    None = None
    Retention = 1
    GcBatch = 1
    CompactKeep = 1
    ConfigKeys = {"timeout"}
    Values <- MCValues
    MaxBodyBytes = 2
    AllowSecretRefs = TRUE
    AllowSecretValues = FALSE
    IdempotencyKeys = {"k1"}
    Hashes = {"h1"}
    MaxDrafts = 2
    MaxReleases = 3
PROPERTIES
    WatchTellsEffectiveChange
