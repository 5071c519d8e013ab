SPECIFICATION Spec
CONSTANTS
    Scopes <- MCScopes
    Services <- MCServices
    InstanceIds <- MCInstanceIds
    Keys <- MCKeys
    KeyRank <- MCKeyRank
    Applications = {}
    Groups = {}
    None = None
    Status = {"Serving"}
    Ttls = {0, 1, 3}
    MinTtl = 1
    MaxTtl = 3
    MaxU64 = 4
    ScanBatch = 2
    Retention = 2
    GcBatch = 1
    CompactKeep = 1
    MaxClock = 2
    MaxRevision = 4
INVARIANTS
    TypeOK
    LeaseIndexSound
    LiveLeaseRenewable
    EventRevisionsUnique
    LogTellsPresence
PROPERTIES
    NewEventsAreNewest
    RowChangesAreLogged
    LeaseHonoured
    KeepsPromise
