SPECIFICATION FairRuntimeSpec
CONSTANTS
    Ids = {"i1"}
    Interval = 1
    HealthyThreshold = 2
    UnhealthyThreshold = 2
    Clients = {"host", "operator"}
    Hosted <- MCHosted
    RegisteredAs = {"Serving"}
    ReportedAs = {"NotServing"}
    QueueSize = 2
    None = None
INVARIANTS
    LeftStaysLeft
PROPERTIES
    FlapDamped
    StatusFollowsProbes
