SPECIFICATION FairSpec
CONSTANTS
    Tokens = {"t1", "t2", "t3"}
    Uris = {"u1"}
    Owners = {"ann"}
    Metadata <- MCMetadata
    Percent = 40
    DaemonFaults = {"mongo", "count", "find", "cursor", "touch"}
    MaxStops = 2
    MaxFailures = 1
    MaxReady = 1
INVARIANTS
    TypeOK
    CycleAlive
    CyclesBounded
PROPERTY
    EveryDocumentRefreshed
