SPECIFICATION FairSpec
CONSTANTS
    Tokens = {"t1"}
    Uris = {"u1"}
    Owners = {"ann", "bob"}
    Metadata <- MCMetadata
    Workers = {"w1", "w2"}
    Tasks <- MCTasks
    Faults = {"web", "find", "upsert", "sender"}
    MaxTasks = 2
    MaxChanges = 1
    MaxCrashes = 2
    MaxFaults = 1
INVARIANTS
    TypeOK
    LostDocumentsBounded
    OneDocumentPerWorker
    ImageAnnounced
PROPERTY
    Drained
CHECK_DEADLOCK FALSE
