SPECIFICATION FairSpec
CONSTANTS
    Tokens = {"t1"}
    Uris = {"u1", "u2"}
    Owners = {"ann"}
    Metadata <- MCMetadata
    Workers = {"w1"}
    Tasks = {}
    Faults = {"web", "upsert"}
    MaxTasks = 2
    MaxChanges = 1
    MaxCrashes = 1
    MaxFaults = 1
    Percent = 40
    DaemonFaults = {}
    MaxStops = 0
    MaxFailures = 0
    MaxReady = 1
    Kinds = {"edit", "transfer"}
PROPERTIES
    Documented
    ContentFollows
CHECK_DEADLOCK FALSE
