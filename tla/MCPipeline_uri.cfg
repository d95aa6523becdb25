SPECIFICATION FairSpec
CONSTANTS
    Tokens = {"t1"}
    Uris = {"u1", "u2"}
    Owners = {"ann"}
    Metadata <- OneAnswer
    Workers = {"w1"}
    Tasks = {}
    Faults = {}
    MaxTasks = 2
    MaxChanges = 0
    MaxCrashes = 0
    MaxFaults = 0
    Percent = 40
    DaemonFaults = {}
    MaxStops = 0
    MaxFailures = 0
    MaxReady = 1
    Kinds = {"edit"}
PROPERTY DocumentFollowsChain
CHECK_DEADLOCK FALSE
