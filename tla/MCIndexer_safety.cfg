CONSTANTS
    Chain <- HardChain
    Faults = {"rpc", "db", "put"}
    ResetSettings = {TRUE, FALSE}
    MaxFaults = 1
    MaxUnclean = 2
    MaxStops = 1
SPECIFICATION Spec
INVARIANTS TypeOK ReplayBound MessageHasTx RowTellsTruth
PROPERTIES CursorMonotonic NoHandleBelowCursor NothingAfterStop
