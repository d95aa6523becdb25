CONSTANTS
    Chain <- TailChain
    Faults = {"put"}
    ResetSettings = {FALSE}
    MaxFaults = 0
    MaxUnclean = 2
    MaxStops = 1
SPECIFICATION FairSpec
INVARIANT NoTxLost
PROPERTIES FeedSpec CaughtUp
