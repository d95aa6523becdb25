CONSTANTS
    Chain <- CarryChain
    Faults = {}
    ResetSettings = {FALSE}
    MaxFaults = 0
    MaxUnclean = 0
    MaxStops = 0
SPECIFICATION Spec
INVARIANT EveryMessageStored
