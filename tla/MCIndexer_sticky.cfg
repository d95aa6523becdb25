CONSTANTS
    Chain <- PlainChain
    Faults = {"db"}
    ResetSettings = {FALSE}
    MaxFaults = 1
    MaxUnclean = 0
    MaxStops = 0
SPECIFICATION Spec
INVARIANT LossBoundedByFaults
