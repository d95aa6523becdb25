CONSTANTS
    Resolutions <- TwoResolutions
    Original = original
    Rasters = {i1}
    Vectors = {v1}
    NoImage = NoImage
    Stores = {s1, s2}
    Faults = {"check"}
    MaxTasks = 2
    MaxFaults = 1
    small = small
    large = large
SPECIFICATION Spec
PROPERTY OwnFileLeft
CHECK_DEADLOCK FALSE
