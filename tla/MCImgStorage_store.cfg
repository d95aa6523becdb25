CONSTANTS
    Resolutions <- TwoResolutions
    Original = original
    Rasters = {i1, i2}
    Vectors = {v1}
    NoImage = NoImage
    Stores = {s1, s2}
    Faults = {"check", "timeout", "store", "crash", "worker crash"}
    MaxTasks = 3
    MaxFaults = 2
    small = small
    large = large
SPECIFICATION Spec
SYMMETRY Symmetry
INVARIANTS TypeOK LastImageStored LoadUndisturbed
PROPERTIES ImageKept AllResolutionsStored
CHECK_DEADLOCK FALSE
