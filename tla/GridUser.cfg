SPECIFICATION UserSpec
CONSTANTS
    u1 = u1
    v1 = v1
    MaxBlocks = 2
    MaxCache = 3
    Users = {u1}
    Values = {v1}
    Source <- BlockSource
    Serves = TRUE
    Creations = {TRUE, FALSE}
    Faults = {}
INVARIANT CacheListsMemory
PROPERTY IsRasterStore
