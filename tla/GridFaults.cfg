SPECIFICATION MemorySpec
CONSTANTS
    u1 = u1
    v1 = v1
    MaxBlocks = 2
    MaxCache = 2
    Users = {u1}
    Values = {v1}
    Source <- BlockSource
    Serves = FALSE
    Creations = {TRUE, FALSE}
    Faults = {"saveOpen", "saveShort", "readOpen", "readShort"}
INVARIANT TypeOK
INVARIANT NothingHalfSaved
