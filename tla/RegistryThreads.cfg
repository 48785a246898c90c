SPECIFICATION CatalogSpec
CONSTANTS
    t1 = t1
    t2 = t2
    h1 = h1
    h2 = h2
    h3 = h3
    i1 = i1
    i2 = i2
    n1 = n1
    Threads = {t1, t2}
    HandlesOf <- TwoThreads
    Ids = {i1}
    NewIds = {}
    MaxObjects = 8
    MaxOwners = 2
INVARIANT NothingDangles
SYMMETRY SameHandles
