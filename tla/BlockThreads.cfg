SPECIFICATION Spec
CONSTANTS
    t1 = t1
    t2 = t2
    t3 = t3
    v1 = v1
    source = source
    Threads = {t1, t2, t3}
    Values = {v1}
    Loaded = source
INVARIANT LoadedOnce
INVARIANT CellsExist
INVARIANT PlainWritesStay
PROPERTY CallsReturn
