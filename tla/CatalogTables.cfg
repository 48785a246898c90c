SPECIFICATION MCSpec
CONSTANTS
    u1 = u1
    u2 = u2
    p1 = p1
    p2 = p2
    Urls <- TwoUrls
    NoUrl = NoUrl
    Scanners = {s1}
    Openers = {o1}
    MaxId = 3
    Places <- TwoPlaces
    Free = Free
    Failing = {"insert","delete","update"}
INVARIANT HashesMatchRows ObjectsAreFound
CHECK_DEADLOCK FALSE
SYMMETRY SameUrls
