SPECIFICATION Spec
CONSTANTS
    f1 = f1
    f2 = f2
    n1 = n1
    n2 = n2
    Files = {f1, f2}
    Internal = {n1, n2}
    MaxId = 6
INVARIANT LoadedIsWhole
INVARIANT IdsContinue
