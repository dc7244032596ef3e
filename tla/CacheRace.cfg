SPECIFICATION Spec
CONSTANTS
    f1 = f1
    f2 = f2
    f3 = f3
    None = None
    Fetches = {f1, f2, f3}
    Parallel = 2
    MaxVersion = 1
    MaxCrashes = 0
INVARIANTS
    CachedIsWhole
