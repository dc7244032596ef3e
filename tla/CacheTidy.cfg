SPECIFICATION FairSpec
CONSTANTS
    f1 = f1
    f2 = f2
    f3 = f3
    None = None
    Fetches = {f1, f2, f3}
    Parallel = 1
    MaxVersion = 2
    MaxCrashes = 1
INVARIANTS
    TypeOK
    CachedIsWhole
    RenewedIsCurrent
PROPERTIES
    GarbageCollected
