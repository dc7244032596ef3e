SPECIFICATION Spec
CONSTANTS
    r1 = r1
    r2 = r2
    r3 = r3
    u1 = u1
    u2 = u2
    k1 = k1
    k2 = k2
    k3 = k3
    b1 = b1
    b2 = b2
    NoSub = NoSub
    Requests = {r1, r2, r3}
    Clients = {u1, u2}
    ClientOf <- MCClientOf
    SourcesOf <- MCSourcesOf
    Keys = {k1, k2, k3}
    Subs = {b1, b2}
    Concurrency <- OnePermit
    GlobalLimit = 2
    ClientLimit <- MCClientLimit
SYMMETRY PairSymmetry
INVARIANTS
    TypeOK
    PermitAccounting
    ServedWithinLimits
    ServedReleasesPermits
    ViewersSharePermit
