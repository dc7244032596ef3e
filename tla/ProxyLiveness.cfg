SPECIFICATION FairSpec
CONSTANTS
    r1 = r1
    r2 = r2
    r3 = r3
    u1 = u1
    u2 = u2
    k1 = k1
    k2 = k2
    k3 = k3
    b1 = b1
    b2 = b2
    NoSub = NoSub
    Requests = {r1, r2}
    Clients = {u1}
    ClientOf <- TwoClientOf
    SourcesOf <- TwoSourcesOf
    Keys = {k1, k2}
    Subs = {b1}
    Concurrency <- OnePermit
    GlobalLimit = 1
    ClientLimit <- NoClientLimit
PROPERTIES
    RequestsAnswered
