SPECIFICATION Spec
CONSTANTS
    c1 = c1
    c2 = c2
    c3 = c3
    k1 = k1
    k2 = k2
    b1 = b1
    b2 = b2
    NoSeg = NoSeg
    Server = Server
    Calls <- TwoCalls
    Keys = {k1}
    KeyOf <- OneKey
    Subs = {b1}
    SubOf <- OneSub
    Concurrency <- OnePermit
    InitSegments = 1
INVARIANTS
    RegisteredDirExists
