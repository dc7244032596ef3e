SPECIFICATION FairSpec
CONSTANTS
    c1 = c1
    c2 = c2
    c3 = c3
    k1 = k1
    k2 = k2
    b1 = b1
    b2 = b2
    NoSeg = NoSeg
    Server = Server
    Calls <- ThreeCalls
    Keys = {k1, k2}
    KeyOf <- TwoKeys
    Subs = {b1}
    SubOf <- OneSub
    Concurrency <- OnePermit
    InitSegments = 1
PROPERTIES
    WaitEnds
