SPECIFICATION FairTreeSpec

CONSTANTS
    a = a
    b = b
    c = c
    d = d
    e = e
    f = f
    g = g
    h = h
    i = i
    Node <- Nine
    Links <- DiamondAndTail
    Wanted <- AToEnd
    MaxIssued <- OnlyATwice
    MaxHop = 8
    MaxSeq = 4
    MaxEpoch = 0
    TriggerRerr = FALSE
    NoRoute = NoRoute
    NoAddr = NoAddr
    NoHash = NoHash
    Garbage = Garbage
    NoKey = NoKey
    EmptyKey = EmptyKey

INVARIANTS
    ChainLastsForItsRequests
    AlwaysVerified
    RootNamesPath
    SeventhForgetsFifth
    RelayedOnce
    NeverRoutesToItself
    CacheHitIsRecomputation
PROPERTIES
    RouteFound

CHECK_DEADLOCK FALSE
