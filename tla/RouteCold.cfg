SPECIFICATION Spec

CONSTANTS
    a = a
    b = b
    c = c
    d = d
    Node <- Three
    Links <- LineABC
    Wanted <- AToC
    MaxIssued <- OnlyA
    MaxHop = 4
    MaxSeq = 4
    MaxEpoch = 1
    TriggerRerr = FALSE
    NoRoute = NoRoute
    NoAddr = NoAddr
    NoHash = NoHash
    Garbage = Garbage
    NoKey = NoKey
    EmptyKey = EmptyKey

ACTION_CONSTRAINT
    KeysChangeWhenQuiet

INVARIANTS
    ReplyHasNextHop

CHECK_DEADLOCK FALSE
