SPECIFICATION OvertakingSpec

CONSTANTS
    a = a
    b = b
    c = c
    d = d
    Node <- Four
    Links <- Kite
    Wanted <- AToD
    MaxIssued <- OnlyATwice
    MaxHop = 3
    MaxSeq = 3
    MaxEpoch = 0
    TriggerRerr = TRUE
    NoRoute = NoRoute
    NoAddr = NoAddr
    NoHash = NoHash
    Garbage = Garbage
    NoKey = NoKey
    EmptyKey = EmptyKey

INVARIANTS
    TypeOK
    FirstHopInRange
    AuthenticRelayAccepted
    ErrorsTurnBack

CHECK_DEADLOCK FALSE
