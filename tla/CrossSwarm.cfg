SPECIFICATION FairSpec

CONSTANTS
    l1 = l1
    l2 = l2
    l3 = l3
    l4 = l4
    n1 = n1
    n2 = n2
    Leader <- FourLeaders
    Member <- TwoMembers
    KnownLeaders <- InALine
    NoLeader = NoLeader
    Wanted <- BothEnds
    MaxRequests = 1

INVARIANTS
    TypeOK
    OnlyAtLeaders
    NeverBackToSigner
    StuckOnlyAsDestination

PROPERTIES
    ReachesDestination

CHECK_DEADLOCK FALSE
