SPECIFICATION Spec

CONSTANTS
    l1 = l1
    l2 = l2
    l3 = l3
    l4 = l4
    n1 = n1
    n2 = n2
    Leader <- FourLeaders
    Member <- TwoMembers
    KnownLeaders <- InALine
    NoLeader = NoLeader
    Wanted <- FirstToMember
    MaxRequests = 1

PROPERTIES
    NoLeaderTwice

CHECK_DEADLOCK FALSE
