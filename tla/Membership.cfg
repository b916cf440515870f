SPECIFICATION FairSpec

CONSTANTS
    l = l
    m = m
    Node <- LeaderAndMember
    Leader <- OneLeader
    NoAddr = NoAddr
    RetryEvery = 3
    MaxDelay = 1
    Window = 2
    JoinEvery = 2
    ChallengeLife = 2

INVARIANTS
    TypeOK
    CertificateInTime
    LearnsLeader
    ChallengeIsTimed
    NobodyJoins

PROPERTIES
    KeepsAsking

CHECK_DEADLOCK FALSE
