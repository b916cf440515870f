SPECIFICATION FairSpec

CONSTANTS
    c1 = c1
    c2 = c2
    Cert <- TwoCerts
    Slashless <- FirstCert
    Listable <- TextAndSerial
    Addressed <- TwoCerts
    Period = 3
    InitialDelay = 1
    MaxDelay = 2

INVARIANTS
    TypeOK
    NoticedInTime
    RefusedInTime

PROPERTIES
    NoticedInTheEnd
    FailsOpen

CHECK_DEADLOCK FALSE
