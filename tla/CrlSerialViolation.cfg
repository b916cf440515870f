SPECIFICATION FairSpec

CONSTANTS
    c1 = c1
    c2 = c2
    Cert <- TwoCerts
    Slashless <- FirstCert
    Listable <- TextAndSerial
    Addressed <- TwoCerts
    Period = 2
    InitialDelay = 1
    MaxDelay = 1

PROPERTY SerialNoticedInTheEnd

CHECK_DEADLOCK FALSE
