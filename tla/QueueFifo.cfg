SPECIFICATION FairSpec

CONSTANTS
    r1 = r1
    r2 = r2
    Receiver <- TwoReceivers
    MaxQueueSize = 3
    MaxArrivals = 6

INVARIANTS
    TypeOK
    NoLostWakeUp

PROPERTIES
    ImplementsFifo
    EventuallyPast

CHECK_DEADLOCK FALSE
