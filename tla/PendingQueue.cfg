SPECIFICATION Spec

CONSTANTS
    d1 = d1
    d2 = d2
    d3 = d3
    m1 = m1
    m2 = m2
    Dest <- ThreeDests
    Msg <- TwoMsgs
    NoMsg = NoMsg
    MaxPending = 2
    CleanupThreshold = 1
    Timeout = 2
    MaxTime = 3
    MaxDiscoveries = 1

SYMMETRY Symmetry

INVARIANTS
    TypeOK
    SentOnce
    WithinLimit

CHECK_DEADLOCK FALSE
