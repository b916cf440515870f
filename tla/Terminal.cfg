SPECIFICATION FairSpec

CONSTANTS
    MaxLines = 5
    MaxCount = 3

INVARIANTS
    TypeOK
    NoStaleAnswer
    LostInPairs

PROPERTIES
    OneGoesOn

CHECK_DEADLOCK FALSE
