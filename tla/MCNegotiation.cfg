SPECIFICATION FairSpec
CONSTANTS
    MaxCandidates = 1
INVARIANTS
    LeavingIsHarmless
    NeverRefused
PROPERTIES
    BothConnect
    AllOver
    RoomAsPromised
CHECK_DEADLOCK FALSE
