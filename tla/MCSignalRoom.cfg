SPECIFICATION FairSpec
CONSTANTS
    Sockets = {s1, s2}
    Secrets = {k1}
    MaxSockets = 2
    BindDeadline = 1
    MaxCandidates = 1
    MaxForwardedBytes = 2
    FrameSizes = {1}
    MaxTime = 2
    MaxPendingBinds = 1
INVARIANTS
    OneOpenPerRole
    PairedTold
    ClosedShut
    AlarmCovers
PROPERTIES
    ImplementsContract
    RowHistory
    RoomEnds
