SPECIFICATION TransportSpec
CONSTANTS
    HeaderSize = 2
    MaxLen = 12
    SendRequest = 7
    SendCeiling = 2
    BurstCap = 2
    Slack = 1
    MaxTime = 9
    MaxBits = 8
    MaxDuplicates = 1
    MaxBytes = 5
    ChunkSizes = {0, 1, 3}
    ReadSizes = {1, 2, 4}
    MaxReads = 3
    MaxChunks = 3
INVARIANTS
    ProbeExact
    RateKept
    Accounted
    LossReal
    Conserved
    NeverStranded
CONSTRAINT
    Bounds
CHECK_DEADLOCK FALSE
