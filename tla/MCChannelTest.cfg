SPECIFICATION FairSpec
CONSTANTS
    Streams = {1, 2}
    Chunk = 2
    MaxPieces <- OneChunk
    HighWatermark = 1
    QueueLimit = 1
INVARIANTS
    NothingMissing
PROPERTIES
    CalmSucceeds
    BothEnd
CHECK_DEADLOCK FALSE
