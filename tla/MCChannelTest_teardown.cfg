SPECIFICATION FairSpec
CONSTANTS
    Streams = {1}
    Chunk = 2
    MaxPieces <- OneChunk
    HighWatermark = 1
    QueueLimit = 1
PROPERTIES
    TeardownEnds
CHECK_DEADLOCK FALSE
