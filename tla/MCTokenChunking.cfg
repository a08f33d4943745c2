SPECIFICATION FairSpec
CONSTANTS
    MaxLen = 7
    MaxSize = 5
    MaxOverlap = 4
    MaxTokens = 4
    Lengths <- MCLengths
    ChunkSizes <- MCChunkSizes
    Overlaps <- MCOverlaps
INVARIANTS
    NothingLost
    ChunksAdvance
    CountAsExpected
PROPERTY
    Terminates
CHECK_DEADLOCK FALSE
