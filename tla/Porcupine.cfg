SPECIFICATION FairSpec
CONSTANTS
    Histories <- SomeHistories
    EventHistories <- SomeEvents
    ChunkBits = 2
CHECK_DEADLOCK FALSE
INVARIANTS
    ListIntact
    StackIsLinearization
    VerdictRight
    LongestRight
PROPERTY CheckEnds
