SPECIFICATION FairSpec
CONSTANTS
    FullAt = 3
    WakeAbove = 2
    BufferCounts = {2, 3}
    Careful = TRUE
    Writes = 6
INVARIANTS
    ReadSeesAll
    BuffersApart
PROPERTIES
    FramesInOrder
    ReadsReturn
    QueueNotStuck
    FifoDrains
