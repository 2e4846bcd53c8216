SPECIFICATION FairSpec
CONSTANTS
    FullAt = 3
    WakeAbove = 2
    BufferCounts = {2, 3}
    Careful = FALSE
    Writes = 5
PROPERTY QueueNotStuck
