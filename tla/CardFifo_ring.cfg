SPECIFICATION FairSpec
CONSTANTS
    Size = 5
    FullAt = 4
    Threshold = 2
    WakeBelow = 2
    StatusWakes = TRUE
    Writes = 12
INVARIANTS
    CardIsWoken
    RoomIsSignalled
PROPERTIES
    ImplementsAccelerator
    CpuNotStuck
