SPECIFICATION FairSpec
CONSTANTS
    Timers <- Table
    Always <- Video
    SelfEnabled <- Floppy
    Synced <- Pit
    Rings <- VideoRings
    Nested <- Floppy
    Periods = {2, 5}
    MaxSlice = 2
    Slack = 1
PROPERTY CpuResumes
