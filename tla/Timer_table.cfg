SPECIFICATION Spec
CONSTANTS
    Timers <- Table
    Always <- Video
    SelfEnabled <- Floppy
    Synced <- Pit
    Rings <- VideoRings
    Nested <- Nobody
    Periods = {2, 5}
    MaxSlice = 3
    Slack = 1
INVARIANT NeverVeryLate
PROPERTY RingsOnTime
