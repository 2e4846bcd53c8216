SPECIFICATION NicSpec
CONSTANTS
    PageStart = 1
    PageStop = 5
    FrameSizes = {1, 2}
    AckValues = {{"rx"}, {"tx"}}
    Frames = 3
INVARIANT
    RingIntact
