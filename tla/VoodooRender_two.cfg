SPECIFICATION FairSpec
CONSTANTS
    NThreads = 2
    ParamSize = 2
    RoomAbove = 0
    WakeBelow = 2
    Entries = {e1}
    Textures = {t1, t2}
    Gone = gone
    Commands = 3
INVARIANTS
    ParamsAsQueued
    TextureAsQueued
    FramebufferQuiet
    RendererIsWoken
PROPERTY
    FifoNotStuck
