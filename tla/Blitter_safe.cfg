SPECIFICATION Spec
CONSTANTS
    Commands <- Everything
    FixedWindow = TRUE
    StatusIcons = TRUE
    InitMayFail = TRUE
    DeviceLost = FALSE
    BlankPalette = FALSE
CHECK_DEADLOCK FALSE
INVARIANTS
    RendererNotShared
    NoTornCopy
PROPERTY
    SliceNotCut
