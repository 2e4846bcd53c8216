SPECIFICATION FairSpec
CONSTANTS
    Commands <- Switching
    FixedWindow = FALSE
    StatusIcons = FALSE
    InitMayFail = FALSE
    DeviceLost = TRUE
    BlankPalette = TRUE
INVARIANT
    NoLostWakeup
PROPERTIES
    UiServes
    EmulatorProceeds
    CloseCompletes
