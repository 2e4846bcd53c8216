SPECIFICATION PciSpec
CONSTANTS
    AT = TRUE
    PCI = TRUE
    IrqLines = {1}
    Masks <- MasksNoneOrAll
    Icw1Values <- PlainIcw1
    AeoiValues = {FALSE, TRUE}
    Vectors = {8}
    ElcrValues <- EdgeOrLevel10
    ReadSelects = {}
    Cards = {5, 6}
    PinOf <- SharedPin
    Mirqs = {0}
    RouteValues = {10, 255}
    QuietGuest = TRUE
    UserResets = FALSE
INVARIANTS
    TypeOK
    PendingIsFresh
    InServiceMasked
    LineFollowsHolds
    HeldLineWaits
    HoldsAreWiredOr
