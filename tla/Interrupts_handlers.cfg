SPECIFICATION FairIntSpec
CONSTANTS
    AT = TRUE
    PCI = TRUE
    IrqLines = {1, 5, 9}
    Masks <- NoMasks
    Icw1Values <- Empty
    AeoiValues = {FALSE}
    Vectors = {8}
    ElcrValues <- Empty
    ReadSelects = {}
    Cards = {5, 6}
    PinOf <- SharedPin
    Mirqs = {}
    RouteValues = {}
    QuietGuest = TRUE
    UserResets = FALSE
    PciLine = 11
INVARIANTS
    ServiceMatchesHandlers
PROPERTIES
    ImplementsOneController
    RequestsAnswered
    PinsServiced
