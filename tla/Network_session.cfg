SPECIFICATION FairSpec
CONSTANTS
    Types = {"slirp", "pcap"}
    StatusIcons = FALSE
    EarlyFrames = FALSE
    Sessions = 3
INVARIANTS
    LibraryOpen
    FrameToLiveCard
PROPERTIES
    CloseEnds
    PollResumes
