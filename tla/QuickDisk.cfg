CONSTANTS
    Size = 8
    RecvSize = 1
    RtmpSize = 2
    Bisync = TRUE
    Inhibit = TRUE
    Images <- MCImages
    Bytes = {"byte"}
    Walk = 10
    MaxCommands = 6
SPECIFICATION Spec
INVARIANTS
    InFlight
    BlockFramed
PROPERTIES
    BreakAnnounced
CHECK_DEADLOCK FALSE
