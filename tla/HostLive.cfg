CONSTANTS
    Tapes = {A}
    Disks = {}
    Recordings = {}
    Unreadable = {}
    Unwritable = {}
    Vanishing = {}
    NoFile = NoFile
    MaxClicks = 2
SPECIFICATION FairSpec
PROPERTIES
    ProgramEnds
    RequestsServed
CHECK_DEADLOCK FALSE
