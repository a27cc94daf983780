CONSTANTS
    Tapes = {A, B}
    Disks = {D, E}
    Recordings = {R, S}
    Unreadable = {A, E}
    Unwritable = {S}
    Vanishing = {B, D}
    NoFile = NoFile
    MaxClicks = 2
SPECIFICATION Spec
INVARIANTS
    ResetAfterItsCommands
    MediaSurviveReset
    LabelsShowMedia
CHECK_DEADLOCK FALSE
