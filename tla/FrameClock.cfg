CONSTANTS
    FrameClocks = {6, 7}
    Lines = {3, 4}
    Powers = {0, 2}
    MaxOp = 9
    Width = 3
    MaxFrame = 3
SPECIFICATION FairSpec
INVARIANTS
    FrameExact
    VlineInPlace
    PowerBalance
PROPERTIES
    FrameEnds
CHECK_DEADLOCK FALSE
