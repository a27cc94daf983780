CONSTANTS
    BUSY_TIME = 4
    ACK_TIME = 2
    WAIT_FRAMES = 2
    MAX_EVENT = 3
SPECIFICATION Spec
INVARIANTS
    TypeOK
    IdsLive
    HandshakeInTime
    FileClosedInTime
