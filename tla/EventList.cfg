CONSTANTS
    MAX_EVENT = 3
    Clients = {"vline", "send", "recv", "tape"}
    Anonymous = {"vline"}
    Periodic = {"tape"}
    Latching = {}
    Forgetting = {}
    Devices = {"event", "sio", "drec"}
    Owner <- MCOwner
    NoClient = "none"
    Clocks = {1, 2}
    LoopClocks = {1536}
    MaxClock = 3
VIEW View
SPECIFICATION LFairSpec
INVARIANTS
    PointersHoldLists
PROPERTIES
    UpdateTerminates
