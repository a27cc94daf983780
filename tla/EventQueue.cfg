CONSTANTS
    MAX_EVENT = 3
    Clients = {"pit", "ack", "tape"}
    Anonymous = {}
    Periodic = {"tape"}
    Latching = {"pit"}
    Forgetting = {"ack"}
    Devices = {"pit", "printer", "drec"}
    Owner <- MCOwner
    NoClient = "none"
    Clocks = {1, 2}
    LoopClocks = {1536}
    MaxClock = 4
VIEW View
SPECIFICATION HSpec
INVARIANTS
    TypeOK
    ListsPartitionSlots
    EventsOnTime
    IdsMatchEvents
PROPERTIES
    OnlyLegalRemovals
    ImplementsTimers
