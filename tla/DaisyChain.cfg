CONSTANTS
    Chain <- MCChain
    RecvSize = 2
    Wr1Values <- MCWr1Values
    Active <- MCActive
    MaxEvents = 3
SPECIFICATION Spec
INVARIANTS
    LinesTrue
    ServicesNest
    PlainOnTop
PROPERTIES
    AckNamesCause
