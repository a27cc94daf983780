CONSTANTS
    Base = 2
    cpu_clocks = 25
    freq = 6
    Programs <- MCPrograms
    Bytes = {0, 1}
SPECIFICATION Spec
INVARIANTS
    TypeOK
    RunningHasEvent
    CountInStep
    OutputOnTime
PROPERTIES
    ReadsOneCount
    ChainCountsTogether
VIEW View
