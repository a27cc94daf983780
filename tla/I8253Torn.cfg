CONSTANTS
    Base = 2
    cpu_clocks = 25
    freq = 6
    Programs <- MCPrograms
    Bytes = {0, 1}
SPECIFICATION Spec
PROPERTIES
    LoadsWholeCount
VIEW View
