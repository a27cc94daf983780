CONSTANTS
    size = 4
    Values = {1, 2, 3}
SPECIFICATION FifoSpec
PROPERTIES
    ImplementsQueue
