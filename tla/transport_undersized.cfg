CONSTANTS
    N = 2
    ControlCapacity = 2
    WorkCapacity = 1
    Rates <- MCRates
    SeqMod = 4
    MaxBlocks = 2
    MaxSeq = 4
    MaxReconnects = 0
SPECIFICATION Spec
PROPERTIES
    ShutdownCompletes
    PublishedIsWritten
