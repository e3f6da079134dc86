CONSTANTS
    N = 1
    ControlCapacity = 2
    WorkCapacity = 3
    Rates <- MCRates
    SeqMod <- MCSeqMod
    MaxBlocks = 1
    MaxSeq = 1
    MaxReconnects = 0
SPECIFICATION Spec
INVARIANT NoPublishedBlockOrphaned
