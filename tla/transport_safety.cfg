CONSTANTS
    N = 2
    ControlCapacity = 2
    WorkCapacity = 4
    Rates <- MCRates
    SeqMod <- MCSeqMod
    MaxBlocks = 3
    MaxSeq = 3
    MaxReconnects = 1
SPECIFICATION Spec
INVARIANTS
    SlotOwnership
    PushesNeverFail
    BarrierFindsItsMetadata
    RecordedInOrder
    OutcomeIsHonest
