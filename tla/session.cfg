CONSTANTS
    Rates <- MCRates
    Times <- MCTimes
    BlockSizes <- MCBlockSizes
    Window = 2
    MaxField = 3
    Overhead = 1
    MaxUnits = 3
    MaxParts = 2
    MaxSessions = 2
SPECIFICATION Spec
INVARIANT
    TypeOK
    SegmentsHoldTheTake
    CheckpointBoundsLoss
    ZeroMeansKept
PROPERTY
    TakesAreKept
    FailureReachesUser
    ShutdownEnds
CHECK_DEADLOCK FALSE
