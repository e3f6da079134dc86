CONSTANTS
    Rates <- MCRates
    BadRates <- MCBadRates
    Widths <- MCWidths
    TooFew <- MCTooFew
    Factors <- MCFactors
    Oversized <- MCOversized
    FirstRate = 48
    Full = 16
    StartFactor = 1
    RingCapacity = 1
    ParamBudget = 2
    GcCapacity = 1
    LotSize = 1
    MaxEvents = 2
    MaxFaults = 1
SPECIFICATION Spec
INVARIANTS
    TypeOK
    InstalledAsRequested
    LastCommandWins
    RequestsStand
PROPERTIES
    CabSettles
    GarbageReleased
