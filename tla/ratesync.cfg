CONSTANTS
    Rates <- MCRates
    DefaultRate = 48
    RingCapacity = 2
    MaxChanges = 4
    MaxFailures = 1
SPECIFICATION Spec
INVARIANTS
    UnmutedIsResolved
    ProceedsAtWantedRates
    PendingIsServed
PROPERTIES
    InstalledAsRequested
    MuteEnds
