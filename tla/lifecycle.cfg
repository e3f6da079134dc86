CONSTANTS
    Streams <- MCStreams
    MaxAttempts = 2
SPECIFICATION Spec
INVARIANTS
    StatusIsTrue
    EndIsHonest
PROPERTIES
    SignalEnds
    EstablishedLossEnds
CHECK_DEADLOCK FALSE
