CONSTANTS
    Rates <- MCRates
    DefaultRate = 48
    RingCapacity = 1
    MaxChanges = 2
    MaxFailures = 2
SPECIFICATION Spec
PROPERTY OnlyStaleMarkersDropped
