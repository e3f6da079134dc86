CONSTANTS
    Streams <- MCStreams
    MaxAttempts = 1
SPECIFICATION Spec
PROPERTY NoZombie
CHECK_DEADLOCK FALSE
