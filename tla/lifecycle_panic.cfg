CONSTANTS
    Streams <- MCStreams
    MaxAttempts = 1
SPECIFICATION Spec
INVARIANT PanicIsNoSuccess
CHECK_DEADLOCK FALSE
