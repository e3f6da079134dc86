CONSTANTS
    MaxAttempts = 3
    Backoff <- MCBackoff
    StableReset = 3
    MaxTime = 10
    Never = Never
    Production <- MCProduction
    Width = 16
    Timeouts <- MCTimeouts
    Deliveries = {d1, d2}
    DefaultWindow = 1
    RecordingWindow = 2
    LastInstant = 3
    Latencies = {0, 3}
    HostRates = {2, 4}
    ModelRates = {2, 4}
    NominalRate = 2
    MaxInstalls = 2
    MaxInstances = 2
    MaxThreads = 2
    Events = 2
    LogCapacity = 1
    Bits = {b1}
    Sticky = {}
    Counters = {c1}
    MaxBringups = 2
    LineInterval = 2
    LastPoll = 4
    MaxTransitions = 4
    Quanta = {1, 3}
    MaxPosts = 2
    MaxQuanta = 3
    ProbeTimeout = 2
    DrainGrace = 1
    ReapGrace = 2
    Ceiling = 3
    ScratchBytes = 2
    PipeBytes = 2
    NameEnd = 2
    MaxWritten = 4
    MaxInterrupts = 1
    BringupQuantums = 2
    SuppressedPolls = 2
    MaxSessions = 2
    MaxHosts = 2
    MaxDrops = 1
    MaxOverloads = 1
    FrameBytes = 2
    MaxFrames = 2
    Channels <- MCChannels
    Quantums = {1, 3}
    MaxBlocks = 4
    MaxPlayed = 3
SPECIFICATION ControlSpec
INVARIANTS
    ControlTypeOK
    WaitsAreBounded
    LogIsComplete
    TelemetryIsHonest
    HostMemoryIsSound
PROPERTIES
    ImplementsBudget
    EscalationIsDeliberate
    NothingIsIgnored
    SnapshotIsCoherent
    LatencyConverges
    BlockStaysWhole
CHECK_DEADLOCK FALSE
