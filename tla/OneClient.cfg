CONSTANTS
    c1 = c1
    c2 = c2
    looper = looper
    Client <- OneClient
    Looper <- looper
    Ops <- AllOps
    MaxCalls = 7
    NumWork = 2
    MaxBatch = 2
    FrameIndex <- DistinctFrames
    FlushClearsCodec = TRUE
SPECIFICATION Spec
INVARIANTS
    TypeOK
    OneOwner
    NoLostWakeup
    StoppedIsQuiet
PROPERTIES
    ListenerLeavesWhenQuiet
