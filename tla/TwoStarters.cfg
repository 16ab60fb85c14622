CONSTANTS
    c1 = c1
    c2 = c2
    looper = looper
    Client <- TwoClients
    Looper <- looper
    Ops <- StartOps
    MaxCalls = 2
    NumWork = 1
    MaxBatch = 1
    FrameIndex <- DistinctFrames
    FlushClearsCodec = TRUE
SPECIFICATION Spec
PROPERTIES
    InitOncePerReset
