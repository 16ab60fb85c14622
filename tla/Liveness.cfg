CONSTANTS
    c1 = c1
    c2 = c2
    looper = looper
    Client <- TwoClients
    Looper <- looper
    Ops <- SplitOps
    MaxCalls = 3
    NumWork = 2
    MaxBatch = 1
    FrameIndex <- RepeatedFrames
    FlushClearsCodec = FALSE
SPECIFICATION FairSpec
PROPERTIES
    CallsReturn
    QueueIsServed
