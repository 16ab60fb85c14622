CONSTANTS
    c1 = c1
    c2 = c2
    looper = looper
    Client <- TwoClients
    Looper <- looper
    Ops <- SplitOps
    MaxCalls = 4
    NumWork = 3
    MaxBatch = 1
    FrameIndex <- RepeatedFrames
    FlushClearsCodec = TRUE
SPECIFICATION Spec
INVARIANTS
    CodecHoldsOneGeneration
PROPERTIES
    NoStaleSuccess
    ImplementsLedger
