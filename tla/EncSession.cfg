CONSTANTS
    Looper = looper
    Stopper = {stopper}
    NumWork = 3
    Inputs = {"none", "rgba"}
    Layers = {0, 2}
    MayFail = {"init", "alloc", "layers", "map", "csd", "buffer", "import", "put", "get", "block"}
    MaxStop = 1
    MaxAsk = 2
SPECIFICATION FairSpec
INVARIANTS
    TypeOK
    NothingSkipped
    EosIsComplete
    SyncServed
PROPERTIES
    FrameComesBack
CHECK_DEADLOCK FALSE
