CONSTANTS
    Looper = looper
    Drainer = {stopper}
    NumWork = 3
    DrainModes = {"NO_EOS"}
    MayFail = {"init", "view", "fetch", "info", "config", "copy"}
    LowLatency = {FALSE, TRUE}
    kMaxRetryNum = 6
    PacketCap = 2
    FrameCap = 2
    MaxInfo = 1
    MaxFlush = 1
    Prompt = {FALSE, TRUE}
SPECIFICATION FairSpec
INVARIANTS
    InOrder
    EosIsComplete
    NothingToFlush
PROPERTIES
    LoopSends
    CallsEnd
CHECK_DEADLOCK FALSE
