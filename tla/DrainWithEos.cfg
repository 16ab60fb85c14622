CONSTANTS
    Looper = looper
    Drainer = {}
    NumWork = 3
    DrainModes = {"WITH_EOS"}
    MayFail = {}
    LowLatency = {FALSE}
    kMaxRetryNum = 6
    PacketCap = 1
    FrameCap = 2
    MaxInfo = 1
    MaxFlush = 1
    Prompt = {TRUE}
SPECIFICATION FairSpec
PROPERTIES
    CallsEnd
CHECK_DEADLOCK FALSE
