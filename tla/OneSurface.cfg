CONSTANTS
    Looper = looper
    Drainer = {}
    Slot = {s1, s2, s3}
    Buf = {1, 2, 3, 4, 5, 6, 7}
    NoOne = NoOne
    None = None
    Info = Info
    kMaxReferenceCount = 2
    kMaxGegerationClearCount = 2
    Word = 16
    MaxHeld = 1
    MaxSurface = 1
    MaxInfo = 2
    MaxFlush = 2
SPECIFICATION FairSpec
INVARIANTS
    TypeOK
    OwnedAtMostMax
    RefsCovered
    NotOverwritten
    OneBufferPerBlock
PROPERTIES
    EnsureReturns
