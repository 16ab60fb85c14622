CONSTANTS
    Looper = looper
    Drainer = {}
    Slot = {s1, s2, s3}
    Buf = {1, 2, 3, 4, 5, 6, 7, 8, 9, 10}
    NoOne = NoOne
    None = None
    Info = Info
    kMaxReferenceCount = 2
    kMaxGegerationClearCount = 1
    Word = 16
    MaxHeld = 1
    MaxSurface = 2
    MaxInfo = 0
    MaxFlush = 1
SPECIFICATION Spec
SYMMETRY Symmetry
INVARIANTS
    NotOverwritten
    FrameFound
