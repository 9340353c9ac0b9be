SPECIFICATION Spec
CONSTANTS
    NumLevels = 1
    L0Trigger = 1
    L0Slowdown = 2
    LevelTarget = 1
    MaxInputRows = 1
    ChunkRows = 1
    TableKeys = {1}
    Ops = {"put", "del"}
    Writers = {w1}
    Lookups = {l1}
    Scans = {}
    CacheOn = TRUE
    WriteFree = {}
    FlushFree = {"files"}
    MaxSeq = 3
    w1 = w1
    l1 = l1
INVARIANTS LookupCurrent
