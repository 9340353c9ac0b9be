SPECIFICATION Spec
CONSTANTS
    NumLevels = 1
    L0Trigger = 1
    L0Slowdown = 2
    LevelTarget = 1
    MaxInputRows = 1
    ChunkRows = 1
    TableKeys = {1, 2}
    Ops = {"put", "del"}
    Compactors = {c1}
    Readers = {r1}
    JobsOverlap = TRUE
    Grace = TRUE
    PromptInstall = TRUE
    MaxFail = 0
    MaxSeq = 3
    MaxCrash = 0
    c1 = c1
    r1 = r1
INVARIANTS PinnedFilesOnDisk
CHECK_DEADLOCK FALSE
