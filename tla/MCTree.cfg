SPECIFICATION TreeSpec
CONSTANTS
    Parts = {"main", "parallel", "faults", "replay", "marks"}
    NumLevels = 1
    L0Trigger = 2
    L0Slowdown = 2
    LevelTarget = 1
    MaxInputRows = 2
    ChunkRows = 1
    TableKeys = {1, 2}
    Ops = {"put", "del"}
    Compactors = {"c1"}
    Readers = {}
    JobsOverlap = TRUE
    Grace = FALSE
    PromptInstall = TRUE
    MaxFail = 0
    MaxSeq = 4
    MaxCrash = 0
INVARIANTS TreeReads LevelsDisjoint CurrentFilesOnDisk CounterKept
CHECK_DEADLOCK FALSE
