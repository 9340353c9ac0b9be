SPECIFICATION TreeSpec
CONSTANTS
    Parts = {"main", "export", "export two keys"}
    NumLevels = 1
    L0Trigger = 1
    L0Slowdown = 2
    LevelTarget = 1
    MaxInputRows = 1
    ChunkRows = 1
    TableKeys = {1, 2}
    Ops = {"put"}
    Compactors = {"c1"}
    Readers = {"r1"}
    JobsOverlap = FALSE
    Grace = TRUE
    PromptInstall = TRUE
    MaxFail = 0
    MaxSeq = 3
    MaxCrash = 0
INVARIANTS SnapshotExact PinnedFilesOnDisk ExportWhole
CHECK_DEADLOCK FALSE
