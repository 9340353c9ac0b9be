SPECIFICATION FairSpec
CONSTANTS
    Writers = {w1, w2}
    Admins = {a1}
    FlushThreshold = 1
    MaxBatch = 1
    MaxImmutable = 1
    ConcurrentAdmin = TRUE
    ManualFlush = TRUE
    IOErrors = FALSE
    TornAppends = FALSE
    MaxSeq = 2
    MaxLog = 2
    MaxCrash = 0
CHECK_DEADLOCK FALSE
PROPERTIES CallsReturn
