SPECIFICATION Spec
CONSTANTS
    Writers = {w1, w2}
    Admins = {a1}
    FlushThreshold = 3
    MaxBatch = 1
    MaxImmutable = 1
    ConcurrentAdmin = TRUE
    ManualFlush = FALSE
    IOErrors = FALSE
    TornAppends = FALSE
    MaxSeq = 7
    MaxLog = 4
    MaxCrash = 0
SYMMETRY Symmetric
CHECK_DEADLOCK FALSE
INVARIANTS
    Durable
