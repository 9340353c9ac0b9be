SPECIFICATION Spec
CONSTANTS
    Writers = {w1, w2}
    Admins = {a1}
    FlushThreshold = 4
    MaxBatch = 2
    MaxImmutable = 1
    ConcurrentAdmin = FALSE
    ManualFlush = FALSE
    IOErrors = TRUE
    TornAppends = FALSE
    MaxSeq = 4
    MaxLog = 4
    MaxCrash = 1
SYMMETRY Symmetric
CHECK_DEADLOCK FALSE
INVARIANTS
    IInv
    Durable
    FreshNumbers
PROPERTIES
    FrontierStable
    NothingVanishes
    StoreSpec
