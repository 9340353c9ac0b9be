SPECIFICATION PathSpec
CONSTANTS
    Writers = {w1, w2}
    Admins = {a1}
    MaxImmutable = 1
    L0Compact = 1
    L0Stop = 1
    MayClose = TRUE
    MaxWrites = 6
    MaxFail = 0
SYMMETRY Symmetric
PROPERTIES WritePathSafe
INVARIANTS NoLostWakeup QueueBounded L0Bounded
CHECK_DEADLOCK FALSE
