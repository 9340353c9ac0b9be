SPECIFICATION RemoteSpec
CONSTANTS
    Waiters = {w1}
    MaxSnap = 3
    MaxFail = 1
    MaxCrash = 1
    MayTear = FALSE
    CheckHeld = FALSE
    MayClose = TRUE
    Callers = {c1, c2}
    MaxInodes = 4
    MaxPowerFails = 2
INVARIANTS ManifestsComplete LowWaterServed AwaitHonest ReplicaCurrent  
CHECK_DEADLOCK FALSE
