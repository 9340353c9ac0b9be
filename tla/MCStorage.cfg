SPECIFICATION StorageSpec
CONSTANTS
    RowsPerFile = 2
    MaxFiles = 3
    MaxSnapshots = 3
    MaxFaults = 1
    MaxCrash = 1
    Refreshers = {r1}
    CrashInFirst = FALSE
    BaseSyncFails = FALSE
INVARIANTS IndexSound FileReadsExact KeysOrdered NeverAnotherSet ManifestExact RowsKept
INVARIANTS CatalogRecovers 
PROPERTIES LogRecovers
CHECK_DEADLOCK FALSE
