SPECIFICATION Spec
CONSTANTS
    Names = {"d", "f", "g"}
    Workloads <- MCWorkloads
    MaxAinos = 5
    MaxDepth = 2
    MaxLocks = 1
    MaxPhantoms = 2
    Handles = {1}
    CacheLimit = 0
    ReapCount = 1
    HashSize = 1
    EXKEYS = 2
    IntoItself = FALSE
INVARIANTS LocksAreCounted ScansOweTheRest CacheIsSound FreedUsedOnlySo
CHECK_DEADLOCK FALSE
