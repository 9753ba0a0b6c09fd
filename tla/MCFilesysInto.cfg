SPECIFICATION Spec
CONSTANTS
    Names = {"d", "f", "g"}
    Workloads <- MCInto
    MaxAinos = 5
    MaxDepth = 2
    MaxLocks = 1
    MaxPhantoms = 1
    Handles = {1}
    CacheLimit = 0
    ReapCount = 1
    HashSize = 1
    EXKEYS = 2
    IntoItself = TRUE
INVARIANT NamesAreUnique
CHECK_DEADLOCK FALSE
