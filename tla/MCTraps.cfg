CONSTANTS
    Tasks = {t1, t2}
    Boot = t1
    Contexts = {c1, c2}
    HasRetval = {c1}
    None = None
    MaxTraps = 3
    MaxCalls = 1
    MaxResets = 1
SPECIFICATION FairSpec
INVARIANTS Coroutines EachTaskItsTraps
PROPERTIES ReturnsToCaller TrapsReturn
CHECK_DEADLOCK FALSE
