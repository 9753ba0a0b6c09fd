CONSTANTS
    Requests = {r1, r2}
    None = None
    Unit = 1
    MAX_ASYNC_REQUESTS = 2
    MaxOpens = 3
    MaxIO = 3
    MaxResets = 1
SPECIFICATION ScsiSpec
INVARIANT UnitIsSound
PROPERTY Answered
CHECK_DEADLOCK FALSE
