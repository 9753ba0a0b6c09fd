CONSTANTS
    Requests = {r1, r2}
    Device = Device
    Socket = Socket
    Notifier = Notifier
    Senders = {Device, Socket, Notifier}
    None = None
    r1 = r1
    N2ASize = 3
    Unit = 1
    MAX_ASYNC_REQUESTS = 1
    MaxIO = 3
    MaxSignals = 1
    MaxOther = 2
    MaxResets = 1
    MaxEvents = 5
SPECIFICATION FairSpec
INVARIANTS OneReply CallsAreWhole
PROPERTIES AbortWaits TrapsReturn Answered
ACTION_CONSTRAINT FirstIsR1
CHECK_DEADLOCK FALSE
