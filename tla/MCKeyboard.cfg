\* Seven keys through a ring of four slots, by one thread or two: the ring wraps
\* and overruns, and keys are given up.
SPECIFICATION Spec
CONSTANTS
    Size = 4
    Patience = 4
    MaxKeys = 7
INVARIANT KeysKept
PROPERTY NoKeyRunOver
PROPERTY KeysMoveOn
