CONSTANTS
    Irq = {3, 12}
    SrMasks = {0, 3}
    MaxDepth = 2
CHECK_DEADLOCK FALSE
SPECIFICATION FairSpec
INVARIANTS NothingForgotten
PROPERTIES NoInterruptAtHandover RequestIsServed
