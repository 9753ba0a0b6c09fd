CONSTANTS
    Threads = {t1, t2, t3}
    Initial = 1
    MaxPosts = 3
    MaxBreaks = 2
    None = None
SPECIFICATION SemFairSpec
INVARIANTS NoDanglingMessage WakesMatchPosts
PROPERTIES RequestsEnd
CHECK_DEADLOCK FALSE
