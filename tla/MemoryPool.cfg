\* One thread acquires and may empty the pool; all three release, and hand
\* blocks to each other.
SPECIFICATION FairSpec
CONSTANTS
    Blocks = {b1, b2, b3}
    Threads = {t1, t2, t3}
    Null = Null
    Acquirers = {t1}
    MaxHeld = 3
    HandOvers = TRUE
    Spurious = TRUE
INVARIANTS
    TypeOK
    EachBlockOnce
PROPERTY LockFree
