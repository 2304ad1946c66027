SPECIFICATION Spec
CONSTANTS
    Blocks = {b1, b2, b3}
    Threads = {t1, t2, t3}
    Null = Null
    Acquirers = {t1, t2, t3}
    MaxHeld = 1
    HandOvers = FALSE
    Spurious = FALSE
INVARIANT EachBlockOnce
