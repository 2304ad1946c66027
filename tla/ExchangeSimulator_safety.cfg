SPECIFICATION Spec
CONSTANTS
    Fds = {f1, f2}
    NoFd = NoFd
    SndBuf = 2
    HeartbeatSize = 1
    TradeSize = 1
    QuoteSize = 2
    MaxChunks = 1
    MaxEvents = 2
    SeqMod = 4
    FaultInjection = TRUE
    FaultPeriod = 2
    MaxBacklog = 1
    Depth = 1
SYMMETRY Interchangeable
CHECK_DEADLOCK FALSE
INVARIANTS
    TypeOK
    BooksAgree
    FastClientsMissNothing
PROPERTY OnlyTheGoneAreDropped
