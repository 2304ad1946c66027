\* Two connections, two messages, two symbols of which one fits the screen.
SPECIFICATION FairClientSpec
CONSTANTS
    MaxRetries = 2
    RecvBuf = 1
    SizeMod = 16
    MaxUnread = 2
    MaxSessions = 2
    Symbols = {s1, s2}
    TopRows = 1
    MaxMessages = 2
CHECK_DEADLOCK FALSE
INVARIANTS
    TypeOK
    NoLostWakeup
    SessionsSeparate
    FinalReportComplete
    ScreenConsistent
    TopRowsAreTop
PROPERTIES
    DataIsRead
    StopsOnSignal
    ProgramEnds
