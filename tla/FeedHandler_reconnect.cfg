SPECIFICATION FairSpec
CONSTANTS
    MaxRetries = 2
    RecvBuf = 2
    SizeMod = 16
    MaxUnread = 2
    MaxSessions = 2
CHECK_DEADLOCK FALSE
PROPERTY Reconnects
