\* Messages cut short, and a buf_ too small for what one feed may bring.
SPECIFICATION FairSpec
CONSTANTS
    HeaderSize = 2
    HeartbeatSize = 3
    TradeSize = 4
    QuoteSize = 5
    ParseBufSize = 8
    RecvBufSize = 6
    SeqMod = 4
    Truncation = TRUE
    MaxMessages = 3
    MaxSkip = 0
    MaxNum = 4
INVARIANTS
    TypeOK
    GapsExact
PROPERTIES
    LossyChannel
    FeedReturns
