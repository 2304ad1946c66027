\* Whole messages in fragments of every size; buf_ is exactly as large as the
\* argument for NothingDiscarded needs.
SPECIFICATION FairSpec
CONSTANTS
    HeaderSize = 2
    HeartbeatSize = 3
    TradeSize = 4
    QuoteSize = 5
    ParseBufSize = 10
    RecvBufSize = 6
    SeqMod = 4
    Truncation = FALSE
    MaxMessages = 3
    MaxSkip = 1
    MaxNum = 5
INVARIANTS
    PromptDispatch
    NothingDiscarded
    GapsExact
PROPERTIES
    ExactChannel
    EventuallyDispatched
