SPECIFICATION Spec
CONSTANTS
    Symbols = {s1}
    Readers = {r1}
    Fields <- QuoteAndTradeMembers
    VersionMod = 16
    MaxUpdates = 2
INVARIANT NoTornSnapshot
