\* One symbol, one reader; version wraps after two updates.
SPECIFICATION FairSpec
CONSTANTS
    Symbols = {s1}
    Readers = {r1}
    Fields <- QuoteMembers
    VersionMod = 4
    MaxUpdates = 3
INVARIANTS
    TypeOK
    EvenExitLinearizable
    CountMatchesVersion
PROPERTIES
    MonotonicReads
    SnapshotReturns
