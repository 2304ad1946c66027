\* Two threads record while a third reads; 3-bit latencies, 0 and the largest
\* among them.
SPECIFICATION FairSpec
CONSTANTS
    Recorders = {r1, r2}
    NUM_BUCKETS = 3
    Latencies = {0, 3, 7}
    MaxSamples = 3
INVARIANTS
    TypeOK
    NothingLost
    StatsBracketSamples
    
    PercentilesMonotone
PROPERTY CallsReturn
