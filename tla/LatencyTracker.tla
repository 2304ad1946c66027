--------------------------- MODULE LatencyTracker ---------------------------
(***************************************************************************)
(* include/latency_tracker.h: a histogram of latencies with one bucket per *)
(* power of two, which any number of threads record into without a lock    *)
(* while another reads statistics from it.  One action per atomic access;  *)
(* the accesses take effect in program order, as the locked instructions   *)
(* of the x86 build do.                                                    *)
(***************************************************************************)
EXTENDS Integers, FiniteSetsExt

CONSTANTS
    Recorders,     \* the threads that call record
    NUM_BUCKETS,   \* 64: also the number of bits of a latency
    Latencies,     \* the latencies recorded
    MaxSamples     \* bound on the samples between two resets

UINT64_MAX == 2 ^ NUM_BUCKETS - 1

ASSUME TrackerAssumption ==
    /\ NUM_BUCKETS \in Nat \ {0}
    /\ IsFiniteSet(Recorders)
    /\ Latencies \subseteq 0 .. UINT64_MAX
    /\ MaxSamples \in Nat

VARIABLES
    buckets, extreme, sum, count,   \* extreme is min_ and max_
    rpc, which, latency, old,       \* of record: old is old_min or old_max
    gpc, st, bucket, cumul,         \* of get_stats; bucket is its i
    \* History variables, which no guard reads:
    done,       \* how often each latency was recorded, since the last reset
    counted     \* done when get_stats loaded count_

shared == <<buckets, extreme, sum, count>>
recordVars == <<rpc, which, latency, old>>
statsVars == <<gpc, st, bucket, cumul, counted>>
vars == <<shared, recordVars, statsVars, done>>

Buckets == 0 .. NUM_BUCKETS - 1

Percentiles == {"p50", "p95", "p99", "p999"}

\* The position of the highest bit.
bucket_for(ns) ==
    IF ns = 0 THEN 0 ELSE CHOOSE b \in Buckets : 2 ^ b <= ns /\ ns < 2 ^ (b + 1)

\* What is reported for a bucket: for all but the last, its lower end.
bucket_upper_ns(i) == IF i < NUM_BUCKETS - 1 THEN 2 ^ i ELSE UINT64_MAX

\* How many samples must lie at or below a percentile.
Target(p, n) ==
    CASE p = "p50"  -> n \div 2
      [] p = "p95"  -> (n * 95) \div 100
      [] p = "p99"  -> (n * 99) \div 100
      [] p = "p999" -> (n * 999) \div 1000

NoStats == [sample_count |-> 0, min |-> 0, max |-> 0, mean |-> 0,
            at |-> [p \in Percentiles |-> 0]]

NoSamples == [b \in Buckets |-> 0]

NoExtremes == [min |-> UINT64_MAX, max |-> 0]

Init ==
    /\ buckets = NoSamples
    /\ extreme = NoExtremes
    /\ sum = 0
    /\ count = 0
    /\ done = [v \in Latencies |-> 0]
    /\ rpc = [r \in Recorders |-> "idle"]
    /\ which = [r \in Recorders |-> "min"]
    /\ latency = [r \in Recorders |-> 0]
    /\ old = [r \in Recorders |-> 0]
    /\ gpc = "idle"
    /\ st = NoStats
    /\ bucket = 0
    /\ cumul = 0
    /\ counted = done

-----------------------------------------------------------------------------
(* record.                                                                 *)

\* A call of record, up to its fetch_add of the bucket.
record(r, v) ==
    /\ rpc[r] = "idle"
    /\ count + Cardinality({q \in Recorders : rpc[q] # "idle"}) < MaxSamples
    /\ buckets' = [buckets EXCEPT ![bucket_for(v)] = @ + 1]
    /\ rpc' = [rpc EXCEPT ![r] = "load"]
    /\ which' = [which EXCEPT ![r] = "min"]
    /\ latency' = [latency EXCEPT ![r] = v]
    /\ UNCHANGED <<extreme, sum, count, old, statsVars, done>>

\* Whether v is a new extreme next to o.
Beyond(w, v, o) == IF w = "min" THEN v < o ELSE v > o

\* No loop for max_.
MinOnly(r) ==
    /\ rpc' = [rpc EXCEPT ![r] = "sum"]
    /\ which' = which

\* The end of the loop for min_ leads to max_, that for max_ to sum_.
NextExtreme(r) ==
    /\ rpc' = [rpc EXCEPT ![r] = IF which[r] = "min" THEN "load" ELSE "sum"]
    /\ which' = [which EXCEPT ![r] = "max"]

\* old has been read: the loop's condition.
Test(r, o) ==
    /\ old' = [old EXCEPT ![r] = o]
    /\ IF Beyond(which[r], latency[r], o)
       THEN rpc' = [rpc EXCEPT ![r] = "cas"] /\ which' = which
       ELSE NextExtreme(r)

LoadExtreme(r) ==
    /\ rpc[r] = "load"
    /\ Test(r, extreme[which[r]])
    /\ UNCHANGED <<shared, latency, statsVars, done>>

\* A store where the compare-exchange is.
SwapBlind(r) ==
    /\ rpc[r] = "cas"
    /\ extreme' = [extreme EXCEPT ![which[r]] = latency[r]]
    /\ NextExtreme(r)
    /\ UNCHANGED <<buckets, sum, count, latency, old, statsVars, done>>

\* compare_exchange_weak succeeds.
Swap(r) ==
    /\ rpc[r] = "cas"
    /\ extreme[which[r]] = old[r]
    /\ extreme' = [extreme EXCEPT ![which[r]] = latency[r]]
    /\ NextExtreme(r)
    /\ UNCHANGED <<buckets, sum, count, latency, old, statsVars, done>>

\* A failed exchange that does not read the new value.
SwapFailsStale(r) ==
    /\ rpc[r] = "cas"
    /\ Test(r, old[r])
    /\ UNCHANGED <<shared, latency, statsVars, done>>

\* It fails, spuriously too, and reads the value that is there.
SwapFails(r) ==
    /\ rpc[r] = "cas"
    /\ Test(r, extreme[which[r]])
    /\ UNCHANGED <<shared, latency, statsVars, done>>

\* A sum without the width of its type.
AddSumWide(r) ==
    /\ rpc[r] = "sum"
    /\ sum' = sum + latency[r]
    /\ rpc' = [rpc EXCEPT ![r] = "count"]
    /\ UNCHANGED <<buckets, extreme, count, which, latency, old, statsVars, done>>

AddSum(r) ==
    /\ rpc[r] = "sum"
    /\ sum' = (sum + latency[r]) % (UINT64_MAX + 1)
    /\ rpc' = [rpc EXCEPT ![r] = "count"]
    /\ UNCHANGED <<buckets, extreme, count, which, latency, old, statsVars, done>>

AddCount(r) ==
    /\ rpc[r] = "count"
    /\ count' = count + 1
    /\ done' = [done EXCEPT ![latency[r]] = @ + 1]
    /\ rpc' = [rpc EXCEPT ![r] = "idle"]
    /\ UNCHANGED <<buckets, extreme, sum, which, latency, old, statsVars>>

-----------------------------------------------------------------------------
(* get_stats.                                                              *)

\* count_ is loaded; without samples get_stats returns at once.
get_stats ==
    /\ gpc = "idle"
    /\ st' = [NoStats EXCEPT !.sample_count = count]
    /\ gpc' = IF count = 0 THEN "idle" ELSE "min"
    /\ counted' = done
    /\ UNCHANGED <<shared, recordVars, bucket, cumul, done>>

LoadStat ==
    /\ \/ gpc = "min"  /\ st' = [st EXCEPT !.min = extreme.min] /\ gpc' = "max"
       \/ gpc = "max"  /\ st' = [st EXCEPT !.max = extreme.max] /\ gpc' = "mean"
       \/ gpc = "mean" /\ st' = [st EXCEPT !.mean = sum \div st.sample_count]
                       /\ gpc' = "scan"
    /\ bucket' = 0
    /\ cumul' = 0
    /\ UNCHANGED <<shared, recordVars, counted, done>>

\* The break behind the first percentile instead of the last.
ScanBreaksEarly ==
    /\ gpc = "scan"
    /\ cumul' = cumul + buckets[bucket]
    /\ st' = [st EXCEPT !.at = [p \in Percentiles |->
                IF @[p] = 0 /\ cumul' >= Target(p, st.sample_count)
                THEN bucket_upper_ns(bucket) ELSE @[p]]]
    /\ IF st'.at["p50"] # 0 \/ bucket = NUM_BUCKETS - 1
       THEN gpc' = "idle" /\ bucket' = bucket
       ELSE gpc' = "scan" /\ bucket' = bucket + 1
    /\ UNCHANGED <<shared, recordVars, counted, done>>

\* More samples wanted than the target says.
ScanStrict ==
    /\ gpc = "scan"
    /\ cumul' = cumul + buckets[bucket]
    /\ st' = [st EXCEPT !.at = [p \in Percentiles |->
                IF @[p] = 0 /\ cumul' > Target(p, st.sample_count)
                THEN bucket_upper_ns(bucket) ELSE @[p]]]
    /\ IF st'.at["p999"] # 0 \/ bucket = NUM_BUCKETS - 1
       THEN gpc' = "idle" /\ bucket' = bucket
       ELSE gpc' = "scan" /\ bucket' = bucket + 1
    /\ UNCHANGED <<shared, recordVars, counted, done>>

\* An iteration of the loop over the buckets; 0 marks a percentile not found.
ScanBucket ==
    /\ gpc = "scan"
    /\ cumul' = cumul + buckets[bucket]
    /\ st' = [st EXCEPT !.at = [p \in Percentiles |->
                IF @[p] = 0 /\ cumul' >= Target(p, st.sample_count)
                THEN bucket_upper_ns(bucket) ELSE @[p]]]
    /\ IF st'.at["p999"] # 0 \/ bucket = NUM_BUCKETS - 1
       THEN gpc' = "idle" /\ bucket' = bucket
       ELSE gpc' = "scan" /\ bucket' = bucket + 1
    /\ UNCHANGED <<shared, recordVars, counted, done>>

\* reset, which is called only while nobody records or reads.
reset ==
    /\ gpc = "idle" /\ \A r \in Recorders : rpc[r] = "idle"
    /\ buckets' = NoSamples
    /\ extreme' = NoExtremes
    /\ sum' = 0
    /\ count' = 0
    /\ done' = [v \in Latencies |-> 0]
    /\ st' = NoStats
    /\ counted' = done'
    /\ UNCHANGED <<recordVars, gpc, bucket, cumul>>

-----------------------------------------------------------------------------

Record(r) ==
    \/ LoadExtreme(r)
    \/ Swap(r)
    \/ SwapFails(r)
    \/ AddSum(r)
    \/ AddCount(r)

GetStats == LoadStat \/ ScanBucket

Next ==
    \/ \E r \in Recorders : Record(r) \/ \E v \in Latencies : record(r, v)
    \/ get_stats
    \/ GetStats
    \/ reset

Spec == Init /\ [][Next]_vars

\* Every thread runs, and an exchange does not fail spuriously for ever.
FairSpec ==
    /\ Spec
    /\ \A r \in Recorders : WF_vars(Record(r)) /\ WF_vars(Swap(r))
    /\ WF_vars(GetStats)

-----------------------------------------------------------------------------
(* Properties.                                                             *)

\* Each variable keeps its type; sum_ stays within its width.
TypeOK ==
    /\ buckets \in [Buckets -> Nat]
    /\ extreme \in [min : 0 .. UINT64_MAX, max : 0 .. UINT64_MAX]
    /\ sum \in 0 .. UINT64_MAX
    /\ count \in Nat
    /\ rpc \in [Recorders -> {"idle", "load", "cas", "sum", "count"}]
    /\ which \in [Recorders -> {"min", "max"}]
    /\ latency \in [Recorders -> 0 .. UINT64_MAX]
    /\ old \in [Recorders -> 0 .. UINT64_MAX]
    /\ gpc \in {"idle", "min", "max", "mean", "scan"}
    /\ st.sample_count \in Nat
    /\ bucket \in Buckets
    /\ cumul \in Nat
    /\ done \in [Latencies -> Nat]
    /\ counted \in [Latencies -> Nat]

Recorded == {v \in Latencies : done[v] > 0}

\* Whatever the interleaving of the recorders, once they are quiet the tracker
\* holds exactly the samples recorded: none is lost from a bucket, the sum or
\* the count, and min_ and max_ are those of the samples
\* (tests/test_latency_tracker.cpp, ThreadSafeRecording).
NothingLost ==
    (\A r \in Recorders : rpc[r] = "idle") =>
        /\ count = MapThenSumSet(LAMBDA v : done[v], Latencies)
        /\ \A b \in Buckets :
              buckets[b] = MapThenSumSet(LAMBDA v : done[v],
                                         {v \in Latencies : bucket_for(v) = b})
        /\ sum = MapThenSumSet(LAMBDA v : v * done[v], Latencies) % (UINT64_MAX + 1)
        /\ Recorded # {} => /\ extreme.min = Min(Recorded)
                            /\ extreme.max = Max(Recorded)

Returned == gpc = "idle" /\ st.sample_count > 0

\* The samples that get_stats counted lie between the minimum and the maximum
\* it reports, though it reads the three one after the other while record
\* changes them: record updates min_ and max_ before count_
\* (latency_tracker.h:33-44, 49-52).
StatsBracketSamples ==
    Returned => \A v \in Latencies : counted[v] > 0 => st.min <= v /\ v <= st.max

\* How many samples of a bag lie below x.
SamplesBelow(bag, x) == MapThenSumSet(LAMBDA v : bag[v], {v \in Latencies : v < x})

\* How many samples below x record has taken in, counted already or not.
TakenBelow(x) ==
    SamplesBelow(done, x)
        + Cardinality({r \in Recorders : rpc[r] # "idle" /\ latency[r] < x})

\* The share of the samples that a percentile stands for, in thousandths.
Permille(p) ==
    CASE p = "p50" -> 500 [] p = "p95" -> 950 [] p = "p99" -> 990 [] p = "p999" -> 999

\* Every percentile is found, and what is reported for it is within a factor of
\* two of the exact percentile or of the sample one rank before it, although
\* samples arrive during the scan.  A reported 2^b stands for the samples from
\* 2^b to below 2^(b+1), and the largest number for the last of these ranges:
\* fewer than the share of the samples counted at the start lie below the range,
\* and up to its end at most one is missing from the share.  The value is thus
\* the lower end of the range, where docs/QUESTIONS.md:155 speaks of the upper;
\* and a single sample has none before it, so that every percentile is 1.  The
\* scan finds them all because record fills the bucket before it counts
\* (latency_tracker.h:31, 44, 55-69, 105-107).
PercentilesPlaced ==
    Returned => \A p \in Percentiles :
        \E b \in Buckets :
            /\ st.at[p] = IF b < NUM_BUCKETS - 1 THEN 2 ^ b ELSE UINT64_MAX
            /\ 1000 * (TakenBelow(2 ^ (b + 1)) + 1) > Permille(p) * st.sample_count
            /\ b > 0 => 1000 * SamplesBelow(counted, 2 ^ b) < Permille(p) * st.sample_count

\* The percentiles come in their order (test_latency_tracker.cpp,
\* PercentilesMonotone), also while samples arrive.
PercentilesMonotone ==
    Returned => /\ st.at["p50"] <= st.at["p95"]
                /\ st.at["p95"] <= st.at["p99"]
                /\ st.at["p99"] <= st.at["p999"]

\* Every record and every get_stats returns: a failed exchange means that
\* another thread moved the extreme on.
CallsReturn ==
    /\ \A r \in Recorders : rpc[r] # "idle" ~> rpc[r] = "idle"
    /\ gpc # "idle" ~> gpc = "idle"

=============================================================================
