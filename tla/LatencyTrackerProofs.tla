------------------------ MODULE LatencyTrackerProofs ------------------------
(***************************************************************************)
(* Theorems about module LatencyTracker, for every number of threads and   *)
(* buckets, every set of latencies and every bound on the samples.         *)
(***************************************************************************)
EXTENDS LatencyTracker, SumTheorems, FunctionTheorems, TLAPS

-----------------------------------------------------------------------------
(* Powers of two, which the provers know only as the number of subsets of  *)
(* a finite set; and remainders.                                           *)

\* A set of n members has 2 ^ n subsets.
LEMMA PowerIsCardinality ==
  ASSUME NEW n \in Nat
  PROVE  /\ IsFiniteSet(SUBSET (1 .. n))
         /\ Cardinality(SUBSET (1 .. n)) = 2 ^ n
<1>1. IsFiniteSet(1 .. n) /\ Cardinality(1 .. n) = n
    BY FS_Interval
<1>. QED
    BY <1>1, FS_SUBSET

LEMMA PowerPositive == ASSUME NEW n \in Nat PROVE 2 ^ n \in Nat \ {0}
<1>1. SUBSET (1 .. n) # {}
    OBVIOUS
<1>. QED
    BY <1>1, PowerIsCardinality, FS_EmptySet, FS_CardinalityType

LEMMA PowerMonotone ==
  ASSUME NEW m \in Nat, NEW n \in Nat, m <= n PROVE 2 ^ m <= 2 ^ n
<1> DEFINE A == SUBSET (1 .. m)
           B == SUBSET (1 .. n)
<1>1. A \in SUBSET B
    OBVIOUS
<1>2. IsFiniteSet(B) /\ Cardinality(A) = 2 ^ m /\ Cardinality(B) = 2 ^ n
    BY PowerIsCardinality
<1> HIDE DEF A, B
<1>3. Cardinality(A) <= Cardinality(B)
    BY <1>1, <1>2, FS_Subset
<1>. QED
    BY <1>2, <1>3

\* The subsets of 1 .. n + 1 are those of 1 .. n, each with n + 1 and without.
LEMMA PowerDoubles == ASSUME NEW n \in Nat PROVE 2 ^ (n + 1) = 2 ^ n + 2 ^ n
<1> DEFINE S == 1 .. n
           A == SUBSET S
           B == {T \in SUBSET (1 .. n + 1) : n + 1 \in T}
           f == [T \in A |-> T \cup {n + 1}]
<1>1. n + 1 \notin S /\ 1 .. n + 1 = S \cup {n + 1}
    OBVIOUS
<1> HIDE DEF S
<1>2. \A T \in A : T \cup {n + 1} \in B
    BY <1>1
<1>3. f \in Injection(A, B)
  <2>1. ASSUME NEW T \in A, NEW U \in A, f[T] = f[U] PROVE T = U
    <3>1. T \cup {n + 1} = U \cup {n + 1}
        BY <2>1
    <3>. QED
        BY <1>1, <3>1
  <2>. QED
      BY <1>2, <2>1 DEF Injection, IsInjective
<1>4. f \in Surjection(A, B)
  <2>1. ASSUME NEW T \in B PROVE \E U \in A : f[U] = T
    <3>1. T \ {n + 1} \in A /\ (T \ {n + 1}) \cup {n + 1} = T
        BY <1>1
    <3>. QED
        BY <3>1
  <2>. QED
      BY <1>2, <2>1 DEF Surjection
<1>5. IsFiniteSet(A) /\ Cardinality(A) = 2 ^ n
    BY PowerIsCardinality DEF S
<1>6. ExistsBijection(A, B)
    BY <1>3, <1>4 DEF ExistsBijection, Bijection
<1>7. IsFiniteSet(B) /\ Cardinality(B) = 2 ^ n
    BY <1>5, <1>6, FS_Bijection
<1>8. A \cup B = SUBSET (1 .. n + 1) /\ A \cap B = {}
    BY <1>1
<1>9. Cardinality(A \cup B) = 2 ^ (n + 1)
    BY <1>8, PowerIsCardinality
<1> HIDE DEF A, B
<1>10. Cardinality(A \cup B) = Cardinality(A) + Cardinality(B) - Cardinality({})
    BY <1>5, <1>7, <1>8, FS_Union
<1>11. 2 ^ n \in Nat
    BY PowerPositive
<1>. QED
    BY <1>5, <1>7, <1>9, <1>10, <1>11, FS_EmptySet

\* A remainder is the only number below the divisor that leaves a multiple.
LEMMA Remainder ==
  ASSUME NEW m \in Nat \ {0}, NEW q \in Nat, NEW d \in 0 .. m - 1
  PROVE  (m * q + d) % m = d
  OBVIOUS

\* fetch_add on a number kept modulo m is the sum, kept modulo m.
LEMMA WrappedSum ==
  ASSUME NEW m \in Nat \ {0}, NEW a \in Nat, NEW b \in Nat
  PROVE  ((a % m) + b) % m = (a + b) % m
<1> DEFINE d == a % m
           q == a \div m
           e == (d + b) % m
           p == (d + b) \div m
<1>1. a = m * q + d /\ q \in Nat /\ d \in 0 .. m - 1
    OBVIOUS
<1>2. d + b = m * p + e /\ p \in Nat /\ e \in 0 .. m - 1
    BY <1>1
<1> HIDE DEF d, q, e, p
<1>3. a + b = m * (q + p) + e
    BY <1>1, <1>2
<1>4. q + p \in Nat
    BY <1>1, <1>2
<1>5. (m * (q + p) + e) % m = e
    BY <1>2, <1>4, Remainder
<1>. QED
    BY <1>3, <1>5 DEF d, e

-----------------------------------------------------------------------------
(* Type correctness.                                                       *)

\* The members of the statistics that are loaded as they are.
StatsType ==
    /\ st = [sample_count |-> st.sample_count, min |-> st.min, max |-> st.max,
             mean |-> st.mean, at |-> st.at]
    /\ st.min \in 0 .. UINT64_MAX
    /\ st.max \in 0 .. UINT64_MAX
    /\ gpc # "idle" => st.sample_count > 0

Types == TypeOK /\ StatsType

LEMMA RangeOfLatencies ==
    /\ UINT64_MAX \in Nat \ {0}
    /\ 0 \in 0 .. UINT64_MAX
    /\ UINT64_MAX \in 0 .. UINT64_MAX
    /\ 0 \in Buckets
    /\ Buckets \subseteq Nat
<1>0. 1 \in Nat /\ NUM_BUCKETS \in Nat /\ 1 <= NUM_BUCKETS
    BY TrackerAssumption
<1>1. 2 ^ 1 <= 2 ^ NUM_BUCKETS /\ 2 ^ NUM_BUCKETS \in Nat
  <2>1. 2 ^ 1 <= 2 ^ NUM_BUCKETS
      BY <1>0, PowerMonotone
  <2>. QED
      BY <1>0, <2>1, PowerPositive
<1>2. 2 ^ (0 + 1) = 2 ^ 0 + 2 ^ 0
    BY PowerDoubles
<1>3. 2 ^ 1 = 2
    BY <1>2
<1>4. UINT64_MAX \in Nat \ {0}
    BY <1>1, <1>3 DEF UINT64_MAX
<1>. QED
    BY <1>4, TrackerAssumption DEF Buckets

LEMMA ModRange ==
  ASSUME NEW a \in Nat, NEW m \in Nat PROVE a % (m + 1) \in 0 .. m
  OBVIOUS

\* One more in a table of counters.
LEMMA Bump ==
  ASSUME NEW S, NEW f \in [S -> Nat], NEW x
  PROVE  [f EXCEPT ![x] = f[x] + 1] \in [S -> Nat]
<1>1. CASE x \in S
    BY <1>1
<1>2. CASE x \notin S
  <2>1. [f EXCEPT ![x] = f[x] + 1] = f
      BY <1>2
  <2>. QED
      BY <2>1
<1>. QED
    BY <1>1, <1>2

LEMMA InitTypes == Init => Types
  BY RangeOfLatencies DEF Init, Types, TypeOK, StatsType, NoSamples, NoExtremes, NoStats

\* A step of record leaves the variables of get_stats alone.
LEMMA RecordTypes ==
  ASSUME Types, NEW r \in Recorders, Record(r) \/ \E v \in Latencies : record(r, v)
  PROVE  Types'
<1> USE DEF Types, TypeOK
<1>0. extreme[which[r]] \in 0 .. UINT64_MAX /\ latency[r] \in 0 .. UINT64_MAX
    BY RangeOfLatencies
<1>1. ASSUME UNCHANGED statsVars PROVE StatsType'
    BY <1>1 DEF StatsType, statsVars
<1>2. ASSUME NEW v \in Latencies, record(r, v) PROVE Types'
  <2>1. v \in 0 .. UINT64_MAX
      BY TrackerAssumption
  <2>2. buckets' \in [Buckets -> Nat]
      BY <1>2, Bump DEF record
  <2>3. rpc' \in [Recorders -> {"idle", "load", "cas", "sum", "count"}]
      BY <1>2 DEF record
  <2>4. which' \in [Recorders -> {"min", "max"}]
      BY <1>2 DEF record
  <2>5. latency' \in [Recorders -> 0 .. UINT64_MAX]
      BY <1>2, <2>1 DEF record
  <2>. QED
      BY <1>1, <1>2, <2>2, <2>3, <2>4, <2>5 DEF record, statsVars
<1>3. ASSUME NEW o \in 0 .. UINT64_MAX, Test(r, o), UNCHANGED <<shared, latency, statsVars, done>>
      PROVE  Types'
  <2>1. rpc' \in [Recorders -> {"idle", "load", "cas", "sum", "count"}]
      BY <1>3 DEF Test, NextExtreme
  <2>2. which' \in [Recorders -> {"min", "max"}]
      BY <1>3 DEF Test, NextExtreme
  <2>3. old' \in [Recorders -> 0 .. UINT64_MAX]
      BY <1>3 DEF Test
  <2>. QED
      BY <1>1, <1>3, <2>1, <2>2, <2>3 DEF shared, statsVars
<1>4. CASE LoadExtreme(r)
    BY <1>0, <1>3, <1>4 DEF LoadExtreme
<1>5. CASE SwapFails(r)
    BY <1>0, <1>3, <1>5 DEF SwapFails
<1>6. CASE Swap(r)
  <2>1. extreme' \in [min : 0 .. UINT64_MAX, max : 0 .. UINT64_MAX]
      BY <1>0, <1>6 DEF Swap
  <2>2. rpc' \in [Recorders -> {"idle", "load", "cas", "sum", "count"}]
      BY <1>6 DEF Swap, NextExtreme
  <2>3. which' \in [Recorders -> {"min", "max"}]
      BY <1>6 DEF Swap, NextExtreme
  <2>. QED
      BY <1>1, <1>6, <2>1, <2>2, <2>3 DEF Swap, statsVars
<1>7. CASE AddSum(r)
  <2>1. sum' \in 0 .. UINT64_MAX
    <3>1. sum + latency[r] \in Nat
        BY <1>0, RangeOfLatencies
    <3>. QED
        BY <1>7, <3>1, ModRange, RangeOfLatencies DEF AddSum
  <2>. QED
      BY <1>1, <1>7, <2>1 DEF AddSum, statsVars
<1>8. CASE AddCount(r)
  <2>1. done' \in [Latencies -> Nat]
      BY <1>8, Bump DEF AddCount
  <2>. QED
      BY <1>1, <1>8, <2>1 DEF AddCount, statsVars
<1>. QED
    BY <1>2, <1>4, <1>5, <1>6, <1>7, <1>8 DEF Record

LEMMA StatsTypes ==
  ASSUME Types, get_stats \/ LoadStat \/ ScanBucket \/ reset
  PROVE  Types'
<1> USE DEF Types, TypeOK
<1>1. CASE get_stats
    BY <1>1, RangeOfLatencies DEF get_stats, StatsType, NoStats, shared, recordVars
<1>2. CASE LoadStat
  <2>1. extreme.min \in 0 .. UINT64_MAX /\ extreme.max \in 0 .. UINT64_MAX
      OBVIOUS
  <2>2. CASE gpc = "min"
      BY <1>2, <2>1, <2>2, RangeOfLatencies DEF LoadStat, StatsType, shared, recordVars
  <2>3. CASE gpc = "max"
      BY <1>2, <2>1, <2>3, RangeOfLatencies DEF LoadStat, StatsType, shared, recordVars
  <2>4. CASE gpc = "mean"
      BY <1>2, <2>4, RangeOfLatencies DEF LoadStat, StatsType, shared, recordVars
  <2>. QED
      BY <1>2, <2>2, <2>3, <2>4 DEF LoadStat
<1>3. CASE ScanBucket
  <2>1. bucket' \in Buckets
      BY <1>3, TrackerAssumption DEF ScanBucket, Buckets
  <2>2. cumul' \in Nat /\ gpc' \in {"idle", "scan"} /\ gpc # "idle"
      BY <1>3 DEF ScanBucket
  <2>3. StatsType' /\ st'.sample_count = st.sample_count
      BY <1>3, <2>2 DEF ScanBucket, StatsType
  <2>. QED
      BY <1>3, <2>1, <2>2, <2>3 DEF ScanBucket, shared, recordVars
<1>4. CASE reset
    BY <1>4, RangeOfLatencies DEF reset, StatsType, NoStats, NoSamples, NoExtremes, recordVars
<1>. QED
    BY <1>1, <1>2, <1>3, <1>4

LEMMA TypesStep == Types /\ [Next]_vars => Types'
<1> SUFFICES ASSUME Types, [Next]_vars PROVE Types'
    OBVIOUS
<1>1. CASE UNCHANGED vars
    BY <1>1 DEF Types, TypeOK, StatsType, vars, shared, recordVars, statsVars
<1>. QED
    BY <1>1, RecordTypes, StatsTypes DEF Next, GetStats

\* Each variable of the tracker keeps its type, and sum_ its width, for any
\* number of threads (latency_tracker.h:29-71).
THEOREM TypeCorrect == Spec => []TypeOK
<1>1. Types => TypeOK
    BY DEF Types
<1>. QED
    BY <1>1, InitTypes, TypesStep, PTL DEF Spec

-----------------------------------------------------------------------------
(* Minimum and maximum.                                                    *)

\* What min_ and max_ bound: the samples counted, and those of the threads
\* that are past the one loop or past both.
MinBounds(v) == extreme.min <= v
MaxBounds(v) == v <= extreme.max

DoneInv == \A v \in Latencies : done[v] > 0 => MinBounds(v) /\ MaxBounds(v)

PastBoth(r) == rpc[r] \in {"sum", "count"}
PastMin(r) == PastBoth(r) \/ (rpc[r] \in {"load", "cas"} /\ which[r] = "max")

Recording(r) ==
    /\ rpc[r] = "cas" => Beyond(which[r], latency[r], old[r])
    /\ PastMin(r) => MinBounds(latency[r])
    /\ PastBoth(r) => MaxBounds(latency[r])

RecordInv == \A r \in Recorders : Recording(r)

\* What get_stats has loaded bounds the samples counted when it began.
MinLoaded == gpc \in {"max", "mean", "scan"} \/ Returned
MaxLoaded == gpc \in {"mean", "scan"} \/ Returned

StatsInv ==
    \A v \in Latencies : counted[v] > 0 =>
        /\ done[v] > 0
        /\ MinLoaded => st.min <= v
        /\ MaxLoaded => v <= st.max

BracketInv == Types /\ DoneInv /\ RecordInv /\ StatsInv

LEMMA InitBracket == Init => BracketInv
<1> SUFFICES ASSUME Init PROVE DoneInv /\ RecordInv /\ StatsInv
    BY InitTypes DEF BracketInv
<1>1. DoneInv /\ StatsInv
    BY DEF Init, DoneInv, StatsInv
<1>2. RecordInv
    BY DEF Init, RecordInv, Recording, PastMin, PastBoth
<1>. QED
    BY <1>1, <1>2

\* A step that only moves min_ down and max_ up.
Widens ==
    /\ extreme'.min <= extreme.min
    /\ extreme.max <= extreme'.max

LEMMA ExtremeTypes ==
  ASSUME Types
  PROVE  /\ extreme.min \in Nat /\ extreme.max \in Nat
         /\ \A r \in Recorders : latency[r] \in Nat /\ old[r] \in Nat
         /\ Latencies \subseteq Nat
  BY RangeOfLatencies, TrackerAssumption DEF Types, TypeOK

LEMMA ExtremeTypesNext ==
  ASSUME Types' PROVE extreme'.min \in Nat /\ extreme'.max \in Nat
  BY RangeOfLatencies DEF Types, TypeOK

LEMMA WidensDone ==
  ASSUME Types, Types', DoneInv, Widens, UNCHANGED done
  PROVE  DoneInv'
<1>1. SUFFICES ASSUME NEW v \in Latencies, done[v] > 0
               PROVE  extreme'.min <= v /\ v <= extreme'.max
    BY DEF DoneInv, MinBounds, MaxBounds
<1>2. extreme.min <= v /\ v <= extreme.max
    BY <1>1 DEF DoneInv, MinBounds, MaxBounds
<1>. QED
    BY <1>2, ExtremeTypes, ExtremeTypesNext DEF Widens

\* A step that widens the bounds keeps them for a thread it does not move.
LEMMA WidensOther ==
  ASSUME Types, Types', Widens, NEW q \in Recorders, Recording(q),
         rpc'[q] = rpc[q], which'[q] = which[q], latency'[q] = latency[q],
         old'[q] = old[q]
  PROVE  Recording(q)'
<1>1. /\ extreme.min \in Nat /\ extreme.max \in Nat
      /\ extreme'.min \in Nat /\ extreme'.max \in Nat /\ latency[q] \in Nat
    BY ExtremeTypes, ExtremeTypesNext
<1>. QED
    BY <1>1 DEF Recording, PastMin, PastBoth, MinBounds, MaxBounds, Beyond, Widens

\* record leaves the statistics alone, and no sample counted is uncounted.
LEMMA RecordKeepsStats ==
  ASSUME Types, Types', StatsInv, UNCHANGED statsVars,
         \A v \in Latencies : done[v] > 0 => done'[v] > 0
  PROVE  StatsInv'
  BY DEF StatsInv, MinLoaded, MaxLoaded, Returned, statsVars

\* The loop's condition on a value o of the extreme, while nothing shared moves.
LEMMA TestRecording ==
  ASSUME Types, Types', NEW r \in Recorders, Recording(r),
         rpc[r] \in {"load", "cas"}, Test(r, extreme[which[r]]),
         UNCHANGED <<extreme, latency>>
  PROVE  Recording(r)'
<1>1. /\ extreme.min \in Nat /\ extreme.max \in Nat /\ latency[r] \in Nat
      /\ which[r] \in {"min", "max"}
    BY ExtremeTypes DEF Types, TypeOK
<1>2. old'[r] = extreme[which[r]]
    BY DEF Test, Types, TypeOK
<1>3. CASE Beyond(which[r], latency[r], extreme[which[r]])
  <2>1. rpc'[r] = "cas" /\ which'[r] = which[r]
      BY <1>3 DEF Test, Types, TypeOK
  <2>. QED
      BY <1>2, <1>3, <2>1 DEF Recording, PastMin, PastBoth, MinBounds, MaxBounds, Beyond
<1>4. CASE ~Beyond(which[r], latency[r], extreme[which[r]])
  <2>1. which'[r] = "max"
      BY <1>4 DEF Test, NextExtreme, Types, TypeOK
  <2>2. CASE which[r] = "min"
    <3>1. rpc'[r] = "load"
        BY <1>4, <2>2 DEF Test, NextExtreme, Types, TypeOK
    <3>2. extreme.min <= latency[r]
        BY <1>1, <1>4, <2>2 DEF Beyond
    <3>. QED
        BY <3>1, <3>2 DEF Recording, PastMin, PastBoth, MinBounds
  <2>3. CASE which[r] = "max"
    <3>1. rpc'[r] = "sum"
        BY <1>4, <2>3 DEF Test, NextExtreme, Types, TypeOK
    <3>2. latency[r] <= extreme.max
        BY <1>1, <1>4, <2>3 DEF Beyond
    <3>3. extreme.min <= latency[r]
        BY <2>3 DEF Recording, PastMin, MinBounds
    <3>. QED
        BY <3>1, <3>2, <3>3 DEF Recording, PastMin, PastBoth, MinBounds, MaxBounds
  <2>. QED
      BY <1>1, <2>2, <2>3
<1>. QED
    BY <1>3, <1>4

\* An exchange that succeeds improves the extreme by exactly one value.
LEMMA SwapWidens ==
  ASSUME Types, NEW r \in Recorders, Recording(r), Swap(r)
  PROVE  Widens /\ extreme'[which[r]] = latency[r]
<1>1. /\ extreme.min \in Nat /\ extreme.max \in Nat /\ latency[r] \in Nat
      /\ which[r] \in {"min", "max"}
    BY ExtremeTypes DEF Types, TypeOK
<1>2. Beyond(which[r], latency[r], extreme[which[r]])
    BY DEF Swap, Recording
<1>3. CASE which[r] = "min"
  <2>1. extreme'.min = latency[r] /\ extreme'.max = extreme.max
      BY <1>3 DEF Swap, Types, TypeOK
  <2>. QED
      BY <1>1, <1>2, <1>3, <2>1 DEF Beyond, Widens
<1>4. CASE which[r] = "max"
  <2>1. extreme'.max = latency[r] /\ extreme'.min = extreme.min
      BY <1>4 DEF Swap, Types, TypeOK
  <2>. QED
      BY <1>1, <1>2, <1>4, <2>1 DEF Beyond, Widens
<1>. QED
    BY <1>1, <1>3, <1>4

LEMMA SwapRecording ==
  ASSUME Types, Types', NEW r \in Recorders, Recording(r), Swap(r)
  PROVE  Recording(r)'
<1>1. /\ extreme.min \in Nat /\ extreme.max \in Nat /\ latency[r] \in Nat
      /\ extreme'.min \in Nat /\ extreme'.max \in Nat
      /\ which[r] \in {"min", "max"}
    BY ExtremeTypes, ExtremeTypesNext DEF Types, TypeOK
<1>2. Widens /\ extreme'[which[r]] = latency[r] /\ latency' = latency
    BY SwapWidens DEF Swap
<1>3. CASE which[r] = "min"
  <2>1. rpc'[r] = "load" /\ which'[r] = "max"
      BY <1>3 DEF Swap, NextExtreme, Types, TypeOK
  <2>2. extreme'.min = latency[r]
      BY <1>2, <1>3
  <2>. QED
      BY <1>1, <1>2, <2>1, <2>2 DEF Recording, PastMin, PastBoth, MinBounds
<1>4. CASE which[r] = "max"
  <2>1. rpc'[r] = "sum" /\ which'[r] = "max"
      BY <1>4 DEF Swap, NextExtreme, Types, TypeOK
  <2>2. extreme'.max = latency[r]
      BY <1>2, <1>4
  <2>3. extreme.min <= latency[r]
      BY <1>4 DEF Swap, Recording, PastMin, MinBounds
  <2>4. extreme'.min <= latency[r]
      BY <1>1, <1>2, <2>3 DEF Widens
  <2>. QED
      BY <1>1, <1>2, <2>1, <2>2, <2>4
         DEF Recording, PastMin, PastBoth, MinBounds, MaxBounds
<1>. QED
    BY <1>1, <1>3, <1>4

LEMMA RecordBracket ==
  ASSUME BracketInv, Types', NEW r \in Recorders,
         Record(r) \/ \E v \in Latencies : record(r, v)
  PROVE  DoneInv' /\ RecordInv' /\ StatsInv'
<1> USE DEF BracketInv
<1>0. Recording(r)
    BY DEF RecordInv
\* What a step has to show: that it widens the bounds, moves r alone, and
\* leaves r where its invariant says.
<1>1. ASSUME Widens, Recording(r)', UNCHANGED <<done, statsVars>>,
             \A q \in Recorders \ {r} :
                 /\ rpc'[q] = rpc[q] /\ which'[q] = which[q]
                 /\ latency'[q] = latency[q] /\ old'[q] = old[q]
      PROVE  DoneInv' /\ RecordInv' /\ StatsInv'
  <2>1. DoneInv'
      BY <1>1, WidensDone
  <2>2. ASSUME NEW q \in Recorders PROVE Recording(q)'
    <3>1. CASE q = r
        BY <1>1, <3>1
    <3>2. CASE q # r
      <4>1. Recording(q)
          BY DEF RecordInv
      <4>. QED
          BY <1>1, <3>2, <4>1, WidensOther
    <3>. QED
        BY <3>1, <3>2
  <2>3. StatsInv'
      BY <1>1, RecordKeepsStats
  <2>. QED
      BY <2>1, <2>2, <2>3 DEF RecordInv
<1>2. ASSUME UNCHANGED extreme PROVE Widens
    BY <1>2, ExtremeTypes DEF Widens
<1>3. ASSUME NEW v \in Latencies, record(r, v) PROVE DoneInv' /\ RecordInv' /\ StatsInv'
  <2>1. rpc'[r] = "load" /\ which'[r] = "min"
      BY <1>3 DEF record, Types, TypeOK
  <2>2. Recording(r)'
      BY <2>1 DEF Recording, PastMin, PastBoth
  <2>. QED
      BY <1>1, <1>2, <1>3, <2>2 DEF record, Types, TypeOK
<1>4. CASE LoadExtreme(r) \/ SwapFails(r)
  <2>1. /\ rpc[r] \in {"load", "cas"} /\ Test(r, extreme[which[r]])
        /\ UNCHANGED <<extreme, latency, done, statsVars>>
      BY <1>4 DEF LoadExtreme, SwapFails, shared
  <2>2. Recording(r)'
      BY <1>0, <2>1, TestRecording
  <2>3. \A q \in Recorders \ {r} :
            rpc'[q] = rpc[q] /\ which'[q] = which[q] /\ old'[q] = old[q]
      BY <2>1 DEF Test, NextExtreme, Types, TypeOK
  <2>. QED
      BY <1>1, <1>2, <2>1, <2>2, <2>3
<1>5. CASE Swap(r)
  <2>1. Widens /\ Recording(r)'
      BY <1>0, <1>5, SwapWidens, SwapRecording
  <2>2. \A q \in Recorders \ {r} : rpc'[q] = rpc[q] /\ which'[q] = which[q]
      BY <1>5 DEF Swap, NextExtreme, Types, TypeOK
  <2>. QED
      BY <1>1, <1>5, <2>1, <2>2 DEF Swap
<1>6. CASE AddSum(r)
  <2>1. rpc[r] = "sum" /\ rpc'[r] = "count"
      BY <1>6 DEF AddSum, Types, TypeOK
  <2>2. Recording(r)'
      BY <1>0, <1>6, <2>1 DEF AddSum, Recording, PastMin, PastBoth, MinBounds, MaxBounds
  <2>. QED
      BY <1>1, <1>2, <1>6, <2>2 DEF AddSum, Types, TypeOK
<1>7. CASE AddCount(r)
  <2>1. \A v \in Latencies : done[v] > 0 => done'[v] > 0
      BY <1>7 DEF AddCount, Types, TypeOK
  <2>2. \A v \in Latencies : v # latency[r] => done'[v] = done[v]
      BY <1>7 DEF AddCount, Types, TypeOK
  <2>3. MinBounds(latency[r]) /\ MaxBounds(latency[r])
      BY <1>0, <1>7 DEF AddCount, Recording, PastMin, PastBoth
  <2>4. DoneInv'
      BY <1>7, <2>2, <2>3 DEF AddCount, DoneInv, MinBounds, MaxBounds
  <2>5. StatsInv'
      BY <1>7, <2>1, RecordKeepsStats DEF AddCount
  <2>6. ASSUME NEW q \in Recorders PROVE Recording(q)'
    <3>1. CASE q = r
      <4>1. rpc'[r] = "idle"
          BY <1>7 DEF AddCount, Types, TypeOK
      <4>. QED
          BY <3>1, <4>1 DEF Recording, PastMin, PastBoth
    <3>2. CASE q # r
      <4>1. rpc'[q] = rpc[q] /\ UNCHANGED <<extreme, which, latency, old>>
          BY <1>7, <3>2 DEF AddCount, Types, TypeOK
      <4>2. Recording(q)
          BY DEF RecordInv
      <4>. QED
          BY <1>2, <4>1, <4>2, WidensOther
    <3>. QED
        BY <3>1, <3>2
  <2>. QED
      BY <2>4, <2>5, <2>6 DEF RecordInv
<1>. QED
    BY <1>3, <1>4, <1>5, <1>6, <1>7 DEF Record

\* A step of get_stats moves nothing that record is about.
LEMMA StatsKeepRecords ==
  ASSUME DoneInv, RecordInv, UNCHANGED <<shared, recordVars, done>>
  PROVE  DoneInv' /\ RecordInv'
<1>1. DoneInv'
    BY DEF DoneInv, MinBounds, MaxBounds, shared
<1>2. RecordInv'
    BY DEF RecordInv, Recording, PastMin, PastBoth, MinBounds, MaxBounds, Beyond,
           shared, recordVars
<1>. QED
    BY <1>1, <1>2

LEMMA StatsBracket ==
  ASSUME BracketInv, Types', get_stats \/ LoadStat \/ ScanBucket
  PROVE  DoneInv' /\ RecordInv' /\ StatsInv'
<1> USE DEF BracketInv
<1>1. DoneInv' /\ RecordInv'
  <2>1. UNCHANGED <<shared, recordVars, done>>
      BY DEF get_stats, LoadStat, ScanBucket
  <2>. QED
      BY <2>1, StatsKeepRecords
<1>2. CASE get_stats
  <2>1. ~MinLoaded' /\ ~MaxLoaded'
    <3>1. count \in Nat /\ st'.sample_count = count
        BY <1>2 DEF get_stats, NoStats, Types, TypeOK
    <3>. QED
        BY <1>2, <3>1 DEF get_stats, MinLoaded, MaxLoaded, Returned
  <2>2. counted' = done /\ done' = done
      BY <1>2 DEF get_stats
  <2>. QED
      BY <1>1, <2>1, <2>2 DEF StatsInv
<1>3. CASE LoadStat
  <2>1. counted' = counted /\ done' = done /\ gpc' # "idle"
      BY <1>3 DEF LoadStat
  <2>2. SUFFICES ASSUME NEW v \in Latencies, counted[v] > 0
                 PROVE  /\ MinLoaded' => st'.min <= v
                        /\ MaxLoaded' => v <= st'.max
      BY <1>1, <2>1 DEF StatsInv
  <2>3. extreme.min <= v /\ v <= extreme.max
      BY <2>2 DEF StatsInv, DoneInv, MinBounds, MaxBounds
  <2>4. CASE gpc = "min"
    <3>1. st'.min = extreme.min /\ gpc' = "max"
        BY <1>3, <2>4 DEF LoadStat, Types, StatsType
    <3>. QED
        BY <2>3, <3>1 DEF MaxLoaded, Returned
  <2>5. CASE gpc = "max"
    <3>1. st'.max = extreme.max /\ st'.min = st.min
        BY <1>3, <2>5 DEF LoadStat, Types, StatsType
    <3>2. st.min <= v
        BY <2>2, <2>5 DEF StatsInv, MinLoaded
    <3>. QED
        BY <2>3, <3>1, <3>2
  <2>6. CASE gpc = "mean"
    <3>1. st'.max = st.max /\ st'.min = st.min
        BY <1>3, <2>6 DEF LoadStat, Types, StatsType
    <3>2. st.min <= v /\ v <= st.max
        BY <2>2, <2>6 DEF StatsInv, MinLoaded, MaxLoaded
    <3>. QED
        BY <3>1, <3>2
  <2>. QED
      BY <1>3, <2>4, <2>5, <2>6 DEF LoadStat
<1>4. CASE ScanBucket
  <2>1. gpc = "scan" /\ counted' = counted /\ done' = done
      BY <1>4 DEF ScanBucket
  <2>2. st'.min = st.min /\ st'.max = st.max
      BY <1>4 DEF ScanBucket, Types, StatsType
  <2>. QED
      BY <1>1, <2>1, <2>2 DEF StatsInv, MinLoaded, MaxLoaded
<1>. QED
    BY <1>2, <1>3, <1>4, <1>1

LEMMA ResetBracket ==
  ASSUME BracketInv, Types', reset
  PROVE  DoneInv' /\ RecordInv' /\ StatsInv'
<1>1. \A v \in Latencies : done'[v] = 0 /\ counted'[v] = 0
    BY DEF reset
<1>2. DoneInv' /\ StatsInv'
    BY <1>1 DEF DoneInv, StatsInv
<1>3. \A r \in Recorders : rpc'[r] = "idle"
    BY DEF reset, recordVars
<1>4. RecordInv'
    BY <1>3 DEF RecordInv, Recording, PastMin, PastBoth
<1>. QED
    BY <1>2, <1>4

LEMMA BracketStep == BracketInv /\ [Next]_vars => BracketInv'
<1> SUFFICES ASSUME BracketInv, [Next]_vars PROVE BracketInv'
    OBVIOUS
<1>0. Types'
    BY TypesStep DEF BracketInv
<1>1. CASE UNCHANGED vars
  <2>1. DoneInv' /\ RecordInv'
      BY <1>1, StatsKeepRecords DEF BracketInv, vars
  <2>2. StatsInv'
      BY <1>1 DEF BracketInv, StatsInv, MinLoaded, MaxLoaded, Returned, vars, statsVars
  <2>. QED
      BY <1>0, <2>1, <2>2 DEF BracketInv
<1>. QED
    BY <1>0, <1>1, RecordBracket, StatsBracket, ResetBracket DEF Next, GetStats, BracketInv

\* The minimum and the maximum that get_stats returns bound the samples it
\* counted, for any number of threads that record meanwhile
\* (latency_tracker.h:33-44, 49-52).
THEOREM StatsAreBrackets == Spec => []StatsBracketSamples
<1>1. BracketInv => StatsBracketSamples
    BY DEF BracketInv, StatsInv, MinLoaded, MaxLoaded, StatsBracketSamples
<1>. QED
    BY <1>1, InitBracket, BracketStep, PTL DEF Spec

-----------------------------------------------------------------------------
(* No sample is lost.                                                      *)

\* The latencies of a bucket, and the threads whose sample is in the bucket
\* and not yet counted.
InBucket(b) == {v \in Latencies : bucket_for(v) = b}
Pending == {r \in Recorders : rpc[r] # "idle"}
PendingIn(b) == {r \in Pending : bucket_for(latency[r]) = b}

\* The threads whose sample is in the sum and not yet counted.
Summed == {r \in Recorders : rpc[r] = "count"}

\* What the latencies recorded add up to.
Weighted(bag) == Total([v \in Latencies |-> v * bag[v]], Latencies)

PendingKnown == \A r \in Pending : latency[r] \in Latencies

CountExact == count = Total(done, Latencies)

BucketsExact ==
    \A b \in Buckets :
        buckets[b] = Total(done, InBucket(b)) + Cardinality(PendingIn(b))

SumExact == sum = (Weighted(done) + Total(latency, Summed)) % (UINT64_MAX + 1)

\* An extreme is a latency that somebody recorded, or records.
Seen(v) == v \in Recorded \/ \E r \in Pending : latency[r] = v

ExtremesSeen ==
    /\ extreme.min = UINT64_MAX \/ Seen(extreme.min)
    /\ extreme.max = 0 \/ Seen(extreme.max)

BooksInv == PendingKnown /\ CountExact /\ BucketsExact /\ SumExact /\ ExtremesSeen

\* Every latency has its bucket, by the least power of two above it.
LEMMA BucketOf ==
  ASSUME NEW v \in Latencies
  PROVE  /\ bucket_for(v) \in Buckets
         /\ v # 0 => 2 ^ bucket_for(v) <= v /\ v < 2 ^ (bucket_for(v) + 1)
<1>1. v \in 0 .. UINT64_MAX /\ NUM_BUCKETS \in Nat \ {0}
    BY TrackerAssumption
<1>2. CASE v = 0
    BY <1>2, RangeOfLatencies DEF bucket_for
<1>3. CASE v # 0
  <2> DEFINE C == {n \in Nat : v < 2 ^ n}
  <2>1. NUM_BUCKETS \in C
    <3>1. 2 ^ NUM_BUCKETS \in Nat /\ v <= 2 ^ NUM_BUCKETS - 1
        BY <1>1, PowerPositive DEF UINT64_MAX
    <3>. QED
        BY <1>1, <3>1
  <2>2. PICK n \in C : \A m \in C : n <= m
      BY <2>1, LeastNat
  <2>3. n # 0
    <3>1. SUFFICES ASSUME n = 0 PROVE FALSE
        OBVIOUS
    <3>2. v < 2 ^ 0
        BY <2>2, <3>1, Zenon
    <3>3. 2 ^ 0 = 1 /\ v \in Nat
        BY <1>1, RangeOfLatencies
    <3>. QED
        BY <1>3, <3>2, <3>3
  <2>4. n - 1 \in Nat /\ n - 1 \notin C /\ n <= NUM_BUCKETS
      BY <2>1, <2>2, <2>3
  <2>5. 2 ^ (n - 1) \in Nat /\ v \in Nat
      BY <1>1, <2>4, PowerPositive
  <2>6. 2 ^ (n - 1) <= v /\ v < 2 ^ ((n - 1) + 1)
    <3>1. 2 ^ (n - 1) <= v
        BY <2>4, <2>5
    <3>2. (n - 1) + 1 = n
        BY <2>2
    <3>. QED
        BY <2>2, <3>1, <3>2
  <2>7. n - 1 \in Buckets
      BY <1>1, <2>4 DEF Buckets
  <2>8. \E b \in Buckets : 2 ^ b <= v /\ v < 2 ^ (b + 1)
      BY <2>6, <2>7
  <2>. QED
      BY <1>3, <2>8 DEF bucket_for
<1>. QED
    BY <1>2, <1>3

\* The sets that are summed over are finite.
LEMMA FiniteDomains ==
    /\ IsFiniteSet(Latencies) /\ Latencies \subseteq Nat
    /\ \A b : IsFiniteSet(InBucket(b))
    /\ IsFiniteSet(Recorders)
<1>1. IsFiniteSet(0 .. UINT64_MAX)
    BY FS_Interval, RangeOfLatencies
<1>2. IsFiniteSet(Latencies) /\ Latencies \subseteq Nat
  <2>1. Latencies \in SUBSET (0 .. UINT64_MAX)
      BY TrackerAssumption
  <2>2. IsFiniteSet(Latencies)
      BY <1>1, <2>1, FS_Subset
  <2>. QED
      BY <2>1, <2>2, RangeOfLatencies
<1>3. ASSUME NEW b PROVE IsFiniteSet(InBucket(b))
    BY <1>2, FS_Subset DEF InBucket
<1>. QED
    BY <1>2, <1>3, TrackerAssumption

LEMMA FiniteThreads ==
    /\ IsFiniteSet(Summed)
    /\ \A b : IsFiniteSet(PendingIn(b))
<1>1. IsFiniteSet(Summed)
    BY FiniteDomains, FS_Subset DEF Summed
<1>2. ASSUME NEW b PROVE IsFiniteSet(PendingIn(b))
    BY FiniteDomains, FS_Subset DEF PendingIn, Pending
<1>. QED
    BY <1>1, <1>2

\* The sum is that of the latencies, each as often as it was recorded.
LEMMA WeightedNat ==
  ASSUME NEW bag \in [Latencies -> Nat] PROVE Weighted(bag) \in Nat
<1> DEFINE w == [v \in Latencies |-> v * bag[v]]
<1>1. \A v \in Latencies : w[v] \in Nat
    BY FiniteDomains
<1> HIDE DEF w
<1>2. Total(w, Latencies) \in Nat
    BY <1>1, FiniteDomains, TotalNat
<1>. QED
    BY <1>2 DEF w, Weighted

\* One more of a latency.
LEMMA WeightedBump ==
  ASSUME NEW bag \in [Latencies -> Nat], NEW x \in Latencies
  PROVE  Weighted([bag EXCEPT ![x] = bag[x] + 1]) = Weighted(bag) + x
<1> DEFINE e == [bag EXCEPT ![x] = bag[x] + 1]
           w == [v \in Latencies |-> v * bag[v]]
           y == [v \in Latencies |-> v * e[v]]
<1>1. x \in Nat /\ bag[x] \in Nat /\ e \in [Latencies -> Nat]
    BY FiniteDomains
<1>2. y[x] = w[x] + x
  <2>1. x * (bag[x] + 1) = x * bag[x] + x
      BY <1>1
  <2>. QED
      BY <2>1
<1>3. \A v \in Latencies : w[v] \in Nat /\ y[v] \in Nat
    BY <1>1, FiniteDomains
<1>4. \A v \in Latencies \ {x} : y[v] = w[v]
    OBVIOUS
<1>5. Weighted(bag) = Total(w, Latencies) /\ Weighted(e) = Total(y, Latencies)
    BY DEF Weighted
<1>6. Weighted(bag) \in Nat /\ Weighted(e) \in Nat
    BY <1>1, WeightedNat
<1> HIDE DEF e, w, y
<1>7. Total(y, Latencies) + w[x] = Total(w, Latencies) + y[x]
  <2>1. IsFiniteSet(Latencies)
      BY FiniteDomains
  <2>. QED
      BY <1>3, <1>4, <2>1, TotalUpdate
<1>8. Weighted(e) = Weighted(bag) + x
    BY <1>1, <1>2, <1>3, <1>5, <1>6, <1>7
<1>. QED
    BY <1>8 DEF e

\* With no sample and nobody recording, the books are empty.
NoBooks ==
    /\ Pending = {}
    /\ \A v \in Latencies : done[v] = 0
    /\ buckets = NoSamples
    /\ extreme = NoExtremes
    /\ sum = 0
    /\ count = 0

LEMMA EmptyBooks == NoBooks => BooksInv
<1> SUFFICES ASSUME NoBooks PROVE BooksInv
    OBVIOUS
<1> USE DEF NoBooks
<1>1. Summed = {} /\ \A b : PendingIn(b) = {}
    BY DEF Pending, Summed, PendingIn
<1>2. Total(done, Latencies) = 0
    BY FiniteDomains, TotalZero
<1>3. ASSUME NEW b \in Buckets PROVE buckets[b] = Total(done, InBucket(b)) + Cardinality(PendingIn(b))
  <2>1. Total(done, InBucket(b)) = 0
    <3>1. \A v \in InBucket(b) : done[v] = 0
        BY DEF InBucket
    <3>. QED
        BY <3>1, FiniteDomains, TotalZero
  <2>2. buckets[b] = 0 /\ Cardinality(PendingIn(b)) = 0
      BY <1>1, FS_EmptySet DEF NoSamples
  <2>. QED
      BY <2>1, <2>2
<1>4. SumExact
  <2>1. Weighted(done) = 0
    <3> DEFINE w == [v \in Latencies |-> v * done[v]]
    <3>1. \A v \in Latencies : w[v] = 0
        BY FiniteDomains
    <3> HIDE DEF w
    <3>2. Total(w, Latencies) = 0
        BY <3>1, FiniteDomains, TotalZero
    <3>. QED
        BY <3>2 DEF w, Weighted
  <2>2. Total(latency, Summed) = 0
      BY <1>1, TotalEmpty
  <2>3. 0 % (UINT64_MAX + 1) = 0
      BY RangeOfLatencies
  <2>. QED
      BY <2>1, <2>2, <2>3 DEF SumExact
<1>. QED
    BY <1>2, <1>3, <1>4 DEF BooksInv, PendingKnown, CountExact, BucketsExact, ExtremesSeen, NoExtremes

LEMMA InitBooks == Init => BooksInv
<1> SUFFICES ASSUME Init PROVE BooksInv
    OBVIOUS
<1>1. Pending = {}
    BY DEF Init, Pending
<1>2. \A v \in Latencies : done[v] = 0
    BY DEF Init
<1>. QED
    BY <1>1, <1>2, EmptyBooks DEF Init, NoBooks

LEMMA TotalOfBucket ==
  ASSUME NEW bag \in [Latencies -> Nat], NEW b
  PROVE  Total(bag, InBucket(b)) \in Nat
<1>1. \A v \in InBucket(b) : bag[v] \in Nat
    BY DEF InBucket
<1>. QED
    BY <1>1, FiniteDomains, TotalNat

\* Steps that move no sample into the books or within them.
LEMMA BooksFrame ==
  ASSUME BooksInv, UNCHANGED <<buckets, sum, count, done, latency>>,
         Pending' = Pending, Summed' = Summed, ExtremesSeen'
  PROVE  BooksInv'
<1>1. PendingKnown' /\ CountExact' /\ SumExact'
    BY DEF BooksInv, PendingKnown, CountExact, SumExact
<1>2. BucketsExact'
    BY DEF BooksInv, BucketsExact, PendingIn
<1>. QED
    BY <1>1, <1>2 DEF BooksInv

\* A call of record puts its sample into the bucket (latency_tracker.h:29-31).
LEMMA BooksRecord ==
  ASSUME Types, BooksInv, NEW r \in Recorders, NEW v \in Latencies, record(r, v)
  PROVE  BooksInv'
<1>0. /\ rpc[r] = "idle" /\ rpc'[r] = "load" /\ latency'[r] = v
      /\ \A q \in Recorders \ {r} : rpc'[q] = rpc[q] /\ latency'[q] = latency[q]
      /\ buckets \in [Buckets -> Nat] /\ done \in [Latencies -> Nat]
      /\ UNCHANGED <<extreme, sum, count, done>>
      /\ buckets' = [buckets EXCEPT ![bucket_for(v)] = @ + 1]
    BY DEF record, Types, TypeOK
<1>1. Pending' = Pending \cup {r} /\ r \notin Pending
    BY <1>0 DEF Pending
<1>2. Summed' = Summed /\ r \notin Summed
    BY <1>0 DEF Summed
<1>3. PendingKnown' /\ CountExact'
    BY <1>0, <1>1 DEF BooksInv, PendingKnown, CountExact, Pending
<1>4. ASSUME NEW b \in Buckets
      PROVE  buckets'[b] = Total(done, InBucket(b)) + Cardinality(PendingIn(b)')
  <2>1. buckets[b] = Total(done, InBucket(b)) + Cardinality(PendingIn(b))
      BY DEF BooksInv, BucketsExact
  <2>2. CASE b = bucket_for(v)
    <3>1. PendingIn(b)' = PendingIn(b) \cup {r} /\ r \notin PendingIn(b)
        BY <1>0, <1>1, <2>2 DEF PendingIn, Pending
    <3>2. Cardinality(PendingIn(b)') = Cardinality(PendingIn(b)) + 1
        BY <3>1, FiniteThreads, FS_AddElement
    <3>3. Cardinality(PendingIn(b)) \in Nat
        BY FiniteThreads, FS_CardinalityType
    <3>4. Total(done, InBucket(b)) \in Nat
        BY <1>0, TotalOfBucket
    <3>5. buckets'[b] = buckets[b] + 1
        BY <1>0, <2>2
    <3>. QED
        BY <2>1, <3>2, <3>3, <3>4, <3>5
  <2>3. CASE b # bucket_for(v)
    <3>1. PendingIn(b)' = PendingIn(b)
        BY <1>0, <1>1, <2>3 DEF PendingIn, Pending
    <3>2. buckets'[b] = buckets[b]
        BY <1>0, <2>3
    <3>. QED
        BY <2>1, <3>1, <3>2
  <2>. QED
      BY <2>2, <2>3
<1>5. BucketsExact'
    BY <1>0, <1>4 DEF BucketsExact
<1>6. Total(latency', Summed) = Total(latency, Summed)
  <2>1. \A q \in Summed : latency'[q] = latency[q]
      BY <1>0, <1>2 DEF Summed
  <2>2. IsFiniteSet(Summed)
      BY FiniteThreads
  <2>. QED
      BY <2>1, <2>2, TotalCongruent
<1>7. SumExact'
    BY <1>0, <1>2, <1>6 DEF BooksInv, SumExact
<1>8. ExtremesSeen'
  <2>1. extreme' = extreme
      BY <1>0
  <2>2. Seen(extreme.min) => Seen(extreme.min)'
      BY <1>0, <1>1, <2>1 DEF Seen, Pending, Recorded
  <2>3. Seen(extreme.max) => Seen(extreme.max)'
      BY <1>0, <1>1, <2>1 DEF Seen, Pending, Recorded
  <2>. QED
      BY <2>1, <2>2, <2>3 DEF BooksInv, ExtremesSeen
<1>. QED
    BY <1>3, <1>5, <1>7, <1>8 DEF BooksInv

\* The loops for the extremes move no sample; an exchange leaves the latency
\* of its thread (latency_tracker.h:33-42).
LEMMA BooksExtreme ==
  ASSUME Types, BooksInv, NEW r \in Recorders, LoadExtreme(r) \/ Swap(r) \/ SwapFails(r)
  PROVE  BooksInv'
<1>1. /\ rpc[r] \notin {"idle", "count"} /\ rpc'[r] \notin {"idle", "count"}
      /\ \A q \in Recorders \ {r} : rpc'[q] = rpc[q]
      /\ UNCHANGED <<buckets, sum, count, done, latency>>
    BY DEF LoadExtreme, Swap, SwapFails, Test, NextExtreme, shared, Types, TypeOK
<1>2. Pending' = Pending /\ Summed' = Summed /\ r \in Pending
    BY <1>1 DEF Pending, Summed
<1>3. /\ extreme'.min = extreme.min \/ extreme'.min = latency[r]
      /\ extreme'.max = extreme.max \/ extreme'.max = latency[r]
    BY DEF LoadExtreme, Swap, SwapFails, shared, Types, TypeOK
<1>4. Seen(latency[r])
    BY <1>2 DEF Seen
<1>5. /\ extreme'.min = UINT64_MAX \/ Seen(extreme'.min)
      /\ extreme'.max = 0 \/ Seen(extreme'.max)
    BY <1>3, <1>4 DEF BooksInv, ExtremesSeen
<1>6. ExtremesSeen'
    BY <1>1, <1>2, <1>5 DEF ExtremesSeen, Seen, Recorded
<1>. QED
    BY <1>1, <1>2, <1>6, BooksFrame

\* fetch_add of the sum, which may wrap (latency_tracker.h:43).
LEMMA BooksSum ==
  ASSUME Types, BooksInv, NEW r \in Recorders, AddSum(r)
  PROVE  BooksInv'
<1>1. /\ rpc[r] = "sum" /\ rpc'[r] = "count"
      /\ \A q \in Recorders \ {r} : rpc'[q] = rpc[q]
      /\ UNCHANGED <<buckets, extreme, count, done, latency>>
      /\ sum' = (sum + latency[r]) % (UINT64_MAX + 1)
      /\ done \in [Latencies -> Nat] /\ sum \in Nat
      /\ \A q \in Recorders : latency[q] \in Nat
    BY RangeOfLatencies DEF AddSum, Types, TypeOK
<1>2. Pending' = Pending
    BY <1>1 DEF Pending
<1>3. Summed' = Summed \cup {r} /\ r \notin Summed
    BY <1>1 DEF Summed
<1>4. Total(latency, Summed \cup {r}) = latency[r] + Total(latency, Summed)
  <2>1. \A q \in Summed : latency[q] \in Nat
      BY <1>1 DEF Summed
  <2>2. IsFiniteSet(Summed)
      BY FiniteThreads
  <2>. QED
      BY <1>1, <1>3, <2>1, <2>2, TotalAdd
<1>5. SumExact'
  <2> DEFINE s == Weighted(done) + Total(latency, Summed)
  <2>1. Weighted(done) \in Nat
      BY <1>1, WeightedNat
  <2>2. Total(latency, Summed) \in Nat
    <3>1. \A q \in Summed : latency[q] \in Nat
        BY <1>1 DEF Summed
    <3>. QED
        BY <3>1, FiniteThreads, TotalNat
  <2>3. s \in Nat /\ UINT64_MAX + 1 \in Nat \ {0} /\ latency[r] \in Nat
      BY <1>1, <2>1, <2>2, RangeOfLatencies
  <2>4. sum = s % (UINT64_MAX + 1)
      BY DEF BooksInv, SumExact
  <2>5. Weighted(done) + Total(latency, Summed \cup {r}) = s + latency[r]
      BY <1>1, <1>4, <2>1, <2>2
  <2> HIDE DEF s
  <2>6. sum' = (s + latency[r]) % (UINT64_MAX + 1)
      BY <1>1, <2>3, <2>4, WrappedSum
  <2>. QED
      BY <1>1, <1>3, <2>5, <2>6 DEF SumExact
<1>6. PendingKnown' /\ CountExact'
    BY <1>1, <1>2 DEF BooksInv, PendingKnown, CountExact
<1>7. BucketsExact'
    BY <1>1, <1>2 DEF BooksInv, BucketsExact, PendingIn
<1>8. ExtremesSeen'
    BY <1>1, <1>2 DEF BooksInv, ExtremesSeen, Seen, Recorded
<1>. QED
    BY <1>5, <1>6, <1>7, <1>8 DEF BooksInv

\* One more of a latency in a bag, summed over a set of latencies.
LEMMA TotalBump ==
  ASSUME NEW bag \in [Latencies -> Nat], NEW x \in Latencies, NEW S \in SUBSET Latencies
  PROVE  Total([bag EXCEPT ![x] = bag[x] + 1], S) = Total(bag, S) + (IF x \in S THEN 1 ELSE 0)
<1> DEFINE e == [bag EXCEPT ![x] = bag[x] + 1]
<1>1. /\ \A v \in S : bag[v] \in Nat /\ e[v] \in Nat
      /\ \A v \in S \ {x} : e[v] = bag[v]
      /\ bag[x] \in Nat
      /\ e[x] = bag[x] + 1
    OBVIOUS
<1>2. IsFiniteSet(S)
    BY FiniteDomains, FS_Subset
<1> HIDE DEF e
<1>3. Total(e, S) \in Nat /\ Total(bag, S) \in Nat
    BY <1>1, <1>2, TotalNat
<1>4. CASE x \in S
  <2>1. Total(e, S) + bag[x] = Total(bag, S) + e[x]
      BY <1>1, <1>2, <1>4, TotalUpdate
  <2>2. Total(e, S) = Total(bag, S) + 1
      BY <1>1, <1>3, <2>1
  <2>. QED
      BY <1>4, <2>2 DEF e
<1>5. CASE x \notin S
  <2>1. \A v \in S : e[v] = bag[v]
      BY <1>1, <1>5
  <2>2. Total(e, S) = Total(bag, S)
      BY <1>2, <2>1, TotalCongruent
  <2>. QED
      BY <1>3, <1>5, <2>2 DEF e
<1>. QED
    BY <1>4, <1>5

\* The sample is counted (latency_tracker.h:44).
LEMMA BooksCount ==
  ASSUME Types, BooksInv, NEW r \in Recorders, AddCount(r)
  PROVE  BooksInv'
<1> DEFINE x == latency[r]
<1>1. /\ rpc[r] = "count" /\ rpc'[r] = "idle"
      /\ \A q \in Recorders \ {r} : rpc'[q] = rpc[q]
      /\ UNCHANGED <<buckets, extreme, sum, latency>>
      /\ count' = count + 1
      /\ done' = [done EXCEPT ![x] = done[x] + 1]
      /\ done \in [Latencies -> Nat] /\ buckets \in [Buckets -> Nat]
      /\ \A q \in Recorders : latency[q] \in Nat
    BY RangeOfLatencies DEF AddCount, Types, TypeOK
<1>2. Pending' = Pending \ {r} /\ r \in Pending
    BY <1>1 DEF Pending
<1>3. Summed' = Summed \ {r} /\ r \in Summed
    BY <1>1 DEF Summed
<1>4. x \in Latencies
    BY <1>2 DEF BooksInv, PendingKnown
<1>5. PendingKnown'
    BY <1>1, <1>2 DEF BooksInv, PendingKnown
<1>6. CountExact'
  <2>1. Total(done', Latencies) = Total(done, Latencies) + 1
      BY <1>1, <1>4, TotalBump
  <2>. QED
      BY <1>1, <2>1 DEF BooksInv, CountExact
<1>7. ASSUME NEW b \in Buckets
      PROVE  buckets'[b] = Total(done', InBucket(b)) + Cardinality(PendingIn(b)')
  <2>1. buckets[b] = Total(done, InBucket(b)) + Cardinality(PendingIn(b))
      BY DEF BooksInv, BucketsExact
  <2>2. InBucket(b) \in SUBSET Latencies /\ (x \in InBucket(b) <=> b = bucket_for(x))
      BY <1>4 DEF InBucket
  <2>3. Total(done', InBucket(b))
            = Total(done, InBucket(b)) + (IF x \in InBucket(b) THEN 1 ELSE 0)
    <3>1. done \in [Latencies -> Nat] /\ done' = [done EXCEPT ![x] = done[x] + 1]
        BY <1>1
    <3> HIDE DEF x
    <3>. QED
        BY <1>4, <2>2, <3>1, TotalBump
  <2>4. PendingIn(b)' = PendingIn(b) \ {r} /\ (r \in PendingIn(b) <=> b = bucket_for(x))
      BY <1>1, <1>2 DEF PendingIn
  <2>5. Cardinality(PendingIn(b)')
            = IF r \in PendingIn(b) THEN Cardinality(PendingIn(b)) - 1
                                    ELSE Cardinality(PendingIn(b))
      BY <2>4, FiniteThreads, FS_RemoveElement
  <2>6. Total(done, InBucket(b)) \in Nat /\ Cardinality(PendingIn(b)) \in Nat
      BY <1>1, TotalOfBucket, FiniteThreads, FS_CardinalityType
  <2>7. buckets'[b] = buckets[b]
      BY <1>1
  <2>. QED
      BY <2>1, <2>2, <2>3, <2>4, <2>5, <2>6, <2>7
<1>8. BucketsExact'
    BY <1>7 DEF BucketsExact
<1>9. SumExact'
  <2>1. Weighted(done') = Weighted(done) + x
      BY <1>1, <1>4, WeightedBump
  <2>2. Total(latency, Summed) = x + Total(latency, Summed \ {r})
    <3>1. \A q \in Summed : latency[q] \in Nat
        BY <1>1 DEF Summed
    <3>2. IsFiniteSet(Summed)
        BY FiniteThreads
    <3>. QED
        BY <1>3, <3>1, <3>2, TotalRemove
  <2>3. Weighted(done) \in Nat
      BY <1>1, WeightedNat
  <2>4. Total(latency, Summed \ {r}) \in Nat
    <3>1. \A q \in Summed \ {r} : latency[q] \in Nat
        BY <1>1 DEF Summed
    <3>2. IsFiniteSet(Summed \ {r})
        BY FiniteThreads, FS_RemoveElement
    <3>. QED
        BY <3>1, <3>2, TotalNat
  <2>5. Weighted(done') + Total(latency, Summed \ {r}) = Weighted(done) + Total(latency, Summed)
      BY <1>1, <2>1, <2>2, <2>3, <2>4
  <2>. QED
      BY <1>1, <1>3, <2>5 DEF BooksInv, SumExact
<1>10. ASSUME NEW y, Seen(y)
       PROVE  (y \in Latencies /\ done'[y] > 0) \/ \E q \in Pending \ {r} : latency[q] = y
  <2>1. CASE y \in Recorded
    <3>1. y \in Latencies /\ done[y] \in Nat /\ done[y] > 0
        BY <1>1, <2>1 DEF Recorded
    <3>. QED
        BY <1>1, <3>1
  <2>2. ASSUME NEW q \in Pending, latency[q] = y, q = r
        PROVE  y \in Latencies /\ done'[y] > 0
    <3>1. y = x /\ done'[x] = done[x] + 1 /\ done[x] \in Nat
        BY <1>1, <1>4, <2>2
    <3>. QED
        BY <1>4, <3>1
  <2>. QED
      BY <1>10, <2>1, <2>2 DEF Seen
<1>11. ExtremesSeen'
    BY <1>1, <1>2, <1>10 DEF BooksInv, ExtremesSeen, Seen, Recorded
<1>. QED
    BY <1>5, <1>6, <1>8, <1>9, <1>11 DEF BooksInv

LEMMA BooksStep == Types /\ BooksInv /\ [Next]_vars => BooksInv'
<1> SUFFICES ASSUME Types, BooksInv, [Next]_vars PROVE BooksInv'
    OBVIOUS
<1>1. ASSUME UNCHANGED <<shared, recordVars, done>> PROVE BooksInv'
  <2>1. UNCHANGED <<buckets, sum, count, done, latency, extreme>>
      BY <1>1 DEF shared, recordVars
  <2>2. Pending' = Pending /\ Summed' = Summed
      BY <1>1 DEF recordVars, Pending, Summed
  <2>3. ExtremesSeen'
      BY <2>1, <2>2 DEF BooksInv, ExtremesSeen, Seen, Recorded
  <2>. QED
      BY <2>1, <2>2, <2>3, BooksFrame
<1>2. CASE UNCHANGED vars \/ get_stats \/ GetStats
    BY <1>1, <1>2 DEF vars, get_stats, GetStats, LoadStat, ScanBucket
<1>3. CASE reset
  <2>1. Pending' = {}
      BY <1>3 DEF reset, Pending, recordVars
  <2>2. /\ \A v \in Latencies : done'[v] = 0
        /\ buckets' = NoSamples /\ extreme' = NoExtremes /\ sum' = 0 /\ count' = 0
      BY <1>3 DEF reset
  <2>3. NoBooks'
      BY <2>1, <2>2 DEF NoBooks
  <2>. QED
      BY <2>3, EmptyBooks, PTL
<1>. QED
    BY <1>2, <1>3, BooksRecord, BooksExtreme, BooksSum, BooksCount DEF Next, Record

\* What a set of latencies that is bounded by one of its members has for its
\* minimum and its maximum.
LEMMA MinOf ==
  ASSUME NEW S \in SUBSET Nat, NEW m \in S, \A v \in S : m <= v PROVE Min(S) = m
<1>1. PICK k \in S : Min(S) = k /\ \A v \in S : k <= v
    BY DEF Min
<1>. QED
    BY <1>1

LEMMA MaxOf ==
  ASSUME NEW S \in SUBSET Nat, NEW m \in S, \A v \in S : v <= m PROVE Max(S) = m
<1>1. PICK k \in S : Max(S) = k /\ \A v \in S : v <= k
    BY DEF Max
<1>. QED
    BY <1>1

\* When nobody records, the tracker holds exactly the samples recorded.
LEMMA QuietBooks == BracketInv /\ BooksInv => NothingLost
<1> SUFFICES ASSUME BracketInv, BooksInv, \A r \in Recorders : rpc[r] = "idle"
             PROVE  /\ count = Total(done, Latencies)
                    /\ \A b \in Buckets : buckets[b] = Total(done, InBucket(b))
                    /\ sum = Weighted(done) % (UINT64_MAX + 1)
                    /\ Recorded # {} => /\ extreme.min = Min(Recorded)
                                        /\ extreme.max = Max(Recorded)
  <2>1. MapThenSumSet(LAMBDA v : done[v], Latencies) = Total(done, Latencies)
      BY DEF Total
  <2>2. \A b \in Buckets : MapThenSumSet(LAMBDA v : done[v], {v \in Latencies : bucket_for(v) = b})
                              = Total(done, InBucket(b))
      BY DEF Total, InBucket
  <2>3. MapThenSumSet(LAMBDA v : v * done[v], Latencies) = Weighted(done)
      BY FiniteDomains, TotalWeighted DEF Weighted
  <2>. QED
      BY <2>1, <2>2, <2>3 DEF NothingLost
<1>1. Pending = {} /\ Summed = {} /\ \A b : PendingIn(b) = {}
    BY DEF Pending, Summed, PendingIn
<1>2. /\ done \in [Latencies -> Nat] /\ extreme.min \in Nat /\ extreme.max \in Nat
    BY ExtremeTypes DEF BracketInv, Types, TypeOK
<1>3. count = Total(done, Latencies)
    BY DEF BooksInv, CountExact
<1>4. ASSUME NEW b \in Buckets PROVE buckets[b] = Total(done, InBucket(b))
  <2>1. buckets[b] = Total(done, InBucket(b)) + 0
      BY <1>1, FS_EmptySet DEF BooksInv, BucketsExact
  <2>2. Total(done, InBucket(b)) \in Nat
      BY <1>2, TotalOfBucket
  <2>. QED
      BY <2>1, <2>2
<1>5. sum = Weighted(done) % (UINT64_MAX + 1)
  <2>1. Total(latency, Summed) = 0
      BY <1>1, TotalEmpty
  <2>2. Weighted(done) + 0 = Weighted(done)
      BY <1>2, WeightedNat
  <2>. QED
      BY <2>1, <2>2 DEF BooksInv, SumExact
<1>6. ASSUME Recorded # {} PROVE extreme.min = Min(Recorded) /\ extreme.max = Max(Recorded)
  <2>1. Recorded \in SUBSET Nat /\ \A v \in Recorded : v \in Nat /\ v <= UINT64_MAX
    <3>1. Recorded \subseteq 0 .. UINT64_MAX
        BY TrackerAssumption DEF Recorded
    <3>. QED
        BY <3>1, RangeOfLatencies
  <2>2. \A v \in Recorded : extreme.min <= v /\ v <= extreme.max
      BY DEF BracketInv, DoneInv, MinBounds, MaxBounds, Recorded
  <2>3. \A y : Seen(y) => y \in Recorded
      BY <1>1 DEF Seen
  <2>4. PICK v \in Recorded : TRUE
      BY <1>6
  <2>5. extreme.min \in Recorded
    <3>1. CASE extreme.min = UINT64_MAX
      <4>1. v = extreme.min
          BY <1>2, <2>1, <2>2, <3>1, RangeOfLatencies
      <4>. QED
          BY <4>1
    <3>. QED
        BY <2>3, <3>1 DEF BooksInv, ExtremesSeen
  <2>6. extreme.max \in Recorded
    <3>1. CASE extreme.max = 0
      <4>1. v = extreme.max
          BY <1>2, <2>1, <2>2, <3>1
      <4>. QED
          BY <4>1
    <3>. QED
        BY <2>3, <3>1 DEF BooksInv, ExtremesSeen
  <2>. QED
      BY <2>1, <2>2, <2>5, <2>6, MinOf, MaxOf
<1>. QED
    BY <1>3, <1>4, <1>5, <1>6

\* No sample is lost, for any number of threads: each is in its bucket, then in
\* the sum, then counted, and the extremes are those of the samples
\* (latency_tracker.h:29-45).
THEOREM NoSampleIsLost == Spec => []NothingLost
<1>1. BracketInv => Types
    BY DEF BracketInv
<1>. QED
    BY <1>1, InitBracket, BracketStep, InitBooks, BooksStep, QuietBooks, PTL DEF Spec

-----------------------------------------------------------------------------
(* The scan.                                                               *)

\* How many samples of a bag fall into the buckets up to b.
UpTo(bag, b) ==
    MapThenSumSet(LAMBDA v : bag[v], {v \in Latencies : bucket_for(v) <= b})

\* Bucket b is right for p, with the samples there now and those counted.
Placed(p, b) ==
    /\ st.at[p] = bucket_upper_ns(b)
    /\ Total(buckets, 0 .. b) >= Target(p, st.sample_count)
    /\ b > 0 => UpTo(counted, b - 1) < Target(p, st.sample_count)

CountedInv ==
    /\ \A v \in Latencies : counted[v] <= done[v]
    /\ gpc # "idle" => st.sample_count = Total(counted, Latencies)

AtType ==
    /\ st.at \in [Percentiles -> Nat]
    /\ gpc \in {"min", "max", "mean"} => \A p \in Percentiles : st.at[p] = 0

\* The sum so far lies between what was counted in the buckets scanned and
\* what is in them now.
SumBetween ==
    gpc = "scan" =>
        /\ cumul <= Total(buckets, 0 .. bucket - 1)
        /\ UpTo(counted, bucket - 1) <= cumul

\* A percentile is open while the sum is below its target, and is placed
\* behind the scan otherwise.
OpenOrPlaced ==
    gpc = "scan" =>
        \A p \in Percentiles :
            IF st.at[p] = 0
            THEN bucket > 0 => cumul < Target(p, st.sample_count)
            ELSE \E b \in 0 .. bucket - 1 : Placed(p, b)

\* The order of the percentiles.
Before == {<<"p50", "p95">>, <<"p95", "p99">>, <<"p99", "p999">>}

InOrder ==
    /\ gpc = "scan" => st.at["p999"] = 0
    /\ \A o \in Before : st.at[o[2]] # 0 => st.at[o[1]] # 0 /\ st.at[o[1]] <= st.at[o[2]]

\* Every percentile of a finished call is placed.
AllPlaced == Returned => \A p \in Percentiles : \E b \in Buckets : Placed(p, b)

ScanInv ==
    /\ CountedInv
    /\ AtType
    /\ SumBetween
    /\ OpenOrPlaced
    /\ InOrder
    /\ AllPlaced


\* The latencies up to a bucket: none before the first, all up to the last,
\* and bucket by bucket in between.
Below(b) == {v \in Latencies : bucket_for(v) <= b}

LEMMA UpToIsTotal == ASSUME NEW bag, NEW b PROVE UpTo(bag, b) = Total(bag, Below(b))
  BY DEF UpTo, Total, Below

LEMMA UpToNone == ASSUME NEW bag PROVE UpTo(bag, -1) = 0
<1>1. ASSUME NEW v \in Latencies PROVE ~(bucket_for(v) <= -1)
  <2>1. bucket_for(v) \in Nat
      BY BucketOf, RangeOfLatencies
  <2>. QED
      BY <2>1
<1>2. Below(-1) = {}
    BY <1>1 DEF Below
<1>. QED
    BY <1>2, UpToIsTotal, TotalEmpty

LEMMA UpToAll ==
  ASSUME NEW bag PROVE UpTo(bag, NUM_BUCKETS - 1) = Total(bag, Latencies)
<1>1. ASSUME NEW v \in Latencies PROVE bucket_for(v) <= NUM_BUCKETS - 1
  <2>1. bucket_for(v) \in 0 .. NUM_BUCKETS - 1
      BY BucketOf DEF Buckets
  <2>. QED
      BY <2>1
<1>2. Below(NUM_BUCKETS - 1) = Latencies
    BY <1>1 DEF Below
<1>. QED
    BY <1>2, UpToIsTotal

LEMMA UpToNext ==
  ASSUME NEW bag \in [Latencies -> Nat], NEW b \in Buckets
  PROVE  /\ UpTo(bag, b - 1) \in Nat
         /\ UpTo(bag, b) = UpTo(bag, b - 1) + Total(bag, InBucket(b))
<1>1. ASSUME NEW v \in Latencies
      PROVE  bucket_for(v) <= b <=> bucket_for(v) <= b - 1 \/ bucket_for(v) = b
  <2>1. bucket_for(v) \in Nat /\ b \in Nat
      BY BucketOf, RangeOfLatencies
  <2>. QED
      BY <2>1
<1>2. ASSUME NEW v \in Latencies, bucket_for(v) <= b - 1 PROVE bucket_for(v) # b
  <2>1. bucket_for(v) \in Nat /\ b \in Nat
      BY BucketOf, RangeOfLatencies
  <2>. QED
      BY <1>2, <2>1
<1>3. Below(b) = Below(b - 1) \cup InBucket(b)
    BY <1>1 DEF Below, InBucket
<1>4. Below(b - 1) \cap InBucket(b) = {}
    BY <1>2 DEF Below, InBucket
<1>5. Below(b - 1) \in SUBSET Latencies /\ InBucket(b) \in SUBSET Latencies
    BY DEF Below, InBucket
<1>6. IsFiniteSet(Below(b - 1)) /\ IsFiniteSet(InBucket(b))
    BY <1>5, FiniteDomains, FS_Subset
<1>7. \A v \in Below(b - 1) \cup InBucket(b) : bag[v] \in Nat
    BY <1>5
<1>8. Total(bag, Below(b - 1)) \in Nat
    BY <1>6, <1>7, TotalNat
<1>9. Total(bag, Below(b - 1) \cup InBucket(b))
          = Total(bag, Below(b - 1)) + Total(bag, InBucket(b))
    BY <1>4, <1>6, <1>7, TotalUnion
<1>. QED
    BY <1>3, <1>8, <1>9, UpToIsTotal

\* The buckets up to one.
LEMMA FirstBuckets ==
  ASSUME NEW f \in [Buckets -> Nat], NEW b \in Buckets
  PROVE  /\ Total(f, 0 .. b - 1) \in Nat
         /\ Total(f, 0 .. b) = Total(f, 0 .. b - 1) + f[b]
<1>1. b \in Nat /\ b <= NUM_BUCKETS - 1
    BY TrackerAssumption DEF Buckets
<1>2. 0 .. b = (0 .. b - 1) \cup {b} /\ b \notin 0 .. b - 1
    BY <1>1
<1>3. \A c \in 0 .. b - 1 : f[c] \in Nat
  <2>1. \A c \in 0 .. b - 1 : c \in Buckets
      BY <1>1, TrackerAssumption DEF Buckets
  <2>. QED
      BY <2>1
<1>4. IsFiniteSet(0 .. b - 1)
    BY <1>1, FS_Interval
<1>5. Total(f, 0 .. b - 1) \in Nat
    BY <1>3, <1>4, TotalNat
<1>6. f[b] \in Nat
    OBVIOUS
<1>7. Total(f, (0 .. b - 1) \cup {b}) = f[b] + Total(f, 0 .. b - 1)
    BY <1>2, <1>3, <1>4, <1>6, TotalAdd
<1>8. Total(f, 0 .. b) = f[b] + Total(f, 0 .. b - 1)
    BY <1>2, <1>7, Zenon
<1>9. ASSUME NEW x \in Nat, NEW y \in Nat PROVE x + y = y + x
    OBVIOUS
<1>. QED
    BY <1>5, <1>6, <1>8, <1>9

LEMMA BucketsGrow ==
  ASSUME NEW f \in [Buckets -> Nat], NEW g \in [Buckets -> Nat],
         \A c \in Buckets : f[c] <= g[c], NEW b \in Int, b <= NUM_BUCKETS - 1
  PROVE  /\ Total(f, 0 .. b) \in Nat /\ Total(g, 0 .. b) \in Nat
         /\ Total(f, 0 .. b) <= Total(g, 0 .. b)
<1>1. \A c \in 0 .. b : c \in Buckets
    BY TrackerAssumption DEF Buckets
<1>2. \A c \in 0 .. b : f[c] \in Nat /\ g[c] \in Nat /\ f[c] <= g[c]
    BY <1>1
<1>3. IsFiniteSet(0 .. b)
    BY FS_Interval
<1>. QED
    BY <1>2, <1>3, TotalNat, TotalMonotone

\* The value reported for a bucket is not 0, the mark of a percentile that is
\* not found, and grows with the bucket (latency_tracker.h:83-86).
LEMMA UpperBounds ==
  ASSUME NEW i \in Buckets, NEW j \in Buckets, i <= j
  PROVE  /\ bucket_upper_ns(i) \in Nat \ {0}
         /\ bucket_upper_ns(i) <= bucket_upper_ns(j)
<1>1. /\ NUM_BUCKETS \in Nat \ {0} /\ i \in Nat /\ j \in Nat
      /\ i <= NUM_BUCKETS - 1 /\ j <= NUM_BUCKETS - 1
    BY TrackerAssumption DEF Buckets
<1>2. 2 ^ i \in Nat \ {0} /\ 2 ^ j \in Nat \ {0} /\ 2 ^ i <= 2 ^ j
    BY <1>1, PowerPositive, PowerMonotone
<1>3. 2 ^ i <= UINT64_MAX
  <2> DEFINE k == NUM_BUCKETS - 1
  <2>1. k \in Nat /\ i <= k /\ k + 1 = NUM_BUCKETS
      BY <1>1
  <2> HIDE DEF k
  <2>2. 2 ^ i <= 2 ^ k /\ 2 ^ k \in Nat \ {0} /\ 2 ^ (k + 1) = 2 ^ k + 2 ^ k
      BY <1>1, <2>1, PowerPositive, PowerMonotone, PowerDoubles
  <2>3. 2 ^ NUM_BUCKETS = 2 ^ k + 2 ^ k
      BY <2>1, <2>2
  <2>. QED
      BY <1>2, <2>2, <2>3 DEF UINT64_MAX
<1>4. bucket_upper_ns(i) \in {2 ^ i, UINT64_MAX} /\ bucket_upper_ns(j) \in {2 ^ j, UINT64_MAX}
    BY DEF bucket_upper_ns
<1>5. bucket_upper_ns(i) \in Nat \ {0}
    BY <1>2, <1>4, RangeOfLatencies
<1>6. CASE j < NUM_BUCKETS - 1
  <2>0. i < NUM_BUCKETS - 1
      BY <1>1, <1>6
  <2>1. bucket_upper_ns(i) = 2 ^ i /\ bucket_upper_ns(j) = 2 ^ j
      BY <1>6, <2>0, Zenon DEF bucket_upper_ns
  <2>. QED
      BY <1>2, <1>5, <2>1
<1>7. CASE ~(j < NUM_BUCKETS - 1)
  <2>1. bucket_upper_ns(j) = UINT64_MAX
      BY <1>7 DEF bucket_upper_ns
  <2>. QED
      BY <1>3, <1>4, <1>5, <2>1, RangeOfLatencies
<1>. QED
    BY <1>6, <1>7

\* The targets lie within the samples, and come in the order of the
\* percentiles (latency_tracker.h:55-58).
LEMMA Targets ==
  ASSUME NEW n \in Nat
  PROVE  /\ \A p \in Percentiles : Target(p, n) \in Nat /\ Target(p, n) <= n
         /\ \A o \in Before : Target(o[1], n) <= Target(o[2], n)
<1>1. /\ Target("p50", n) = n \div 2 /\ Target("p95", n) = (n * 95) \div 100
      /\ Target("p99", n) = (n * 99) \div 100 /\ Target("p999", n) = (n * 999) \div 1000
    BY DEF Target
<1>2. /\ n \div 2 \in Nat /\ (n * 95) \div 100 \in Nat
      /\ (n * 99) \div 100 \in Nat /\ (n * 999) \div 1000 \in Nat
    OBVIOUS
<1>3. /\ n \div 2 <= (n * 95) \div 100 /\ (n * 95) \div 100 <= (n * 99) \div 100
      /\ (n * 99) \div 100 <= (n * 999) \div 1000 /\ (n * 999) \div 1000 <= n
    OBVIOUS
<1>4. n \div 2 <= n /\ (n * 95) \div 100 <= n /\ (n * 99) \div 100 <= n
    BY <1>2, <1>3
<1>5. \A p \in Percentiles : Target(p, n) \in Nat /\ Target(p, n) <= n
    BY <1>1, <1>2, <1>3, <1>4 DEF Percentiles
<1>6. \A o \in Before : Target(o[1], n) <= Target(o[2], n)
    BY <1>1, <1>3 DEF Before
<1>. QED
    BY <1>5, <1>6

\* A target is the share of a percentile, rounded down.
LEMMA TargetIsShare ==
  ASSUME NEW n \in Nat, NEW p \in Percentiles
  PROVE  /\ 1000 * Target(p, n) <= Permille(p) * n
         /\ Permille(p) * n < 1000 * (Target(p, n) + 1)
<1>1. /\ 1000 * (n \div 2) <= 500 * n /\ 500 * n < 1000 * ((n \div 2) + 1)
      /\ 1000 * ((n * 95) \div 100) <= 950 * n /\ 950 * n < 1000 * (((n * 95) \div 100) + 1)
      /\ 1000 * ((n * 99) \div 100) <= 990 * n /\ 990 * n < 1000 * (((n * 99) \div 100) + 1)
      /\ 1000 * ((n * 999) \div 1000) <= 999 * n /\ 999 * n < 1000 * (((n * 999) \div 1000) + 1)
    OBVIOUS
<1>2. /\ Target("p50", n) = n \div 2 /\ Target("p95", n) = (n * 95) \div 100
      /\ Target("p99", n) = (n * 99) \div 100 /\ Target("p999", n) = (n * 999) \div 1000
    BY DEF Target
<1>3. /\ Permille("p50") = 500 /\ Permille("p95") = 950
      /\ Permille("p99") = 990 /\ Permille("p999") = 999
    BY DEF Permille
<1>. QED
    BY <1>1, <1>2, <1>3 DEF Percentiles

\* The buckets up to b hold the samples below 2^(b+1).
LEMMA BelowPower ==
  ASSUME NEW b \in Buckets, NEW v \in Latencies
  PROVE  bucket_for(v) <= b <=> v < 2 ^ (b + 1)
<1> DEFINE k == bucket_for(v)
<1>1. k \in Nat /\ b \in Nat /\ v \in Nat /\ (v # 0 => 2 ^ k <= v /\ v < 2 ^ (k + 1))
    BY BucketOf, FiniteDomains, RangeOfLatencies
<1>2. v = 0 => k = 0
    BY DEF bucket_for
<1> HIDE DEF k
<1>3. k + 1 \in Nat /\ b + 1 \in Nat
    BY <1>1
<1>4. 2 ^ k \in Nat /\ 2 ^ (k + 1) \in Nat /\ 2 ^ (b + 1) \in Nat \ {0}
    BY <1>1, <1>3, PowerPositive
<1>5. CASE v = 0
    BY <1>1, <1>2, <1>4, <1>5 DEF k
<1>6. CASE v # 0 /\ k <= b
  <2>1. k + 1 <= b + 1
      BY <1>1, <1>6
  <2>2. 2 ^ (k + 1) <= 2 ^ (b + 1)
      BY <1>3, <2>1, PowerMonotone
  <2>. QED
      BY <1>1, <1>4, <1>6, <2>2 DEF k
<1>7. CASE v # 0 /\ ~(k <= b)
  <2>1. b + 1 <= k
      BY <1>1, <1>7
  <2>2. 2 ^ (b + 1) <= 2 ^ k
      BY <1>1, <1>3, <2>1, PowerMonotone
  <2>. QED
      BY <1>1, <1>4, <1>7, <2>2 DEF k
<1>. QED
    BY <1>5, <1>6, <1>7

\* The threads whose sample is in a bucket up to b and not yet counted.
PendingUpTo(b) == {r \in Pending : bucket_for(latency[r]) <= b}

LEMMA PendingNext ==
  ASSUME PendingKnown, NEW b \in Buckets
  PROVE  /\ Cardinality(PendingUpTo(b - 1)) \in Nat
         /\ Cardinality(PendingIn(b)) \in Nat
         /\ Cardinality(PendingUpTo(b))
               = Cardinality(PendingUpTo(b - 1)) + Cardinality(PendingIn(b))
<1>1. ASSUME NEW r \in Pending
      PROVE  /\ bucket_for(latency[r]) <= b
                    <=> bucket_for(latency[r]) <= b - 1 \/ bucket_for(latency[r]) = b
             /\ bucket_for(latency[r]) <= b - 1 => bucket_for(latency[r]) # b
  <2>1. bucket_for(latency[r]) \in Nat /\ b \in Nat
      BY BucketOf, RangeOfLatencies DEF PendingKnown
  <2>. QED
      BY <2>1
<1>2. /\ PendingUpTo(b) = PendingUpTo(b - 1) \cup PendingIn(b)
      /\ PendingUpTo(b - 1) \cap PendingIn(b) = {}
    BY <1>1 DEF PendingUpTo, PendingIn
<1>3. IsFiniteSet(PendingUpTo(b - 1)) /\ IsFiniteSet(PendingIn(b))
    BY FiniteDomains, FS_Subset DEF PendingUpTo, PendingIn, Pending
<1>4. /\ Cardinality(PendingUpTo(b - 1)) \in Nat /\ Cardinality(PendingIn(b)) \in Nat
      /\ Cardinality({}) = 0
    BY <1>3, FS_CardinalityType, FS_EmptySet
<1>5. Cardinality(PendingUpTo(b - 1) \cup PendingIn(b))
        = Cardinality(PendingUpTo(b - 1)) + Cardinality(PendingIn(b))
            - Cardinality(PendingUpTo(b - 1) \cap PendingIn(b))
    BY <1>3, FS_Union
<1>. QED
    BY <1>2, <1>4, <1>5

\* The buckets up to b hold the samples counted and those under way.
LEMMA BucketsHold ==
  ASSUME Types, BooksInv, NEW b \in Buckets
  PROVE  Total(buckets, 0 .. b) = UpTo(done, b) + Cardinality(PendingUpTo(b))
<1> DEFINE Claim(c) == Total(buckets, 0 .. c) = UpTo(done, c) + Cardinality(PendingUpTo(c))
           C == {c \in Buckets : ~Claim(c)}
<1>0. /\ buckets \in [Buckets -> Nat] /\ done \in [Latencies -> Nat]
      /\ PendingKnown /\ BucketsExact
    BY DEF Types, TypeOK, BooksInv
<1>1. Buckets \subseteq Nat /\ \A c \in Buckets : c = 0 \/ c - 1 \in Buckets
    BY TrackerAssumption DEF Buckets
<1>2. Claim(-1)
  <2>1. ASSUME NEW r \in Pending PROVE ~(bucket_for(latency[r]) <= -1)
    <3>1. bucket_for(latency[r]) \in Nat
        BY <1>0, <1>1, BucketOf DEF PendingKnown
    <3>. QED
        BY <3>1
  <2>2. PendingUpTo(-1) = {}
      BY <2>1 DEF PendingUpTo
  <2>3. 0 .. -1 = {}
      OBVIOUS
  <2>4. Total(buckets, {}) = 0 /\ UpTo(done, -1) = 0 /\ Cardinality({}) = 0
      BY TotalEmpty, UpToNone, FS_EmptySet
  <2>. QED
      BY <2>2, <2>3, <2>4
<1>3. ASSUME NEW c \in Buckets, Claim(c - 1) PROVE Claim(c)
  <2>1. /\ Total(buckets, 0 .. c) = Total(buckets, 0 .. c - 1) + buckets[c]
        /\ Total(buckets, 0 .. c - 1) \in Nat
      BY <1>0, FirstBuckets
  <2>2. /\ UpTo(done, c) = UpTo(done, c - 1) + Total(done, InBucket(c))
        /\ UpTo(done, c - 1) \in Nat
      BY <1>0, UpToNext
  <2>3. /\ Cardinality(PendingUpTo(c))
              = Cardinality(PendingUpTo(c - 1)) + Cardinality(PendingIn(c))
        /\ Cardinality(PendingUpTo(c - 1)) \in Nat /\ Cardinality(PendingIn(c)) \in Nat
      BY <1>0, PendingNext
  <2>4. /\ buckets[c] = Total(done, InBucket(c)) + Cardinality(PendingIn(c))
        /\ Total(done, InBucket(c)) \in Nat
      BY <1>0, TotalOfBucket DEF BucketsExact
  <2>. QED
      BY <1>3, <2>1, <2>2, <2>3, <2>4
<1> HIDE DEF Claim
<1>4. SUFFICES ASSUME C # {} PROVE FALSE
    BY DEF Claim
<1>5. PICK c \in C : \A d \in C : c <= d
    BY <1>1, <1>4, LeastNat
<1>6. CASE c = 0
    BY <1>2, <1>3, <1>5, <1>6
<1>7. CASE c # 0
  <2>1. c - 1 \in Buckets /\ ~(c <= c - 1)
      BY <1>1, <1>5, <1>7
  <2>. QED
      BY <1>3, <1>5, <2>1
<1>. QED
    BY <1>6, <1>7

\* What the scan places by its targets is placed by the exact shares.
LEMMA PlacedIsProperty ==
  ASSUME AllPlaced, Types, BooksInv
  PROVE  PercentilesPlaced
<1>0. /\ buckets \in [Buckets -> Nat] /\ done \in [Latencies -> Nat]
      /\ counted \in [Latencies -> Nat] /\ st.sample_count \in Nat
      /\ PendingKnown
    BY DEF Types, TypeOK, BooksInv
<1> SUFFICES ASSUME Returned, NEW p \in Percentiles
             PROVE  \E b \in Buckets :
                /\ st.at[p] = IF b < NUM_BUCKETS - 1 THEN 2 ^ b ELSE UINT64_MAX
                /\ 1000 * (TakenBelow(2 ^ (b + 1)) + 1) > Permille(p) * st.sample_count
                /\ b > 0 => 1000 * SamplesBelow(counted, 2 ^ b)
                               < Permille(p) * st.sample_count
    BY DEF PercentilesPlaced
<1>1. PICK b \in Buckets : Placed(p, b)
    BY DEF AllPlaced
<1>2. \A bag : SamplesBelow(bag, 2 ^ (b + 1)) = UpTo(bag, b)
  <2>1. {v \in Latencies : v < 2 ^ (b + 1)} = {v \in Latencies : bucket_for(v) <= b}
      BY BelowPower
  <2>. QED
      BY <2>1 DEF SamplesBelow, UpTo
<1>3. TakenBelow(2 ^ (b + 1)) = Total(buckets, 0 .. b)
  <2>1. {r \in Recorders : rpc[r] # "idle" /\ latency[r] < 2 ^ (b + 1)} = PendingUpTo(b)
      BY <1>0, BelowPower DEF PendingUpTo, Pending, PendingKnown
  <2>. QED
      BY <1>2, <2>1, BucketsHold DEF TakenBelow
<1>4. b > 0 => SamplesBelow(counted, 2 ^ b) = UpTo(counted, b - 1)
  <2>1. SUFFICES ASSUME b > 0 PROVE SamplesBelow(counted, 2 ^ b) = UpTo(counted, b - 1)
      OBVIOUS
  <2>2. b - 1 \in Buckets /\ (b - 1) + 1 = b
      BY <2>1, TrackerAssumption DEF Buckets
  <2>3. {v \in Latencies : v < 2 ^ b} = {v \in Latencies : bucket_for(v) <= b - 1}
      BY <2>2, BelowPower
  <2>. QED
      BY <2>3 DEF SamplesBelow, UpTo
<1>5. Total(buckets, 0 .. b) \in Nat /\ UpTo(counted, b - 1) \in Nat
  <2>1. /\ Total(buckets, 0 .. b - 1) \in Nat
        /\ Total(buckets, 0 .. b) = Total(buckets, 0 .. b - 1) + buckets[b]
      BY <1>0, FirstBuckets
  <2>2. buckets[b] \in Nat
      BY <1>0
  <2>3. UpTo(counted, b - 1) \in Nat
      BY <1>0, UpToNext
  <2>. QED
      BY <2>1, <2>2, <2>3
<1>6. Target(p, st.sample_count) \in Nat /\ Permille(p) \in Nat
    BY <1>0, Targets DEF Permille, Percentiles
<1>7. PICK share \in Nat : share = Permille(p) * st.sample_count
    BY <1>0, <1>6
<1>8. /\ 1000 * Target(p, st.sample_count) <= share
      /\ share < 1000 * (Target(p, st.sample_count) + 1)
    BY <1>0, <1>7, TargetIsShare
<1>9. /\ Total(buckets, 0 .. b) >= Target(p, st.sample_count)
      /\ b > 0 => UpTo(counted, b - 1) < Target(p, st.sample_count)
      /\ st.at[p] = bucket_upper_ns(b)
    BY <1>1 DEF Placed
<1>10. /\ 1000 * (Total(buckets, 0 .. b) + 1) > share
       /\ b > 0 => 1000 * UpTo(counted, b - 1) < share
    BY <1>5, <1>6, <1>8, <1>9
<1>11. st.at[p] = IF b < NUM_BUCKETS - 1 THEN 2 ^ b ELSE UINT64_MAX
    BY <1>9 DEF bucket_upper_ns
<1>. QED
    BY <1>3, <1>4, <1>7, <1>10, <1>11

LEMMA InitScan == Init => ScanInv
<1> SUFFICES ASSUME Init PROVE ScanInv
    OBVIOUS
<1>1. gpc = "idle" /\ st.sample_count = 0 /\ st.at = [p \in Percentiles |-> 0] /\ counted = done
    BY DEF Init, NoStats
<1>2. CountedInv /\ AtType /\ SumBetween /\ OpenOrPlaced /\ AllPlaced
    BY <1>1 DEF Init, CountedInv, AtType, SumBetween, OpenOrPlaced, AllPlaced, Returned
<1>3. InOrder
    BY <1>1 DEF InOrder, Before, Percentiles
<1>. QED
    BY <1>2, <1>3 DEF ScanInv

\* While the statistics stay as they are the buckets only grow, and the samples.
LEMMA ScanGrow ==
  ASSUME Types, Types', ScanInv, UNCHANGED statsVars,
         \A c \in Buckets : buckets[c] <= buckets'[c],
         \A v \in Latencies : done[v] <= done'[v]
  PROVE  ScanInv'
<1>0. /\ buckets \in [Buckets -> Nat] /\ buckets' \in [Buckets -> Nat]
      /\ done \in [Latencies -> Nat] /\ done' \in [Latencies -> Nat]
      /\ counted \in [Latencies -> Nat] /\ cumul \in Nat /\ bucket \in Buckets
      /\ st.sample_count \in Nat
      /\ UNCHANGED <<gpc, st, bucket, cumul, counted>>
    BY DEF Types, TypeOK, statsVars
<1>1. CountedInv'
  <2>1. ASSUME NEW v \in Latencies PROVE counted[v] <= done'[v]
    <3>1. counted[v] <= done[v] /\ done[v] <= done'[v]
        BY DEF ScanInv, CountedInv
    <3>2. counted[v] \in Nat /\ done[v] \in Nat /\ done'[v] \in Nat
        BY <1>0
    <3>. QED
        BY <3>1, <3>2
  <2>. QED
      BY <1>0, <2>1 DEF ScanInv, CountedInv
<1>2. AtType' /\ InOrder'
    BY <1>0 DEF ScanInv, AtType, InOrder
<1>3. SumBetween'
  <2>1. SUFFICES ASSUME gpc = "scan"
                 PROVE  cumul <= Total(buckets', 0 .. bucket - 1)
      BY <1>0 DEF ScanInv, SumBetween
  <2>2. cumul <= Total(buckets, 0 .. bucket - 1)
      BY <2>1 DEF ScanInv, SumBetween
  <2>3. bucket - 1 \in Int /\ bucket - 1 <= NUM_BUCKETS - 1
      BY <1>0, TrackerAssumption DEF Buckets
  <2>4. /\ Total(buckets, 0 .. bucket - 1) \in Nat /\ Total(buckets', 0 .. bucket - 1) \in Nat
        /\ Total(buckets, 0 .. bucket - 1) <= Total(buckets', 0 .. bucket - 1)
      BY <1>0, <2>3, BucketsGrow
  <2>. QED
      BY <1>0, <2>2, <2>4
<1>4. ASSUME NEW p \in Percentiles, NEW b \in Buckets, Placed(p, b) PROVE Placed(p, b)'
  <2>1. b \in Int /\ b <= NUM_BUCKETS - 1
      BY TrackerAssumption DEF Buckets
  <2>2. /\ Total(buckets, 0 .. b) \in Nat /\ Total(buckets', 0 .. b) \in Nat
        /\ Total(buckets, 0 .. b) <= Total(buckets', 0 .. b)
      BY <1>0, <2>1, BucketsGrow
  <2>3. Total(buckets, 0 .. b) >= Target(p, st.sample_count)
      BY <1>4 DEF Placed
  <2>4. Target(p, st.sample_count) \in Nat
      BY <1>0, Targets
  <2>5. Total(buckets', 0 .. b) >= Target(p, st.sample_count)
      BY <2>2, <2>3, <2>4
  <2>. QED
      BY <1>0, <1>4, <2>5 DEF Placed
<1>5. OpenOrPlaced'
  <2>1. SUFFICES ASSUME gpc = "scan", NEW p \in Percentiles
                 PROVE  IF st.at[p] = 0
                        THEN bucket > 0 => cumul < Target(p, st.sample_count)
                        ELSE \E b \in 0 .. bucket - 1 : Placed(p, b)'
      BY <1>0 DEF OpenOrPlaced
  <2>2. IF st.at[p] = 0
        THEN bucket > 0 => cumul < Target(p, st.sample_count)
        ELSE \E b \in 0 .. bucket - 1 : Placed(p, b)
      BY <2>1 DEF ScanInv, OpenOrPlaced
  <2>3. \A b \in 0 .. bucket - 1 : b \in Buckets
      BY <1>0, TrackerAssumption DEF Buckets
  <2>. QED
      BY <1>4, <2>2, <2>3
<1>6. AllPlaced'
    BY <1>0, <1>4 DEF ScanInv, AllPlaced, Returned
<1>. QED
    BY <1>1, <1>2, <1>3, <1>5, <1>6 DEF ScanInv

\* Statistics begin from nothing: a call of get_stats, or a reset.
LEMMA ScanStart ==
  ASSUME Types, Types', BooksInv, get_stats \/ reset
  PROVE  ScanInv'
<1>1. /\ st'.at = [p \in Percentiles |-> 0] /\ counted' = done'
      /\ gpc' \in {"idle", "min"}
    BY DEF get_stats, reset, NoStats
<1>2. done' \in [Latencies -> Nat]
    BY DEF Types, TypeOK
<1>3. gpc' # "idle" => st'.sample_count = Total(counted', Latencies)
    BY DEF get_stats, reset, NoStats, BooksInv, CountExact
<1>4. ~Returned'
    BY DEF get_stats, reset, Returned, NoStats
<1>5. CountedInv'
    BY <1>1, <1>2, <1>3 DEF CountedInv
<1>6. AtType' /\ SumBetween' /\ OpenOrPlaced' /\ AllPlaced'
    BY <1>1, <1>4 DEF AtType, SumBetween, OpenOrPlaced, AllPlaced
<1>7. InOrder'
    BY <1>1 DEF InOrder, Before, Percentiles
<1>. QED
    BY <1>5, <1>6, <1>7 DEF ScanInv

\* min_, max_ and sum_ are loaded; then the scan is at its first bucket
\* (latency_tracker.h:50-60).
LEMMA ScanLoad ==
  ASSUME Types, Types', ScanInv, LoadStat
  PROVE  ScanInv'
<1>1. /\ gpc \in {"min", "max", "mean"} /\ gpc' \in {"max", "mean", "scan"}
      /\ st'.at = st.at /\ st'.sample_count = st.sample_count
      /\ bucket' = 0 /\ cumul' = 0
      /\ UNCHANGED <<buckets, counted, done>>
    BY DEF LoadStat, Types, StatsType, shared
<1>2. st.at \in [Percentiles -> Nat] /\ \A p \in Percentiles : st.at[p] = 0
    BY <1>1 DEF ScanInv, AtType
<1>3. CountedInv' /\ AtType' /\ AllPlaced'
    BY <1>1, <1>2 DEF ScanInv, CountedInv, AtType, AllPlaced, Returned
<1>4. SumBetween'
  <2>1. 0 - 1 = -1 /\ 0 .. -1 = {}
      OBVIOUS
  <2>2. Total(buckets', {}) = 0 /\ UpTo(counted', -1) = 0
      BY TotalEmpty, UpToNone
  <2>. QED
      BY <1>1, <2>1, <2>2 DEF SumBetween
<1>5. OpenOrPlaced'
    BY <1>1, <1>2 DEF OpenOrPlaced
<1>6. InOrder'
    BY <1>1, <1>2 DEF InOrder, Before, Percentiles
<1>. QED
    BY <1>3, <1>4, <1>5, <1>6 DEF ScanInv

\* A bucket that the scan reads holds the samples counted in it and more,
\* because record fills the bucket before it counts (latency_tracker.h:31, 44).
LEMMA BucketHoldsCounted ==
  ASSUME Types, BooksInv, ScanInv, NEW b \in Buckets
  PROVE  /\ Total(counted, InBucket(b)) \in Nat /\ buckets[b] \in Nat
         /\ Total(counted, InBucket(b)) <= buckets[b]
<1>1. /\ counted \in [Latencies -> Nat] /\ done \in [Latencies -> Nat]
      /\ buckets \in [Buckets -> Nat]
      /\ \A v \in Latencies : counted[v] <= done[v]
    BY DEF Types, TypeOK, ScanInv, CountedInv
<1>2. Total(counted, InBucket(b)) \in Nat /\ Total(done, InBucket(b)) \in Nat
    BY <1>1, TotalOfBucket
<1>3. Total(counted, InBucket(b)) <= Total(done, InBucket(b))
  <2>1. \A v \in InBucket(b) : counted[v] \in Nat /\ done[v] \in Nat /\ counted[v] <= done[v]
      BY <1>1 DEF InBucket
  <2>2. IsFiniteSet(InBucket(b))
      BY FiniteDomains
  <2>. QED
      BY <2>1, <2>2, TotalMonotone
<1>4. buckets[b] = Total(done, InBucket(b)) + Cardinality(PendingIn(b))
    BY DEF BooksInv, BucketsExact
<1>5. Cardinality(PendingIn(b)) \in Nat
    BY FiniteThreads, FS_CardinalityType
<1>. QED
    BY <1>1, <1>2, <1>3, <1>4, <1>5

\* An iteration of the scan (latency_tracker.h:60-70).
LEMMA ScanIteration ==
  ASSUME Types, Types', BooksInv, ScanInv, ScanBucket
  PROVE  ScanInv'
<1> DEFINE n == st.sample_count
           T(p) == Target(p, n)
<1>0. /\ buckets \in [Buckets -> Nat] /\ counted \in [Latencies -> Nat]
      /\ cumul \in Nat /\ bucket \in Buckets /\ n \in Nat
      /\ st.at \in [Percentiles -> Nat]
    BY DEF Types, TypeOK, ScanInv, AtType
<1>1. /\ gpc = "scan"
      /\ cumul' = cumul + buckets[bucket]
      /\ st'.sample_count = n
      /\ st'.at = [p \in Percentiles |-> IF st.at[p] = 0 /\ cumul' >= T(p)
                                         THEN bucket_upper_ns(bucket) ELSE st.at[p]]
      /\ UNCHANGED <<buckets, counted, done>>
    BY DEF ScanBucket, Types, StatsType, shared
<1>2. \/ gpc' = "scan" /\ bucket' = bucket + 1 /\ st'.at["p999"] = 0 /\ bucket # NUM_BUCKETS - 1
      \/ gpc' = "idle" /\ (st'.at["p999"] # 0 \/ bucket = NUM_BUCKETS - 1)
    BY DEF ScanBucket
<1>3. /\ \A p \in Percentiles : T(p) \in Nat /\ T(p) <= n
      /\ \A o \in Before : T(o[1]) <= T(o[2])
    BY <1>0, Targets
<1>4. \A o \in Before : o[1] \in Percentiles /\ o[2] \in Percentiles
    BY DEF Before, Percentiles
<1> HIDE DEF T
<1>5. /\ cumul' \in Nat
      /\ cumul' <= Total(buckets, 0 .. bucket)
      /\ UpTo(counted, bucket) <= cumul'
      /\ UpTo(counted, bucket - 1) <= cumul
      /\ Total(buckets, 0 .. bucket) \in Nat
      /\ UpTo(counted, bucket) \in Nat
      /\ UpTo(counted, bucket - 1) \in Nat
  <2>1. cumul <= Total(buckets, 0 .. bucket - 1) /\ UpTo(counted, bucket - 1) <= cumul
      BY <1>1 DEF ScanInv, SumBetween
  <2>2. /\ Total(buckets, 0 .. bucket - 1) \in Nat
        /\ Total(buckets, 0 .. bucket) = Total(buckets, 0 .. bucket - 1) + buckets[bucket]
      BY <1>0, FirstBuckets
  <2>3. /\ UpTo(counted, bucket - 1) \in Nat
        /\ UpTo(counted, bucket) = UpTo(counted, bucket - 1) + Total(counted, InBucket(bucket))
      BY <1>0, UpToNext
  <2>4. /\ Total(counted, InBucket(bucket)) \in Nat /\ buckets[bucket] \in Nat
        /\ Total(counted, InBucket(bucket)) <= buckets[bucket]
      BY <1>0, BucketHoldsCounted
  <2>. QED
      BY <1>0, <1>1, <2>1, <2>2, <2>3, <2>4
<1>6. ASSUME NEW b \in Buckets PROVE bucket_upper_ns(b) \in Nat \ {0}
  <2>1. b <= b
      BY RangeOfLatencies
  <2>. QED
      BY <2>1, UpperBounds
<1>7. st'.at \in [Percentiles -> Nat]
    BY <1>0, <1>1, <1>6
<1>8. ASSUME NEW p \in Percentiles, st'.at[p] = 0 PROVE cumul' < T(p)
  <2>1. ~(st.at[p] = 0 /\ cumul' >= T(p)) /\ st'.at[p] = st.at[p]
      BY <1>0, <1>1, <1>6, <1>8
  <2>. QED
      BY <1>3, <1>5, <1>8, <2>1
<1>9. ASSUME NEW p \in Percentiles, st'.at[p] # 0
      PROVE  \E b \in 0 .. bucket : Placed(p, b)'
  <2>1. CASE st.at[p] = 0
    <3>1. cumul' >= T(p) /\ st'.at[p] = bucket_upper_ns(bucket)
        BY <1>1, <1>9, <2>1
    <3>2. Total(buckets, 0 .. bucket) >= T(p)
        BY <1>3, <1>5, <3>1
    <3>3. ASSUME bucket > 0 PROVE UpTo(counted, bucket - 1) < T(p)
      <4>1. cumul < T(p)
          BY <1>1, <2>1, <3>3 DEF ScanInv, OpenOrPlaced, T
      <4>. QED
          BY <1>0, <1>3, <1>5, <4>1
    <3>4. PICK b \in 0 .. bucket : b = bucket
        BY <1>0, RangeOfLatencies
    <3>5. Placed(p, b)'
        BY <1>1, <3>1, <3>2, <3>3, <3>4 DEF Placed, T
    <3>. QED
        BY <3>5
  <2>2. CASE st.at[p] # 0
    <3>1. PICK b \in 0 .. bucket - 1 : Placed(p, b)
        BY <1>1, <2>2 DEF ScanInv, OpenOrPlaced
    <3>2. Placed(p, b)'
      <4>1. st'.at[p] = st.at[p]
          BY <1>1, <2>2
      <4>. QED
          BY <1>1, <3>1, <4>1 DEF Placed
    <3>3. b \in 0 .. bucket
        BY <1>0, <3>1 DEF Buckets
    <3>. QED
        BY <3>2, <3>3
  <2>. QED
      BY <2>1, <2>2
<1>10. ASSUME NEW o \in Before, st'.at[o[2]] # 0
       PROVE  st'.at[o[1]] # 0 /\ st'.at[o[1]] <= st'.at[o[2]]
  <2> DEFINE p == o[1]
             q == o[2]
  <2>1. p \in Percentiles /\ q \in Percentiles /\ T(p) <= T(q)
      BY <1>3, <1>4
  <2>2. st.at[q] # 0 => st.at[p] # 0 /\ st.at[p] <= st.at[q]
      BY DEF ScanInv, InOrder
  <2>3. st'.at[q] # 0
      BY <1>10
  <2> HIDE DEF p, q
  <2>4. CASE st.at[q] # 0
    <3>1. st'.at[q] = st.at[q] /\ st'.at[p] = st.at[p]
        BY <1>1, <2>1, <2>2, <2>4
    <3>. QED
        BY <2>2, <2>4, <3>1 DEF p, q
  <2>5. CASE st.at[q] = 0
    <3>1. cumul' >= T(q) /\ st'.at[q] = bucket_upper_ns(bucket)
        BY <1>1, <2>1, <2>3, <2>5
    <3>2. cumul' >= T(p)
        BY <1>3, <1>5, <2>1, <3>1
    <3>3. bucket_upper_ns(bucket) \in Nat \ {0}
        BY <1>0, <1>6
    <3>4. st'.at[p] # 0 /\ st'.at[p] <= bucket_upper_ns(bucket)
      <4>1. CASE st.at[p] = 0
        <5>1. st'.at[p] = bucket_upper_ns(bucket)
            BY <1>1, <2>1, <3>2, <4>1
        <5>. QED
            BY <3>3, <5>1
      <4>2. CASE st.at[p] # 0
        <5>1. st'.at[p] = st.at[p]
            BY <1>1, <2>1, <4>2
        <5>2. PICK b \in 0 .. bucket - 1 : Placed(p, b)
            BY <1>1, <2>1, <4>2 DEF ScanInv, OpenOrPlaced
        <5>3. b \in Buckets /\ b <= bucket
            BY <1>0, <5>2, TrackerAssumption DEF Buckets
        <5>4. st.at[p] = bucket_upper_ns(b)
            BY <5>2 DEF Placed
        <5>5. bucket_upper_ns(b) \in Nat \ {0} /\ bucket_upper_ns(b) <= bucket_upper_ns(bucket)
            BY <1>0, <5>3, UpperBounds
        <5>. QED
            BY <5>1, <5>4, <5>5
      <4>. QED
          BY <4>1, <4>2
    <3>. QED
        BY <3>1, <3>4 DEF p, q
  <2>. QED
      BY <2>4, <2>5
<1>11. CountedInv'
    BY <1>1, <1>2 DEF ScanInv, CountedInv
<1>12. AtType' /\ InOrder'
    BY <1>2, <1>7, <1>10 DEF AtType, InOrder
<1>13. CASE gpc' = "scan"
  <2>1. bucket' = bucket + 1 /\ st'.at["p999"] = 0
      BY <1>2, <1>13
  <2>2. bucket' - 1 = bucket /\ bucket' > 0
      BY <1>0, <2>1, RangeOfLatencies
  <2>3. SumBetween'
      BY <1>1, <1>5, <2>2 DEF SumBetween
  <2>4. OpenOrPlaced'
      BY <1>1, <1>8, <1>9, <2>2 DEF OpenOrPlaced, T
  <2>5. AllPlaced'
      BY <1>13 DEF AllPlaced, Returned
  <2>6. InOrder'
      BY <1>10, <2>1 DEF InOrder
  <2>. QED
      BY <1>11, <1>12, <2>3, <2>4, <2>5, <2>6 DEF ScanInv
<1>14. CASE gpc' = "idle"
  <2>1. \A p \in Percentiles : st'.at[p] # 0
    <3>1. CASE st'.at["p999"] # 0
      <4>1. /\ <<"p50", "p95">> \in Before /\ <<"p95", "p99">> \in Before
            /\ <<"p99", "p999">> \in Before
          BY DEF Before
      <4>2. st'.at["p99"] # 0
          BY <1>10, <3>1, <4>1
      <4>3. st'.at["p95"] # 0
          BY <1>10, <4>1, <4>2
      <4>4. st'.at["p50"] # 0
          BY <1>10, <4>1, <4>3
      <4>. QED
          BY <3>1, <4>2, <4>3, <4>4 DEF Percentiles
    <3>2. CASE bucket = NUM_BUCKETS - 1
      <4>1. UpTo(counted, bucket) = n
        <5>1. UpTo(counted, NUM_BUCKETS - 1) = Total(counted, Latencies)
            BY UpToAll
        <5>2. n = Total(counted, Latencies)
            BY <1>1 DEF ScanInv, CountedInv
        <5>. QED
            BY <3>2, <5>1, <5>2
      <4>2. ASSUME NEW p \in Percentiles, st'.at[p] = 0 PROVE FALSE
        <5>1. cumul' < T(p)
            BY <1>8, <4>2
        <5>. QED
            BY <1>0, <1>3, <1>5, <4>1, <5>1
      <4>. QED
          BY <4>2
    <3>. QED
        BY <1>2, <1>14, <3>1, <3>2
  <2>2. \A b \in 0 .. bucket : b \in Buckets
      BY <1>0, TrackerAssumption DEF Buckets
  <2>3. AllPlaced'
      BY <1>9, <2>1, <2>2 DEF AllPlaced
  <2>4. SumBetween' /\ OpenOrPlaced'
      BY <1>14 DEF SumBetween, OpenOrPlaced
  <2>. QED
      BY <1>11, <1>12, <2>3, <2>4 DEF ScanInv
<1>. QED
    BY <1>2, <1>13, <1>14

LEMMA ScanStep == Types /\ BooksInv /\ ScanInv /\ [Next]_vars => ScanInv'
<1> SUFFICES ASSUME Types, BooksInv, ScanInv, [Next]_vars PROVE ScanInv'
    OBVIOUS
<1>1. Types'
    BY TypesStep
<1>2. ASSUME UNCHANGED statsVars,
             \/ UNCHANGED vars
             \/ \E r \in Recorders : Record(r) \/ \E v \in Latencies : record(r, v)
      PROVE  ScanInv'
  <2>0. buckets \in [Buckets -> Nat] /\ done \in [Latencies -> Nat]
      BY DEF Types, TypeOK
  <2>1. buckets' = buckets \/ \E b : buckets' = [buckets EXCEPT ![b] = @ + 1]
      BY <1>2 DEF Record, record, LoadExtreme, Swap, SwapFails, AddSum, AddCount, shared, vars
  <2>2. done' = done \/ \E x : done' = [done EXCEPT ![x] = @ + 1]
      BY <1>2 DEF Record, record, LoadExtreme, Swap, SwapFails, AddSum, AddCount, shared, vars
  <2>3. \A c \in Buckets : buckets[c] <= buckets'[c]
      BY <2>0, <2>1
  <2>4. \A v \in Latencies : done[v] <= done'[v]
      BY <2>0, <2>2
  <2>. QED
      BY <1>1, <1>2, <2>3, <2>4, ScanGrow
<1>3. CASE UNCHANGED vars
    BY <1>2, <1>3 DEF vars
<1>4. ASSUME NEW r \in Recorders, Record(r) \/ \E v \in Latencies : record(r, v) PROVE ScanInv'
  <2>1. UNCHANGED statsVars
      BY <1>4 DEF Record, record, LoadExtreme, Swap, SwapFails, AddSum, AddCount
  <2>. QED
      BY <1>2, <1>4, <2>1
<1>. QED
    BY <1>1, <1>3, <1>4, ScanStart, ScanLoad, ScanIteration DEF Next, GetStats

\* Each percentile that get_stats returns is found, within a factor of two of the
\* exact percentile or of the sample one rank before it, for any number of
\* threads that record meanwhile (latency_tracker.h:31, 44, 55-69, 105-107).
THEOREM PercentilesArePlaced == Spec => []PercentilesPlaced
<1>1. ScanInv /\ Types /\ BooksInv => PercentilesPlaced
    BY PlacedIsProperty DEF ScanInv
<1>. QED
    BY <1>1, InitTypes, TypesStep, InitBooks, BooksStep, InitScan, ScanStep, PTL DEF Spec

\* The percentiles come in their order, also while samples arrive between two
\* iterations of the scan (latency_tracker.h:60-70).
THEOREM PercentilesAreMonotone == Spec => []PercentilesMonotone
<1>1. ASSUME ScanInv PROVE PercentilesMonotone
  <2>1. SUFFICES ASSUME Returned PROVE \A o \in Before : st.at[o[1]] <= st.at[o[2]]
      BY DEF PercentilesMonotone, Before
  <2>2. SUFFICES ASSUME NEW p \in Percentiles PROVE st.at[p] # 0
    <3>1. \A o \in Before : o[2] \in Percentiles
        BY DEF Before, Percentiles
    <3>. QED
        BY <1>1, <2>2, <3>1 DEF ScanInv, InOrder
  <2>3. PICK b \in Buckets : Placed(p, b)
      BY <1>1, <2>1 DEF ScanInv, AllPlaced
  <2>4. bucket_upper_ns(b) \in Nat \ {0}
    <3>1. b <= b
        BY RangeOfLatencies
    <3>. QED
        BY <3>1, UpperBounds
  <2>. QED
      BY <2>3, <2>4 DEF Placed
<1>. QED
    BY <1>1, InitTypes, TypesStep, InitBooks, BooksStep, InitScan, ScanStep, PTL DEF Spec

=============================================================================
