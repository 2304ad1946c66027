------------------------- MODULE SymbolCacheProofs -------------------------
(***************************************************************************)
(* Proofs about the seqlock, for any number of symbols, readers and        *)
(* updates, any set of members and any even range of version.              *)
(***************************************************************************)
EXTENDS SymbolCache, TLAPS

InUpdate(s) == wpc = "store" /\ wsym = s

\* version is odd exactly inside an update, and outside one the members are
\* the state that the last completed update left.
WriterInv ==
    \A s \in Symbols :
        /\ Odd(version[s]) <=> InUpdate(s)
        /\ ~InUpdate(s) => mem[s] = hist[s][Len(hist[s])]

\* A call never began in the future.
StartOK(r) == rpc[r] # "idle" => start[r] <= Len(hist[rsym[r]])

StartInv == \A r \in Readers : StartOK(r)

\* The copy runs under an even v1; version has moved on from v1 by exactly
\* `during' steps; and while it has not moved, what is copied is current.
CopyOK(r) ==
    rpc[r] = "copy" =>
        /\ ~Odd(v1[r])
        /\ during[r] < VersionMod =>
             \/ version[rsym[r]] = v1[r] + during[r]
             \/ version[rsym[r]] = v1[r] + during[r] - VersionMod
        /\ during[r] = 0 =>
             \A f \in Fields \ rtodo[r] : snap[r][f] = mem[rsym[r]][f]

CopyInv == \A r \in Readers : CopyOK(r)

ExitOK(r) == Returning(r) /\ ~Odd(v1[r]) /\ during[r] < VersionMod => Linearizable(r)

SeqlockInv ==
    /\ TypeOK
    /\ WriterInv
    /\ StartInv
    /\ CopyInv
    /\ EvenExitLinearizable

-----------------------------------------------------------------------------

\* fetch_add on version stays in range and flips the parity, because the
\* range of a uint32_t is even (cache.h:110-117).
LEMMA NextVersion ==
    ASSUME NEW v \in 0 .. VersionMod - 1
    PROVE  LET w == IF v = VersionMod - 1 THEN 0 ELSE v + 1
           IN  w \in 0 .. VersionMod - 1 /\ (Odd(w) <=> ~Odd(v))
BY VersionAssumption DEF Odd

\* The type invariant of the cache is inductive.
LEMMA TypeStep == TypeOK /\ [Next]_vars => TypeOK'
<1> SUFFICES ASSUME TypeOK, [Next]_vars PROVE TypeOK'
    OBVIOUS
<1> USE DEF TypeOK
<1>1. ASSUME NEW s \in Symbols, NEW m, Update(s, m) PROVE TypeOK'
    BY <1>1, NextVersion
       DEF Update, begin_write, FetchAddVersion, readerVars, States
<1>2. ASSUME NEW f \in Fields, StoreMember(f) PROVE TypeOK'
  <2>1. mem' \in [Symbols -> States]
      BY <1>2 DEF StoreMember, States
  <2>2. QED
      BY <1>2, <2>1 DEF StoreMember, readerVars
<1>3. CASE FinishUpdate
  <2>1. hist' \in [Symbols -> Seq(States)] /\ \A s \in Symbols : Len(hist'[s]) >= 1
      BY <1>3 DEF FinishUpdate
  <2>2. QED
      BY <1>3, <2>1, NextVersion
         DEF FinishUpdate, end_write, FetchAddVersion, readerVars
<1>4. ASSUME NEW r \in Readers, NEW s \in Symbols, get_snapshot(r, s)
      PROVE  TypeOK'
  <2>1. Zero \in States
      BY DEF Zero, States
  <2>2. snap' \in [Readers -> States]
      BY <1>4, <2>1 DEF get_snapshot
  <2>3. QED
      BY <1>4, <2>2, VersionAssumption DEF get_snapshot, writerVars
<1>5. ASSUME NEW r \in Readers, LoadV1(r) PROVE TypeOK'
    BY <1>5 DEF LoadV1, writerVars
<1>6. ASSUME NEW r \in Readers, NEW f \in Fields, CopyMember(r, f) PROVE TypeOK'
  <2>1. snap' \in [Readers -> States]
    <3>1. mem[rsym[r]][f] \in Nat /\ snap[r] \in [Fields -> Nat]
        BY DEF States
    <3>2. [snap[r] EXCEPT ![f] = mem[rsym[r]][f]] \in States
        BY <3>1 DEF States
    <3>3. QED
        BY <1>6, <3>2 DEF CopyMember
  <2>2. QED
      BY <1>6, <2>1 DEF CopyMember, writerVars
<1>7. ASSUME NEW r \in Readers, LoadV2(r) PROVE TypeOK'
    BY <1>7 DEF LoadV2, writerVars
<1>8. ASSUME NEW r \in Readers, Retry(r) PROVE TypeOK'
    BY <1>8 DEF Retry, writerVars
<1>9. ASSUME NEW r \in Readers, Return(r) PROVE TypeOK'
    BY <1>9 DEF Return, writerVars
<1>10. CASE UNCHANGED vars
    BY <1>10 DEF vars, writerVars, readerVars
<1>11. QED
    BY <1>1, <1>2, <1>3, <1>4, <1>5, <1>6, <1>7, <1>8, <1>9, <1>10
       DEF Next, WriterNext, FinishWrite, ReaderNext, ReaderLoop,
           update_bid, update_ask, update_quote, update_trade

\* A default-constructed cache has the right types (cache.h:47).
LEMMA TypeInit == Init => TypeOK
BY VersionAssumption DEF Init, TypeOK, Zero, States

\* Every variable of the seqlock model keeps its type, for every size of the
\* cache and every width of version.
THEOREM TypeCorrect == Spec => []TypeOK
BY TypeInit, TypeStep, PTL DEF Spec

-----------------------------------------------------------------------------

\* A default-constructed cache satisfies the invariant.
LEMMA SeqlockInit == Init => SeqlockInv
<1> SUFFICES ASSUME Init PROVE SeqlockInv
    OBVIOUS
<1>1. TypeOK
    BY TypeInit
<1>2. WriterInv
  <2>1. ~Odd(0)
      BY DEF Odd
  <2>2. ASSUME NEW s \in Symbols PROVE hist[s][Len(hist[s])] = Zero
      BY DEF Init
  <2>3. QED
      BY <2>1, <2>2 DEF Init, WriterInv, InUpdate
<1>3. StartInv /\ CopyInv /\ EvenExitLinearizable
    BY DEF Init, StartInv, StartOK, CopyInv, CopyOK, EvenExitLinearizable, Returning
<1>4. QED
    BY <1>1, <1>2, <1>3 DEF SeqlockInv

\* Either fetch_add on version moves every copy of that symbol in progress one
\* change further from its v1, and touches no other.
LEMMA SeqlockBump ==
    ASSUME TypeOK, TypeOK', CopyInv, NEW s \in Symbols, FetchAddVersion(s),
           UNCHANGED <<mem, readerVars>>, NEW r \in Readers
    PROVE  CopyOK(r)'
<1> SUFFICES ASSUME rpc[r] = "copy" PROVE CopyOK(r)'
    BY DEF CopyOK, readerVars
<1>1. /\ version[s] \in 0 .. VersionMod - 1
      /\ v1[r] \in 0 .. VersionMod - 1
      /\ during[r] \in Nat
      /\ VersionMod \in Nat
    BY VersionAssumption DEF TypeOK
<1>2. CASE rsym[r] = s
  <2>1. during'[r] = during[r] + 1
      BY <1>2 DEF FetchAddVersion
  <2>2. version'[s] = IF version[s] = VersionMod - 1 THEN 0 ELSE version[s] + 1
      BY DEF FetchAddVersion, TypeOK
  <2>3. ASSUME during[r] + 1 < VersionMod
        PROVE  \/ version'[s] = v1[r] + (during[r] + 1)
               \/ version'[s] = v1[r] + (during[r] + 1) - VersionMod
    <3>1. during[r] < VersionMod
        BY <1>1, <2>3
    <3>2. \/ version[s] = v1[r] + during[r]
          \/ version[s] = v1[r] + during[r] - VersionMod
        BY <1>2, <3>1 DEF CopyInv, CopyOK
    <3>3. QED
        BY <1>1, <2>2, <2>3, <3>2
  <2>4. during'[r] # 0
      BY <1>1, <2>1
  <2>5. QED
      BY <1>2, <2>1, <2>3, <2>4 DEF CopyInv, CopyOK, readerVars
<1>3. CASE rsym[r] # s
  <2>1. during'[r] = during[r] /\ version'[rsym[r]] = version[rsym[r]]
      BY <1>3 DEF FetchAddVersion, TypeOK
  <2>2. QED
      BY <2>1 DEF CopyInv, CopyOK, readerVars
<1>4. QED
    BY <1>2, <1>3

\* Opening an update: version becomes odd, and every copy of that symbol in
\* progress is one change further from its v1.
LEMMA SeqlockUpdate ==
    ASSUME SeqlockInv, TypeOK', NEW s \in Symbols, NEW m, Update(s, m)
    PROVE  SeqlockInv'
<1> USE DEF SeqlockInv, TypeOK
<1>1. WriterInv'
    BY NextVersion DEF Update, begin_write, FetchAddVersion, WriterInv, InUpdate
<1>2. StartInv'
    BY DEF Update, StartInv, StartOK, readerVars
<1>3. CopyInv'
    BY SeqlockBump DEF Update, begin_write, CopyInv, readerVars
<1>4. EvenExitLinearizable'
    BY DEF Update, begin_write, FetchAddVersion, EvenExitLinearizable,
           Returning, Linearizable, readerVars
<1>5. QED
    BY <1>1, <1>2, <1>3, <1>4

\* A copy during which version did not change still sees v1.
LEMMA NoChange ==
    ASSUME TypeOK, CopyInv, NEW r \in Readers, rpc[r] = "copy",
           during[r] < VersionMod
    PROVE  /\ ~Odd(v1[r])
           /\ during[r] = 0 <=> version[rsym[r]] = v1[r]
<1>1. \/ version[rsym[r]] = v1[r] + during[r]
      \/ version[rsym[r]] = v1[r] + during[r] - VersionMod
    BY DEF CopyInv, CopyOK
<1>2. /\ version[rsym[r]] \in 0 .. VersionMod - 1
      /\ v1[r] \in 0 .. VersionMod - 1
      /\ during[r] \in Nat
    BY DEF TypeOK
<1>3. during[r] = 0 <=> version[rsym[r]] = v1[r]
    BY <1>1, <1>2, VersionAssumption
<1>4. QED
    BY <1>3 DEF CopyInv, CopyOK

\* A store happens only under an odd version, so no copy that could still
\* be accepted (v1 even and version unchanged) is looking.
LEMMA SeqlockStore ==
    ASSUME SeqlockInv, TypeOK', NEW f \in Fields, StoreMember(f)
    PROVE  SeqlockInv'
<1> USE DEF SeqlockInv, TypeOK
<1>1. WriterInv'
    BY DEF StoreMember, WriterInv, InUpdate
<1>2. StartInv'
    BY DEF StoreMember, StartInv, StartOK, readerVars
<1>3. CopyInv'
  <2>0. UNCHANGED <<version, rpc, rsym, v1, snap, rtodo, during>>
      BY DEF StoreMember, readerVars
  <2>1. SUFFICES ASSUME NEW r \in Readers, rpc[r] = "copy", during[r] = 0
                 PROVE  rsym[r] # wsym
    <3>1. ASSUME NEW r \in Readers, rpc[r] = "copy" => during[r] # 0 \/ rsym[r] # wsym
          PROVE  CopyOK(r)'
      <4>1. CopyOK(r)
          BY DEF CopyInv
      <4>2. rsym[r] \in Symbols
          OBVIOUS
      <4>3. rsym[r] # wsym => mem'[rsym[r]] = mem[rsym[r]]
          BY <4>2 DEF StoreMember
      <4>4. QED
          BY <2>0, <3>1, <4>1, <4>3 DEF CopyOK
    <3>2. QED
        BY <3>1 DEF CopyInv
  <2>2. version[rsym[r]] = v1[r] /\ ~Odd(v1[r])
    <3> HIDE DEF TypeOK
    <3>1. during[r] < VersionMod
        BY <2>1, VersionAssumption
    <3>2. QED
        BY <2>1, <3>1, NoChange
  <2>3. QED
      BY <2>1, <2>2 DEF WriterInv, InUpdate, StoreMember
<1>4. EvenExitLinearizable'
    BY DEF StoreMember, EvenExitLinearizable, Returning, Linearizable, readerVars
<1>5. QED
    BY <1>1, <1>2, <1>3, <1>4

\* Closing an update appends to the history, which keeps earlier states.
LEMMA SeqlockFinish ==
    ASSUME SeqlockInv, TypeOK', FinishUpdate
    PROVE  SeqlockInv'
<1> USE DEF SeqlockInv, TypeOK
<1>1. \A s \in Symbols : /\ Len(hist'[s]) >= Len(hist[s])
                         /\ \A k \in 1 .. Len(hist[s]) : hist'[s][k] = hist[s][k]
    BY DEF FinishUpdate
<1>2. WriterInv'
  <2>1. hist'[wsym][Len(hist'[wsym])] = mem'[wsym]
      BY DEF FinishUpdate
  <2>2. QED
      BY <2>1, NextVersion
         DEF FinishUpdate, end_write, FetchAddVersion, WriterInv, InUpdate
<1>3. StartInv'
    BY <1>1 DEF FinishUpdate, StartInv, StartOK, readerVars
<1>4. CopyInv'
    BY SeqlockBump DEF FinishUpdate, end_write, CopyInv, readerVars
<1>5. EvenExitLinearizable'
  <2> SUFFICES ASSUME NEW r \in Readers, Returning(r), ~Odd(v1[r]),
                      during[r] < VersionMod
               PROVE  Linearizable(r)'
      BY DEF EvenExitLinearizable, Returning, FinishUpdate, readerVars,
             end_write, FetchAddVersion
  <2>1. PICK k \in start[r] .. Len(hist[rsym[r]]) : snap[r] = hist[rsym[r]][k]
      BY DEF EvenExitLinearizable, Linearizable
  <2>2. k \in start[r] .. Len(hist'[rsym[r]]) /\ snap[r] = hist'[rsym[r]][k]
    <3>1. start[r] \in Nat \ {0} /\ rsym[r] \in Symbols
        OBVIOUS
    <3>2. /\ hist[rsym[r]] \in Seq(States)
          /\ hist'[rsym[r]] \in Seq(States)
        OBVIOUS
    <3> HIDE DEF TypeOK
    <3>3. /\ Len(hist[rsym[r]]) \in Nat
          /\ Len(hist'[rsym[r]]) \in Nat
          /\ Len(hist'[rsym[r]]) >= Len(hist[rsym[r]])
        BY <1>1, <3>1, <3>2
    <3>4. k \in 1 .. Len(hist[rsym[r]])
        BY <2>1, <3>1, <3>3
    <3>5. QED
        BY <1>1, <2>1, <3>1, <3>3, <3>4
  <2>3. QED
      BY <2>2 DEF Linearizable, FinishUpdate, readerVars
<1>6. QED
    BY <1>2, <1>3, <1>4, <1>5

\* Entering get_snapshot (cache.h:92-95).
LEMMA SeqlockCall ==
    ASSUME SeqlockInv, TypeOK', NEW r \in Readers, NEW s \in Symbols,
           get_snapshot(r, s)
    PROVE  SeqlockInv'
<1> USE DEF SeqlockInv, TypeOK, get_snapshot, writerVars
<1>1. WriterInv'
    BY DEF WriterInv, InUpdate
<1>2. StartInv'
  <2> SUFFICES ASSUME NEW q \in Readers PROVE StartOK(q)'
      BY DEF StartInv
  <2>1. CASE q = r
      BY <2>1 DEF StartInv, StartOK
  <2>2. CASE q # r
      BY <2>2 DEF StartInv, StartOK
  <2>3. QED
      BY <2>1, <2>2
<1>3. CopyInv'
  <2> SUFFICES ASSUME NEW q \in Readers PROVE CopyOK(q)'
      BY DEF CopyInv
  <2>1. CASE q = r
      BY <2>1 DEF CopyInv, CopyOK
  <2>2. CASE q # r
      BY <2>2 DEF CopyInv, CopyOK
  <2>3. QED
      BY <2>1, <2>2
<1>4. EvenExitLinearizable'
  <2> SUFFICES ASSUME NEW q \in Readers PROVE ExitOK(q)'
      BY DEF ExitOK, EvenExitLinearizable
  <2>1. CASE q = r
      BY <2>1 DEF EvenExitLinearizable, ExitOK, Returning, Linearizable
  <2>2. CASE q # r
      BY <2>2 DEF EvenExitLinearizable, ExitOK, Returning, Linearizable
  <2>3. QED
      BY <2>1, <2>2
<1>5. QED
    BY <1>1, <1>2, <1>3, <1>4

\* The first load of version opens a copy only on an even value (cache.h:97-98).
LEMMA SeqlockLoadV1 ==
    ASSUME SeqlockInv, TypeOK', NEW r \in Readers, LoadV1(r)
    PROVE  SeqlockInv'
<1> USE DEF SeqlockInv, TypeOK, LoadV1, writerVars
<1>1. WriterInv'
    BY DEF WriterInv, InUpdate
<1>2. StartInv'
  <2> SUFFICES ASSUME NEW q \in Readers PROVE StartOK(q)'
      BY DEF StartInv
  <2>1. CASE q = r
      BY <2>1 DEF StartInv, StartOK
  <2>2. CASE q # r
      BY <2>2 DEF StartInv, StartOK
  <2>3. QED
      BY <2>1, <2>2
<1>3. CopyInv'
  <2> SUFFICES ASSUME NEW q \in Readers PROVE CopyOK(q)'
      BY DEF CopyInv
  <2>1. CASE q = r
      BY <2>1 DEF CopyInv, CopyOK
  <2>2. CASE q # r
      BY <2>2 DEF CopyInv, CopyOK
  <2>3. QED
      BY <2>1, <2>2
<1>4. EvenExitLinearizable'
  <2> SUFFICES ASSUME NEW q \in Readers PROVE ExitOK(q)'
      BY DEF ExitOK, EvenExitLinearizable
  <2>1. CASE q = r
      BY <2>1 DEF EvenExitLinearizable, ExitOK, Returning, Linearizable
  <2>2. CASE q # r
      BY <2>2 DEF EvenExitLinearizable, ExitOK, Returning, Linearizable
  <2>3. QED
      BY <2>1, <2>2
<1>5. QED
    BY <1>1, <1>2, <1>3, <1>4

\* A copied member is current as long as version has not moved (cache.h:99).
LEMMA SeqlockCopy ==
    ASSUME SeqlockInv, TypeOK', NEW r \in Readers, NEW f \in Fields,
           CopyMember(r, f)
    PROVE  SeqlockInv'
<1> USE DEF SeqlockInv, TypeOK, CopyMember, writerVars
<1>1. WriterInv'
    BY DEF WriterInv, InUpdate
<1>2. StartInv'
  <2> SUFFICES ASSUME NEW q \in Readers PROVE StartOK(q)'
      BY DEF StartInv
  <2>1. CASE q = r
      BY <2>1 DEF StartInv, StartOK
  <2>2. CASE q # r
      BY <2>2 DEF StartInv, StartOK
  <2>3. QED
      BY <2>1, <2>2
<1>3. CopyInv'
  <2> SUFFICES ASSUME NEW q \in Readers PROVE CopyOK(q)'
      BY DEF CopyInv
  <2>1. CASE q = r
    <3>1. snap'[r] = [snap[r] EXCEPT ![f] = mem[rsym[r]][f]]
        OBVIOUS
    <3>2. rtodo'[r] = rtodo[r] \ {f}
        OBVIOUS
    <3>3. snap[r] \in [Fields -> Nat]
        BY DEF States
    <3>4. ASSUME during[r] = 0, NEW g \in Fields \ rtodo'[r]
          PROVE  snap'[r][g] = mem[rsym[r]][g]
        BY <3>1, <3>2, <3>3, <3>4 DEF CopyInv, CopyOK
    <3>5. QED
        BY <2>1, <3>4 DEF CopyInv, CopyOK
  <2>2. CASE q # r
      BY <2>2 DEF CopyInv, CopyOK
  <2>3. QED
      BY <2>1, <2>2
<1>4. EvenExitLinearizable'
  <2> SUFFICES ASSUME NEW q \in Readers PROVE ExitOK(q)'
      BY DEF ExitOK, EvenExitLinearizable
  <2>1. CASE q = r
      BY <2>1 DEF EvenExitLinearizable, ExitOK, Returning, Linearizable
  <2>2. CASE q # r
      BY <2>2 DEF EvenExitLinearizable, ExitOK, Returning, Linearizable
  <2>3. QED
      BY <2>1, <2>2
<1>5. QED
    BY <1>1, <1>2, <1>3, <1>4

\* The heart of the seqlock: if the second load equals the first and version
\* cannot have gone all the way round, it has not moved at all, so the copy
\* is the state that the last update left.
LEMMA SeqlockLoadV2 ==
    ASSUME SeqlockInv, TypeOK', NEW r \in Readers, LoadV2(r)
    PROVE  SeqlockInv'
<1> USE DEF SeqlockInv, TypeOK, LoadV2, writerVars
<1>1. WriterInv'
    BY DEF WriterInv, InUpdate
<1>2. StartInv'
  <2> SUFFICES ASSUME NEW q \in Readers PROVE StartOK(q)'
      BY DEF StartInv
  <2>1. CASE q = r
      BY <2>1 DEF StartInv, StartOK
  <2>2. CASE q # r
      BY <2>2 DEF StartInv, StartOK
  <2>3. QED
      BY <2>1, <2>2
<1>3. CopyInv'
  <2> SUFFICES ASSUME NEW q \in Readers PROVE CopyOK(q)'
      BY DEF CopyInv
  <2>1. CASE q = r
      BY <2>1 DEF CopyInv, CopyOK
  <2>2. CASE q # r
      BY <2>2 DEF CopyInv, CopyOK
  <2>3. QED
      BY <2>1, <2>2
<1> HIDE DEF TypeOK
<1>6. ASSUME version[rsym[r]] = v1[r], during[r] < VersionMod
      PROVE  Linearizable(r)
  <2>1. during[r] = 0 /\ ~Odd(v1[r])
      BY <1>6, NoChange
  <2>2. \A f \in Fields : snap[r][f] = mem[rsym[r]][f]
      BY <2>1 DEF CopyInv, CopyOK
  <2>3. snap[r] = mem[rsym[r]]
      BY <2>2 DEF States, TypeOK
  <2>4. mem[rsym[r]] = hist[rsym[r]][Len(hist[rsym[r]])]
      BY <1>6, <2>1 DEF WriterInv, TypeOK
  <2>5. Len(hist[rsym[r]]) \in start[r] .. Len(hist[rsym[r]])
    <3>1. start[r] <= Len(hist[rsym[r]])
        BY DEF StartInv, StartOK
    <3>2. start[r] \in Nat /\ Len(hist[rsym[r]]) \in Nat
        BY DEF TypeOK
    <3>3. QED
        BY <3>1, <3>2
  <2>6. QED
      BY <2>3, <2>4, <2>5 DEF Linearizable
<1> USE DEF TypeOK
<1>4. EvenExitLinearizable'
  <2> SUFFICES ASSUME NEW q \in Readers PROVE ExitOK(q)'
      BY DEF ExitOK, EvenExitLinearizable
  <2>1. CASE q = r
      BY <2>1, <1>6 DEF EvenExitLinearizable, ExitOK, Returning, Linearizable
  <2>2. CASE q # r
      BY <2>2 DEF EvenExitLinearizable, ExitOK, Returning, Linearizable
  <2>3. QED
      BY <2>1, <2>2
<1>5. QED
    BY <1>1, <1>2, <1>3, <1>4

\* Leaving the loop, or going round it again (cache.h:101-102).
LEMMA SeqlockExit ==
    ASSUME SeqlockInv, TypeOK', NEW r \in Readers, Retry(r) \/ Return(r)
    PROVE  SeqlockInv'
<1>1. /\ UNCHANGED <<version, mem, writerVars, rsym, v1, v2, snap, rtodo, hist,
                     start, during>>
      /\ rpc[r] = "check"
      /\ \/ rpc' = [rpc EXCEPT ![r] = "load1"]
         \/ rpc' = [rpc EXCEPT ![r] = "idle"]
    BY DEF Retry, Return
<1>2. /\ rpc'[r] \in {"idle", "load1"}
      /\ \A q \in Readers : q # r => rpc'[q] = rpc[q]
    BY <1>1 DEF SeqlockInv, TypeOK
<1>3. WriterInv'
    BY <1>1 DEF SeqlockInv, WriterInv, InUpdate, writerVars
<1>4. StartInv'
    BY <1>1, <1>2 DEF SeqlockInv, StartInv, StartOK
<1>5. CopyInv'
    BY <1>1, <1>2 DEF SeqlockInv, CopyInv, CopyOK
<1>6. EvenExitLinearizable'
    BY <1>1, <1>2 DEF SeqlockInv, EvenExitLinearizable, Returning, Linearizable
<1>7. QED
    BY <1>3, <1>4, <1>5, <1>6 DEF SeqlockInv

\* Every step of the writer and of the readers preserves the invariant.
LEMMA SeqlockStep == SeqlockInv /\ [Next]_vars => SeqlockInv'
<1> SUFFICES ASSUME SeqlockInv, [Next]_vars PROVE SeqlockInv'
    OBVIOUS
<1>1. TypeOK'
    BY TypeStep DEF SeqlockInv
<1>2. CASE UNCHANGED vars
    BY <1>2 DEF vars, writerVars, readerVars, SeqlockInv, TypeOK, WriterInv,
                InUpdate, StartInv, StartOK, CopyInv, CopyOK,
                EvenExitLinearizable, Returning, Linearizable
<1>3. CASE WriterNext
    BY <1>1, <1>3, SeqlockUpdate, SeqlockStore, SeqlockFinish
       DEF WriterNext, FinishWrite, update_bid, update_ask, update_quote,
           update_trade
<1>4. ASSUME NEW r \in Readers, ReaderNext(r) PROVE SeqlockInv'
    BY <1>1, <1>4, SeqlockCall, SeqlockLoadV1, SeqlockCopy, SeqlockLoadV2,
       SeqlockExit
       DEF ReaderNext, ReaderLoop
<1>5. QED
    BY <1>2, <1>3, <1>4 DEF Next

\* A get_snapshot that leaves its loop on two equal even versions returns a
\* state the writer published during the call: for any number of symbols,
\* readers, members and updates.
THEOREM EvenExitCorrect == Spec => []EvenExitLinearizable
<1>1. SeqlockInv => EvenExitLinearizable
    BY DEF SeqlockInv
<1>2. QED
    BY <1>1, SeqlockInit, SeqlockStep, PTL DEF Spec

-----------------------------------------------------------------------------
(* The update counters.                                                    *)

\* Inside an update version is one ahead of twice the completed updates, and
\* update_count has moved as soon as its own store is done.
CountOK(s) ==
    /\ version[s] = IF InUpdate(s) THEN (2 * (Len(hist[s]) - 1) + 1) % VersionMod
                                   ELSE (2 * (Len(hist[s]) - 1)) % VersionMod
    /\ "update_count" \in Fields =>
         mem[s]["update_count"] =
             IF InUpdate(s) /\ "update_count" \notin wtodo
             THEN Len(hist[s]) ELSE Len(hist[s]) - 1

CountInv == TypeOK /\ \A s \in Symbols : CountOK(s)

\* A remainder is the only number below the divisor that leaves a multiple.
LEMMA Remainder ==
    ASSUME NEW m \in Nat \ {0}, NEW q \in Nat, NEW d \in 0 .. m - 1
    PROVE  (m * q + d) % m = d
OBVIOUS

\* fetch_add on a number kept modulo VersionMod is the number's successor,
\* kept modulo VersionMod.
LEMMA WrappedSuccessor ==
    ASSUME NEW n \in Nat
    PROVE  (n + 1) % VersionMod = IF n % VersionMod = VersionMod - 1
                                  THEN 0 ELSE (n % VersionMod) + 1
<1> DEFINE q == n \div VersionMod
           d == n % VersionMod
<1>1. VersionMod \in Nat \ {0}
    BY VersionAssumption
<1>2. n = VersionMod * q + d /\ q \in Nat /\ d \in 0 .. VersionMod - 1
    BY VersionAssumption
<1> HIDE DEF q, d
<1>3. CASE d = VersionMod - 1
  <2>1. n + 1 = VersionMod * (q + 1) + 0
      BY <1>1, <1>2, <1>3
  <2>2. q + 1 \in Nat /\ 0 \in 0 .. VersionMod - 1
      BY <1>1, <1>2
  <2>3. (VersionMod * (q + 1) + 0) % VersionMod = 0
      BY <1>1, <2>2, Remainder
  <2>4. QED
      BY <1>3, <2>1, <2>3 DEF d
<1>4. CASE d # VersionMod - 1
  <2>1. n + 1 = VersionMod * q + (d + 1)
      BY <1>1, <1>2
  <2>2. d + 1 \in 0 .. VersionMod - 1
      BY <1>1, <1>2, <1>4
  <2>3. (VersionMod * q + (d + 1)) % VersionMod = d + 1
      BY <1>1, <1>2, <2>2, Remainder
  <2>4. QED
      BY <1>4, <2>1, <2>3 DEF d
<1>5. QED
    BY <1>3, <1>4

\* A default-constructed cache has made no update.
LEMMA CountInit == Init => CountInv
<1> SUFFICES ASSUME Init, NEW s \in Symbols PROVE CountOK(s)
    BY TypeInit DEF CountInv
<1>1. Len(hist[s]) - 1 = 0
    BY DEF Init
<1>2. (2 * 0) % VersionMod = 0
    BY VersionAssumption
<1>3. QED
    BY <1>1, <1>2 DEF Init, CountOK, InUpdate, Zero

\* Opening an update of any of the four kinds: each of them stores
\* update_count (cache.h:54-89).
LEMMA CountUpdate ==
    ASSUME CountInv, NEW s \in Symbols, NEW m, Update(s, m), "update_count" \in m,
           NEW t \in Symbols
    PROVE  CountOK(t)'
<1>1. TypeOK /\ CountOK(s) /\ CountOK(t) /\ wpc = "idle"
    BY DEF CountInv, Update
<1>2. Len(hist[t]) \in Nat /\ Len(hist[t]) >= 1 /\ 2 * (Len(hist[t]) - 1) \in Nat
    BY <1>1 DEF TypeOK
<1>3. wpc' = "store" /\ wsym' = s /\ mem' = mem /\ hist' = hist
    BY DEF Update
<1>4. "update_count" \in Fields => "update_count" \in wtodo'
    BY DEF Update
<1>5. "update_count" \in Fields => mem[t]["update_count"] = Len(hist[t]) - 1
    BY <1>1 DEF CountOK, InUpdate
<1>6. CASE t = s
  <2>1. version'[s] = IF version[s] = VersionMod - 1 THEN 0 ELSE version[s] + 1
      BY <1>1 DEF Update, begin_write, FetchAddVersion, TypeOK
  <2>2. version[s] = (2 * (Len(hist[s]) - 1)) % VersionMod
      BY <1>1 DEF CountOK, InUpdate
  <2>3. version'[s] = (2 * (Len(hist[s]) - 1) + 1) % VersionMod
      BY <1>2, <1>6, <2>1, <2>2, WrappedSuccessor
  <2>4. QED
      BY <1>3, <1>4, <1>5, <1>6, <2>3 DEF CountOK, InUpdate
<1>7. CASE t # s
  <2>1. version'[t] = version[t]
      BY <1>1, <1>7 DEF Update, begin_write, FetchAddVersion, TypeOK
  <2>2. QED
      BY <1>1, <1>3, <1>5, <1>7, <2>1 DEF CountOK, InUpdate
<1>8. QED
    BY <1>6, <1>7

\* The plain stores: the one of update_count adds one, and comes once.
LEMMA CountStore ==
    ASSUME CountInv, NEW f \in Fields, StoreMember(f), NEW t \in Symbols
    PROVE  CountOK(t)'
<1>1. TypeOK /\ CountOK(t) /\ wsym \in Symbols
    BY DEF CountInv, TypeOK
<1>2. /\ UNCHANGED <<version, wpc, wsym, hist>>
      /\ wtodo' = wtodo \ {f}
      /\ f \in wtodo
      /\ wpc = "store"
    BY DEF StoreMember
<1>3. Len(hist[t]) \in Nat
    BY <1>1 DEF TypeOK
<1>4. mem[wsym] \in [Fields -> Nat] /\ mem[t] \in [Fields -> Nat]
    BY <1>1 DEF TypeOK, States
<1>5. /\ t # wsym => mem'[t] = mem[t]
      /\ mem'[wsym] = [mem[wsym] EXCEPT ![f] = IF f = "update_count"
                                               THEN mem[wsym][f] + 1
                                               ELSE Len(hist[wsym])]
    BY <1>1 DEF StoreMember, TypeOK
<1>6. CASE t = wsym /\ f = "update_count"
    BY <1>1, <1>2, <1>3, <1>4, <1>5, <1>6 DEF CountOK, InUpdate
<1>7. CASE t = wsym /\ f # "update_count"
  <2>1. "update_count" \in Fields => mem'[t]["update_count"] = mem[t]["update_count"]
      BY <1>4, <1>5, <1>7
  <2>2. QED
      BY <1>1, <1>2, <1>7, <2>1 DEF CountOK, InUpdate
<1>8. CASE t # wsym
    BY <1>1, <1>2, <1>5, <1>8 DEF CountOK, InUpdate
<1>9. QED
    BY <1>6, <1>7, <1>8

\* Closing an update, which happens with every store done.
LEMMA CountFinish ==
    ASSUME CountInv, FinishUpdate, NEW t \in Symbols
    PROVE  CountOK(t)'
<1>1. TypeOK /\ CountOK(t) /\ wsym \in Symbols /\ hist[t] \in Seq(States)
    BY DEF CountInv, TypeOK
<1>2. wpc = "store" /\ wtodo = {} /\ wpc' = "idle" /\ mem' = mem
    BY DEF FinishUpdate
<1>3. Len(hist[t]) \in Nat /\ Len(hist[t]) >= 1 /\ 2 * (Len(hist[t]) - 1) + 1 \in Nat
    BY <1>1 DEF TypeOK
<1>4. CASE t = wsym
  <2>1. Len(hist'[t]) = Len(hist[t]) + 1
    <3>1. hist'[t] = Append(hist[t], mem[wsym])
        BY <1>1, <1>4 DEF FinishUpdate, TypeOK
    <3>2. QED
        BY <1>1, <3>1
  <2>2. version'[t] = IF version[t] = VersionMod - 1 THEN 0 ELSE version[t] + 1
      BY <1>1, <1>4 DEF FinishUpdate, end_write, FetchAddVersion, TypeOK
  <2>3. version[t] = (2 * (Len(hist[t]) - 1) + 1) % VersionMod
      BY <1>1, <1>2, <1>4 DEF CountOK, InUpdate
  <2>4. version'[t] = (2 * (Len(hist[t]) - 1) + 1 + 1) % VersionMod
      BY <1>3, <2>2, <2>3, WrappedSuccessor
  <2>5. 2 * (Len(hist[t]) - 1) + 1 + 1 = 2 * (Len(hist'[t]) - 1)
      BY <1>3, <2>1
  <2>6. version'[t] = (2 * (Len(hist'[t]) - 1)) % VersionMod
      BY <2>4, <2>5
  <2>7. "update_count" \in Fields => mem'[t]["update_count"] = Len(hist'[t]) - 1
    <3>1. "update_count" \in Fields => mem[t]["update_count"] = Len(hist[t])
        BY <1>1, <1>2, <1>4 DEF CountOK, InUpdate
    <3>2. QED
        BY <1>2, <1>3, <2>1, <3>1
  <2>8. QED
      BY <1>2, <2>6, <2>7 DEF CountOK, InUpdate
<1>5. CASE t # wsym
  <2>1. version'[t] = version[t] /\ hist'[t] = hist[t]
      BY <1>1, <1>5 DEF FinishUpdate, end_write, FetchAddVersion, TypeOK
  <2>2. QED
      BY <1>1, <1>2, <1>5, <2>1 DEF CountOK, InUpdate, FinishUpdate
<1>6. QED
    BY <1>4, <1>5

\* The counters are inductive; the readers only look.
LEMMA CountStep == CountInv /\ [Next]_vars => CountInv'
<1> SUFFICES ASSUME CountInv, [Next]_vars, NEW t \in Symbols PROVE CountOK(t)'
    BY TypeStep DEF CountInv
<1>1. CASE WriterNext
    BY <1>1, CountUpdate, CountStore, CountFinish
       DEF WriterNext, FinishWrite, update_bid, update_ask, update_quote,
           update_trade
<1>2. CASE \/ UNCHANGED vars
           \/ \E r \in Readers : ReaderNext(r)
  <2>1. UNCHANGED <<version, mem, wpc, wsym, wtodo, hist>>
      BY <1>2 DEF vars, writerVars, ReaderNext, ReaderLoop, get_snapshot, LoadV1,
                  CopyMember, LoadV2, Retry, Return
  <2>2. QED
      BY <2>1 DEF CountInv, CountOK, InUpdate
<1>3. QED
    BY <1>1, <1>2 DEF Next

\* Outside an update, update_count is the number of completed updates and
\* version is twice that, modulo its range: also for a version that wrapped
\* any number of times.
THEOREM CountCorrect == Spec => []CountMatchesVersion
<1>1. CountInv => CountMatchesVersion
    BY DEF CountInv, CountOK, CountMatchesVersion, InUpdate
<1>2. QED
    BY <1>1, CountInit, CountStep, PTL DEF Spec

-----------------------------------------------------------------------------
(* Successive snapshots.                                                   *)

\* No member holds the number of an update that has not begun.
StampOK(s) ==
    \A f \in Fields : f # "update_count" => mem[s][f] <= Len(hist[s])

\* No reader has been shown more than the members hold.
ShownOK(r, s) == \A f \in Fields : shown[r][s][f] <= mem[s][f]

\* What a call has copied so far came from the members.  The members copied
\* in this call are no older than what the last call returned: those of the
\* copy in progress, and all of them once a copy of this call was complete.
\* v2 is odd only after such a copy, so an iteration that found version odd
\* can leave the loop only with a complete one.
Recent(r, f) == shown[r][rsym[r]][f] <= snap[r][f]

ReadOK(r) ==
    rpc[r] # "idle" =>
        /\ \A f \in Fields : snap[r][f] <= mem[rsym[r]][f]
        /\ rpc[r] = "copy" => \A f \in Fields \ rtodo[r] : Recent(r, f)
        /\ rpc[r] = "check" /\ ~Odd(v1[r]) => \A f \in Fields : Recent(r, f)
        /\ Odd(v2[r]) => \A f \in Fields : Recent(r, f)

MonotoneInv ==
    /\ TypeOK
    /\ \A s \in Symbols : StampOK(s)
    /\ \A r \in Readers, s \in Symbols : ShownOK(r, s)
    /\ \A r \in Readers : ReadOK(r)

\* Every member of the shared state, of a copy and of a returned snapshot is a
\* natural number.
LEMMA MemberTypes ==
    ASSUME TypeOK, NEW r \in Readers, NEW s \in Symbols, NEW f \in Fields
    PROVE  /\ mem[s][f] \in Nat
           /\ snap[r][f] \in Nat
           /\ shown[r][s][f] \in Nat
           /\ rsym[r] \in Symbols
BY DEF TypeOK, States

\* A default-constructed cache, and readers that have been shown nothing.
LEMMA MonotoneInit == Init => MonotoneInv
<1> SUFFICES ASSUME Init PROVE MonotoneInv
    OBVIOUS
<1>1. \A s \in Symbols, f \in Fields : mem[s][f] = 0 /\ Len(hist[s]) = 1
    BY DEF Init, Zero
<1>2. \A r \in Readers, s \in Symbols, f \in Fields : shown[r][s][f] = 0
    BY DEF Init, Zero
<1>3. \A r \in Readers : rpc[r] = "idle"
    BY DEF Init
<1>4. QED
    BY <1>1, <1>2, <1>3, TypeInit DEF MonotoneInv, StampOK, ShownOK, ReadOK

\* While the members only grow, the readers' side of the invariant stands.
LEMMA MonotoneGrow ==
    ASSUME MonotoneInv, TypeOK', UNCHANGED readerVars,
           \A s \in Symbols, f \in Fields : mem[s][f] <= mem'[s][f]
    PROVE  /\ \A r \in Readers, s \in Symbols : ShownOK(r, s)'
           /\ \A r \in Readers : ReadOK(r)'
<1>0. TypeOK
    BY DEF MonotoneInv
<1>1. \A s \in Symbols, f \in Fields : mem[s][f] \in Nat /\ mem'[s][f] \in Nat
    BY <1>0 DEF TypeOK, States
<1>2. ASSUME NEW r \in Readers, NEW s \in Symbols PROVE ShownOK(r, s)'
  <2> SUFFICES ASSUME NEW f \in Fields PROVE shown[r][s][f] <= mem'[s][f]
      BY DEF ShownOK, readerVars
  <2>1. shown[r][s][f] \in Nat /\ shown[r][s][f] <= mem[s][f]
      BY <1>0, MemberTypes DEF MonotoneInv, ShownOK
  <2>2. QED
      BY <1>1, <2>1
<1>3. ASSUME NEW r \in Readers PROVE ReadOK(r)'
  <2>1. ReadOK(r) /\ rsym[r] \in Symbols
      BY <1>0 DEF MonotoneInv, TypeOK
  <2>2. ASSUME rpc[r] # "idle", NEW f \in Fields
        PROVE  snap[r][f] <= mem'[rsym[r]][f]
    <3>1. snap[r][f] \in Nat /\ snap[r][f] <= mem[rsym[r]][f]
        BY <1>0, <2>1, <2>2, MemberTypes DEF ReadOK
    <3>2. QED
        BY <1>1, <2>1, <3>1
  <2>3. QED
      BY <2>1, <2>2 DEF ReadOK, Recent, readerVars
<1>4. QED
    BY <1>2, <1>3

\* The writer: a store replaces a member by the number of a later update, and
\* update_count by its successor (cache.h:54-89).
LEMMA MonotoneWriter ==
    ASSUME MonotoneInv, TypeOK', WriterNext
    PROVE  MonotoneInv'
<1>0. TypeOK /\ \A s \in Symbols : StampOK(s)
    BY DEF MonotoneInv
<1>1. UNCHANGED readerVars
    BY DEF WriterNext, FinishWrite, FinishUpdate, StoreMember, Update, update_bid,
           update_ask, update_quote, update_trade
<1>2. ASSUME NEW s \in Symbols, NEW f \in Fields PROVE mem[s][f] \in Nat
    BY <1>0 DEF TypeOK, States
<1>3. SUFFICES /\ \A s \in Symbols, f \in Fields : mem[s][f] <= mem'[s][f]
               /\ \A s \in Symbols : StampOK(s)'
    BY <1>1, MonotoneGrow DEF MonotoneInv
<1>4. ASSUME NEW g \in Fields, StoreMember(g),
             NEW s \in Symbols, NEW f \in Fields
      PROVE  /\ mem[s][f] <= mem'[s][f]
             /\ f # "update_count" => mem'[s][f] <= Len(hist'[s])
  <2>1. wsym \in Symbols /\ mem[s] \in [Fields -> Nat] /\ Len(hist[s]) \in Nat
    <3>1. wsym \in Symbols /\ mem \in [Symbols -> States] /\ hist[s] \in Seq(States)
        BY <1>0 DEF TypeOK
    <3>2. QED
        BY <3>1 DEF States
  <2>2. f # "update_count" => mem[s][f] <= Len(hist[s])
      BY <1>0 DEF StampOK
  <2>3. hist' = hist
      BY <1>4 DEF StoreMember
  <2>4. CASE s = wsym /\ f = g
    <3>1. mem'[s][f] = IF f = "update_count" THEN mem[s][f] + 1 ELSE Len(hist[s])
        BY <1>4, <1>0, <2>1, <2>4 DEF StoreMember, TypeOK
    <3>2. QED
        BY <1>2, <2>1, <2>2, <2>3, <3>1
  <2>5. CASE s # wsym \/ f # g
    <3>1. mem'[s][f] = mem[s][f]
        BY <1>4, <1>0, <2>1, <2>5 DEF StoreMember, TypeOK
    <3>2. QED
        BY <1>2, <2>2, <2>3, <3>1
  <2>6. QED
      BY <2>4, <2>5
<1>5. CASE \E g \in Fields : StoreMember(g)
    BY <1>4, <1>5 DEF StampOK
<1>6. CASE FinishUpdate
  <2>1. mem' = mem
      BY <1>6 DEF FinishUpdate
  <2>2. ASSUME NEW s \in Symbols PROVE Len(hist[s]) \in Nat /\ Len(hist'[s]) \in Nat
                                       /\ Len(hist[s]) <= Len(hist'[s])
      BY <1>0, <1>6 DEF FinishUpdate, TypeOK
  <2>3. ASSUME NEW s \in Symbols PROVE StampOK(s)'
    <3> SUFFICES ASSUME NEW f \in Fields, f # "update_count"
                 PROVE  mem[s][f] <= Len(hist'[s])
        BY <2>1 DEF StampOK
    <3>1. mem[s][f] <= Len(hist[s])
        BY <1>0 DEF StampOK
    <3>2. QED
        BY <1>2, <2>2, <3>1
  <2>4. QED
      BY <1>2, <2>1, <2>3
<1>7. CASE \E s \in Symbols, m \in SUBSET MarketState : Update(s, m)
  <2>1. mem' = mem /\ hist' = hist
      BY <1>7 DEF Update
  <2>2. QED
      BY <1>0, <1>2, <2>1 DEF StampOK
<1>8. QED
    BY <1>5, <1>6, <1>7
       DEF WriterNext, FinishWrite, update_bid, update_ask, update_quote,
           update_trade, MarketState

\* A reader disturbs the invariant of no other thread, and not what the
\* writer owns: it is enough to look at the reader that moves.
LEMMA MonotoneReader ==
    ASSUME MonotoneInv, TypeOK', NEW r \in Readers,
           UNCHANGED <<mem, hist>>,
           \A q \in Readers \ {r} :
               UNCHANGED <<rpc[q], rsym[q], v1[q], v2[q], snap[q], rtodo[q], shown[q]>>,
           \A s \in Symbols : ShownOK(r, s)',
           ReadOK(r)'
    PROVE  MonotoneInv'
<1>1. \A s \in Symbols : StampOK(s)'
    BY DEF MonotoneInv, StampOK
<1>2. ASSUME NEW q \in Readers, NEW s \in Symbols PROVE ShownOK(q, s)'
    BY DEF MonotoneInv, ShownOK
<1>3. ASSUME NEW q \in Readers PROVE ReadOK(q)'
  <2>1. CASE q = r
      BY <2>1
  <2>2. CASE q # r
      BY <2>2 DEF MonotoneInv, ReadOK, Recent
  <2>3. QED
      BY <2>1, <2>2
<1>4. QED
    BY <1>1, <1>2, <1>3 DEF MonotoneInv

\* The steps of get_snapshot before its return (cache.h:92-101).
LEMMA MonotoneLoop ==
    ASSUME MonotoneInv, TypeOK', NEW r \in Readers,
           \/ \E s \in Symbols : get_snapshot(r, s)
           \/ LoadV1(r)
           \/ \E f \in Fields : CopyMember(r, f)
           \/ LoadV2(r)
           \/ Retry(r)
    PROVE  MonotoneInv'
<1>0. TypeOK /\ ReadOK(r) /\ \A s \in Symbols : ShownOK(r, s)
    BY DEF MonotoneInv
<1>1. UNCHANGED <<mem, hist, shown>>
    BY DEF get_snapshot, LoadV1, CopyMember, LoadV2, Retry
<1>2. \A q \in Readers \ {r} :
          UNCHANGED <<rpc[q], rsym[q], v1[q], v2[q], snap[q], rtodo[q], shown[q]>>
  <2> SUFFICES ASSUME NEW q \in Readers \ {r}
               PROVE  /\ rpc'[q] = rpc[q] /\ rsym'[q] = rsym[q] /\ v1'[q] = v1[q]
                      /\ v2'[q] = v2[q] /\ snap'[q] = snap[q] /\ rtodo'[q] = rtodo[q]
      BY <1>1
  <2>1. ASSUME NEW s \in Symbols, get_snapshot(r, s)
        PROVE  /\ rpc'[q] = rpc[q] /\ rsym'[q] = rsym[q] /\ v1'[q] = v1[q]
               /\ v2'[q] = v2[q] /\ snap'[q] = snap[q] /\ rtodo'[q] = rtodo[q]
      BY <1>0, <2>1 DEF get_snapshot, TypeOK
  <2>2. CASE LoadV1(r)
      BY <1>0, <2>2 DEF LoadV1, TypeOK
  <2>3. CASE \E f \in Fields : CopyMember(r, f)
      BY <1>0, <2>3 DEF CopyMember, TypeOK
  <2>4. CASE LoadV2(r) \/ Retry(r)
      BY <1>0, <2>4 DEF LoadV2, Retry, TypeOK
  <2>5. QED
      BY <2>1, <2>2, <2>3, <2>4
<1>3. \A s \in Symbols : ShownOK(r, s)'
    BY <1>0, <1>1 DEF ShownOK
<1>4. SUFFICES ReadOK(r)'
    BY <1>1, <1>2, <1>3, MonotoneReader
<1>5. ASSUME NEW s \in Symbols, get_snapshot(r, s) PROVE ReadOK(r)'
  <2>1. /\ rpc'[r] = "load1"
        /\ rsym'[r] = s
        /\ v2'[r] = 0
        /\ snap'[r] = Zero
      BY <1>0, <1>5 DEF get_snapshot, TypeOK
  <2>2. ~Odd(0)
      BY DEF Odd
  <2>3. ASSUME NEW f \in Fields PROVE snap'[r][f] <= mem'[s][f]
    <3>1. snap'[r][f] = 0 /\ mem'[s][f] \in Nat
        BY <1>0, <1>1, <2>1, MemberTypes DEF Zero
    <3>2. QED
        BY <3>1
  <2>4. QED
      BY <2>1, <2>2, <2>3 DEF ReadOK
<1>6. CASE LoadV1(r)
  <2>1. /\ UNCHANGED <<rsym, v2, snap>>
        /\ rpc[r] = "load1"
        /\ v1'[r] = version[rsym[r]]
        /\ rpc'[r] = IF Odd(v1'[r]) THEN "check" ELSE "copy"
        /\ rtodo'[r] = IF Odd(v1'[r]) THEN {} ELSE Fields
      BY <1>0, <1>6 DEF LoadV1, TypeOK
  <2>2. QED
      BY <1>0, <1>1, <2>1 DEF ReadOK, Recent
<1>7. ASSUME NEW f \in Fields, CopyMember(r, f) PROVE ReadOK(r)'
  <2>1. /\ UNCHANGED <<rsym, v1, v2, rpc>>
        /\ rpc[r] = "copy"
        /\ rtodo'[r] = rtodo[r] \ {f}
        /\ snap'[r] = [snap[r] EXCEPT ![f] = mem[rsym[r]][f]]
      BY <1>0, <1>7 DEF CopyMember, TypeOK
  <2>2. snap[r] \in [Fields -> Nat] /\ rsym[r] \in Symbols
      BY <1>0 DEF TypeOK, States
  <2>3. ASSUME NEW g \in Fields
        PROVE  snap'[r][g] = IF g = f THEN mem[rsym[r]][f] ELSE snap[r][g]
      BY <2>1, <2>2
  <2>4. ASSUME NEW g \in Fields PROVE snap'[r][g] <= mem'[rsym[r]][g]
    <3>1. mem[rsym[r]][g] \in Nat /\ snap[r][g] <= mem[rsym[r]][g]
        BY <1>0, <2>1, <2>2, MemberTypes DEF ReadOK
    <3>2. QED
        BY <1>1, <2>3, <3>1
  <2>5. ASSUME NEW g \in Fields, g = f \/ Recent(r, g) PROVE Recent(r, g)'
    <3>1. shown[r][rsym[r]][g] <= mem[rsym[r]][g]
        BY <1>0, <2>2 DEF ShownOK
    <3>2. QED
        BY <1>1, <2>1, <2>3, <2>5, <3>1 DEF Recent
  <2>6. QED
      BY <1>0, <2>1, <2>4, <2>5 DEF ReadOK
<1>8. CASE LoadV2(r)
  <2>1. /\ UNCHANGED <<rsym, v1, snap, rtodo>>
        /\ rpc[r] = "copy"
        /\ rpc'[r] = "check"
        /\ rtodo[r] = {}
      BY <1>0, <1>8 DEF LoadV2, TypeOK
  <2>2. QED
      BY <1>0, <1>1, <2>1 DEF ReadOK, Recent
<1>9. CASE Retry(r)
  <2>1. /\ UNCHANGED <<rsym, v1, v2, snap, rtodo>>
        /\ rpc[r] = "check"
        /\ rpc'[r] = "load1"
      BY <1>0, <1>9 DEF Retry, TypeOK
  <2>2. QED
      BY <1>0, <1>1, <2>1 DEF ReadOK, Recent
<1>10. QED
    BY <1>5, <1>6, <1>7, <1>8, <1>9

\* What is returned is no older than what was shown, on the even and on the
\* odd way out of the loop alike (cache.h:101-102).
LEMMA ReturnRecent ==
    ASSUME MonotoneInv, NEW r \in Readers, Return(r)
    PROVE  \A f \in Fields : Recent(r, f)
BY DEF MonotoneInv, ReadOK, Return

\* The return of get_snapshot.
LEMMA MonotoneReturn ==
    ASSUME MonotoneInv, TypeOK', NEW r \in Readers, Return(r)
    PROVE  MonotoneInv'
<1>0. TypeOK /\ ReadOK(r) /\ \A s \in Symbols : ShownOK(r, s)
    BY DEF MonotoneInv
<1>1. UNCHANGED <<mem, hist, snap, rsym>> /\ rpc[r] = "check" /\ rsym[r] \in Symbols
    BY <1>0 DEF Return, TypeOK
<1>2. \A q \in Readers \ {r} :
          UNCHANGED <<rpc[q], rsym[q], v1[q], v2[q], snap[q], rtodo[q], shown[q]>>
    BY <1>0 DEF Return, TypeOK
<1>3. ASSUME NEW s \in Symbols PROVE ShownOK(r, s)'
  <2>1. shown'[r][s] = IF s = rsym[r] THEN snap[r] ELSE shown[r][s]
      BY <1>0, <1>1 DEF Return, TypeOK
  <2>2. QED
      BY <1>0, <1>1, <2>1 DEF ShownOK, ReadOK
<1>4. ReadOK(r)'
  <2>1. rpc'[r] = "idle"
      BY <1>0 DEF Return, TypeOK
  <2>2. QED
      BY <2>1 DEF ReadOK
<1>5. QED
    BY <1>1, <1>2, <1>3, <1>4, MonotoneReader

\* Every step preserves the bounds on what readers have been shown.
LEMMA MonotoneStep == MonotoneInv /\ [Next]_vars => MonotoneInv'
<1> SUFFICES ASSUME MonotoneInv, [Next]_vars PROVE MonotoneInv'
    OBVIOUS
<1>1. TypeOK'
    BY TypeStep DEF MonotoneInv
<1>2. CASE UNCHANGED vars
    BY <1>1, <1>2 DEF vars, writerVars, readerVars, MonotoneInv, StampOK, ShownOK,
                      ReadOK, Recent
<1>3. CASE WriterNext
    BY <1>1, <1>3, MonotoneWriter
<1>4. ASSUME NEW r \in Readers, ReaderNext(r) PROVE MonotoneInv'
    BY <1>1, <1>4, MonotoneLoop, MonotoneReturn DEF ReaderNext, ReaderLoop
<1>5. QED
    BY <1>2, <1>3, <1>4 DEF Next

\* Only a return changes what a reader has been shown, and never for less.
LEMMA ShownGrows ==
    ASSUME MonotoneInv, [Next]_vars,
           NEW r \in Readers, NEW s \in Symbols, NEW f \in Fields
    PROVE  shown'[r][s][f] >= shown[r][s][f]
<1>0. TypeOK /\ shown[r][s][f] \in Nat /\ snap[r][f] \in Nat
    BY MemberTypes DEF MonotoneInv
<1>1. CASE \E q \in Readers : Return(q)
  <2>1. PICK q \in Readers : Return(q)
      BY <1>1
  <2>2. CASE q = r /\ s = rsym[r]
    <3>1. shown'[r][s] = snap[r]
        BY <1>0, <2>1, <2>2 DEF Return, TypeOK
    <3>2. shown[r][s][f] <= snap[r][f]
        BY <2>1, <2>2, ReturnRecent DEF Recent
    <3>3. QED
        BY <1>0, <3>1, <3>2
  <2>3. CASE q # r \/ s # rsym[r]
    <3>1. shown'[r][s] = shown[r][s]
        BY <1>0, <2>1, <2>3 DEF Return, TypeOK
    <3>2. QED
        BY <1>0, <3>1
  <2>4. QED
      BY <2>2, <2>3
<1>2. CASE ~\E q \in Readers : Return(q)
  <2>1. shown' = shown
      BY <1>2 DEF Next, WriterNext, FinishWrite, FinishUpdate, StoreMember, Update,
                  update_bid, update_ask, update_quote, update_trade, ReaderNext,
                  ReaderLoop, get_snapshot, LoadV1, CopyMember, LoadV2, Retry,
                  vars, readerVars
  <2>2. QED
      BY <1>0, <2>1
<1>3. QED
    BY <1>1, <1>2

\* Successive snapshots that one thread takes of one symbol never go back in
\* any member, torn ones included: for any number of symbols, readers, members
\* and updates, and any width of version.
THEOREM MonotonicReadsCorrect == Spec => MonotonicReads
<1>1. MonotoneInv /\ [Next]_vars =>
          [\A r \in Readers, s \in Symbols, f \in Fields :
              shown'[r][s][f] >= shown[r][s][f]]_vars
    BY ShownGrows
<1>2. QED
    BY <1>1, MonotoneInit, MonotoneStep, PTL DEF Spec, MonotonicReads

=============================================================================
