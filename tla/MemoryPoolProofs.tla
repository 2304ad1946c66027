-------------------------- MODULE MemoryPoolProofs --------------------------
(***************************************************************************)
(* Theorems about module MemoryPool, for every number of blocks and        *)
(* threads. The types hold whichever of them acquire.                      *)
(***************************************************************************)
EXTENDS MemoryPool, SumTheorems, FunctionTheorems, TLAPS

LEMMA PoolTypeStep == TypeOK /\ [Next]_vars => TypeOK'
<1> SUFFICES ASSUME TypeOK, [Next]_vars PROVE TypeOK'
    OBVIOUS
<1> USE PoolAssumption DEF TypeOK
<1>1. CASE UNCHANGED vars
    BY <1>1 DEF vars
<1>2. ASSUME NEW t \in Threads, acquire(t) PROVE TypeOK'
    BY <1>2 DEF acquire
<1>3. ASSUME NEW t \in Threads, Step(t) PROVE TypeOK'
  <2>1. CASE ReadNext(t)
    <3>1. blk[t] \in Blocks
        BY <2>1 DEF ReadNext
    <3>. QED
        BY <2>1, <3>1 DEF ReadNext
  <2>2. CASE PopCas(t)
    <3>1. blk[t] \in Blocks
        BY <2>2 DEF PopCas
    <3>2. held' \in [Threads -> SUBSET Blocks]
        BY <2>2, <3>1 DEF PopCas
    <3>. QED
        BY <2>2, <3>2 DEF PopCas
  <2>3. CASE PopRetry(t)
    <3>1. pc' \in [Threads -> {"idle", "pop", "popcas", "link", "push"}]
        BY <2>3 DEF PopRetry
    <3>2. \A u \in Threads : pc'[u] # "idle" => blk'[u] # Null
        BY <2>3 DEF PopRetry
    <3>. QED
        BY <2>3, <3>1, <3>2 DEF PopRetry
  <2>4. CASE Link(t)
    <3>1. blk[t] \in Blocks
        BY <2>4 DEF Link
    <3>2. next' \in [Blocks -> Blocks \cup {Null}]
        BY <2>4, <3>1 DEF Link
    <3>. QED
        BY <2>4, <3>2 DEF Link
  <2>5. CASE PushCas(t)
      BY <2>5 DEF PushCas
  <2>6. CASE PushRetry(t)
      BY <2>6 DEF PushRetry
  <2>. QED
      BY <1>3, <2>1, <2>2, <2>3, <2>4, <2>5, <2>6 DEF Step
<1>4. ASSUME NEW t \in Threads, NEW b \in Blocks, release(t, b) PROVE TypeOK'
  <2>1. held' \in [Threads -> SUBSET Blocks]
      BY <1>4 DEF release
  <2>. QED
      BY <1>4, <2>1 DEF release
<1>5. ASSUME NEW t \in Threads, NEW u \in Threads, NEW b \in Blocks, HandOver(t, u, b)
      PROVE  TypeOK'
  <2>1. held' \in [Threads -> SUBSET Blocks]
      BY <1>5 DEF HandOver
  <2>. QED
      BY <1>5, <2>1 DEF HandOver
<1>. QED
    BY <1>1, <1>2, <1>3, <1>4, <1>5 DEF Next

\* Each variable of the pool keeps its type; in particular pop dereferences
\* free_head_ only after it was found not to be null, on the first load and on
\* each retry (memory_pool.h:53-60).
THEOREM TypeCorrect == Spec => []TypeOK
<1>1. Init => TypeOK
    BY DEF Init, TypeOK
<1>. QED
    BY <1>1, PoolTypeStep, PTL DEF Spec

-----------------------------------------------------------------------------
(* The free list.                                                          *)

N == Cardinality(Blocks)

\* The function that FreeList is, up to link m, of the links nx from head h.
IsLinks(g, h, nx, m) ==
    g = [i \in 0 .. m |-> IF i = 0 THEN h
                          ELSE IF g[i - 1] = Null THEN Null ELSE nx[g[i - 1]]]

Links(h, nx) == CHOOSE g : IsLinks(g, h, nx, N)

LinkSet(h, nx) == {Links(h, nx)[i] : i \in 0 .. N} \ {Null}

LEMMA FreeListIsLinks ==
    /\ FreeList = Links(free_head, next)
    /\ FreeBlocks = LinkSet(free_head, next)
  BY DEF FreeBlocks, LinkSet, FreeList, Links, IsLinks, N

LEMMA BlocksCounted == N \in Nat
  BY FS_CardinalityType, PoolAssumption DEF N

\* There is such a function for any number of links.
LEMMA LinksExist ==
  ASSUME NEW h, NEW nx, NEW m \in Nat PROVE \E g : IsLinks(g, h, nx, m)
<1> DEFINE C == {k \in Nat : ~\E g : IsLinks(g, h, nx, k)}
<1> SUFFICES ASSUME C # {} PROVE FALSE
    OBVIOUS
<1>1. PICK k \in C : \A j \in C : k <= j
    BY LeastNat
<1>2. CASE k = 0
  <2> DEFINE g == [i \in 0 .. 0 |-> h]
  <2>1. IsLinks(g, h, nx, 0)
      BY DEF IsLinks
  <2>. QED
      BY <1>1, <1>2, <2>1
<1>3. CASE k # 0
  <2>1. k - 1 \in Nat /\ k - 1 \notin C
      BY <1>1, <1>3
  <2>2. PICK g : IsLinks(g, h, nx, k - 1)
      BY <2>1
  <2> DEFINE f == [i \in 0 .. k |->
                      IF i < k THEN g[i]
                      ELSE IF g[k - 1] = Null THEN Null ELSE nx[g[k - 1]]]
  <2>3. ASSUME NEW i \in 0 .. k
        PROVE  f[i] = IF i = 0 THEN h ELSE IF f[i - 1] = Null THEN Null ELSE nx[f[i - 1]]
    <3>1. CASE i = 0
      <4>1. g[0] = h
          BY <2>1, <2>2 DEF IsLinks
      <4>. QED
          BY <1>1, <1>3, <3>1, <4>1
    <3>2. CASE i # 0 /\ i < k
      <4>1. f[i] = g[i] /\ f[i - 1] = g[i - 1]
          BY <1>1, <3>2
      <4>2. g[i] = IF g[i - 1] = Null THEN Null ELSE nx[g[i - 1]]
        <5>1. i \in 0 .. k - 1
            BY <1>1, <3>2
        <5>. QED
            BY <2>2, <3>2, <5>1 DEF IsLinks
      <4>. QED
          BY <3>2, <4>1, <4>2
    <3>3. CASE i = k
      <4>1. f[i - 1] = g[k - 1]
          BY <1>1, <1>3, <3>3
      <4>. QED
          BY <1>1, <1>3, <3>3, <4>1
    <3>. QED
        BY <1>1, <3>1, <3>2, <3>3
  <2>4. IsLinks(f, h, nx, k)
    <3>1. f = [i \in 0 .. k |-> f[i]]
        OBVIOUS
    <3> HIDE DEF f
    <3>. QED
        BY <2>3, <3>1 DEF IsLinks
  <2>. QED
      BY <1>1, <2>4
<1>. QED
    BY <1>2, <1>3

LEMMA LinkValues ==
  ASSUME NEW h, NEW nx, NEW i \in 0 .. N
  PROVE  Links(h, nx)[i] =
            IF i = 0 THEN h
            ELSE IF Links(h, nx)[i - 1] = Null THEN Null ELSE nx[Links(h, nx)[i - 1]]
<1>1. IsLinks(Links(h, nx), h, nx, N)
    BY LinksExist, BlocksCounted DEF Links
<1> DEFINE g == Links(h, nx)
<1> HIDE DEF g
<1>2. IsLinks(g, h, nx, N)
    BY <1>1 DEF g
<1>3. g[i] = IF i = 0 THEN h ELSE IF g[i - 1] = Null THEN Null ELSE nx[g[i - 1]]
    BY <1>2 DEF IsLinks
<1>. QED
    BY <1>3 DEF g

\* The blocks s[n], ..., s[1] are linked in this order, each once, from head h.
IsChain(s, n, h, nx) ==
    /\ s \in [1 .. n -> Blocks]
    /\ \A i, j \in 1 .. n : s[i] = s[j] => i = j
    /\ h = IF n = 0 THEN Null ELSE s[n]
    /\ \A i \in 1 .. n : nx[s[i]] = IF i = 1 THEN Null ELSE s[i - 1]

OnChain(s, n) == {s[i] : i \in 1 .. n}

\* A chain is no longer than there are blocks.
LEMMA ChainLength ==
  ASSUME NEW n \in Nat, NEW s \in [1 .. n -> Blocks],
         \A i, j \in 1 .. n : s[i] = s[j] => i = j
  PROVE  n <= N
<1>1. s \in Injection(1 .. n, Blocks)
    BY DEF Injection, IsInjective
<1>2. Cardinality(1 .. n) <= N
    BY <1>1, FS_Injection, PoolAssumption DEF N
<1>3. Cardinality(1 .. n) = n
    BY FS_Interval
<1>. QED
    BY <1>2, <1>3

\* What following the links of a chain finds.
LEMMA ChainLinks ==
  ASSUME NEW h, NEW nx, NEW n \in Nat, NEW s, IsChain(s, n, h, nx), NEW k \in 0 .. N
  PROVE  Links(h, nx)[k] = IF k < n THEN s[n - k] ELSE Null
<1> DEFINE g == Links(h, nx)
           C == {i \in 0 .. N : g[i] # IF i < n THEN s[n - i] ELSE Null}
<1> SUFFICES ASSUME C # {} PROVE FALSE
    OBVIOUS
<1>0. C \subseteq Nat
    BY BlocksCounted
<1>1. PICK i \in C : \A j \in C : i <= j
  <2> HIDE DEF C
  <2>. QED
      BY <1>0, LeastNat
<1>2. i \in Nat /\ i \in 0 .. N
    BY <1>0, <1>1
<1>3. g[i] = IF i = 0 THEN h ELSE IF g[i - 1] = Null THEN Null ELSE nx[g[i - 1]]
    BY <1>2, LinkValues
<1>4. g[i] # IF i < n THEN s[n - i] ELSE Null
    BY <1>1
<1>5. i # 0
  <2>1. SUFFICES ASSUME i = 0 PROVE FALSE
      OBVIOUS
  <2>2. g[i] = IF n = 0 THEN Null ELSE s[n]
      BY <1>3, <2>1 DEF IsChain
  <2>3. n - i = n /\ (i < n <=> n # 0)
      BY <2>1
  <2>. QED
      BY <1>4, <2>2, <2>3
<1>6. g[i - 1] = IF i - 1 < n THEN s[n - (i - 1)] ELSE Null
  <2>1. i - 1 \in 0 .. N /\ ~(i <= i - 1)
      BY <1>2, <1>5, BlocksCounted
  <2>. QED
      BY <1>1, <2>1
<1> HIDE DEF g
<1>7. CASE i - 1 < n
  <2> DEFINE j == n - (i - 1)
  <2>1. j \in 1 .. n /\ (j = 1 <=> ~(i < n)) /\ j - 1 = n - i
      BY <1>2, <1>5, <1>7
  <2>2. g[i - 1] = s[j]
      BY <1>6, <1>7
  <2> HIDE DEF j
  <2>3. s[j] \in Blocks /\ s[j] # Null
      BY <2>1, PoolAssumption DEF IsChain
  <2>4. nx[s[j]] = IF j = 1 THEN Null ELSE s[j - 1]
      BY <2>1 DEF IsChain
  <2>5. g[i] = nx[s[j]]
      BY <1>3, <1>5, <2>2, <2>3
  <2>. QED
      BY <1>4, <2>1, <2>4, <2>5
<1>8. CASE ~(i - 1 < n)
  <2>1. g[i] = Null
      BY <1>3, <1>5, <1>6, <1>8
  <2>2. ~(i < n)
      BY <1>2, <1>8
  <2>. QED
      BY <1>4, <2>1, <2>2
<1>. QED
    BY <1>7, <1>8

\* The free list holds the blocks of the chain, and ends.
LEMMA ChainSet ==
  ASSUME NEW h, NEW nx, NEW n \in Nat, NEW s, IsChain(s, n, h, nx)
  PROVE  /\ LinkSet(h, nx) = OnChain(s, n)
         /\ Links(h, nx)[N] = Null
<1>0. N \in Nat /\ n <= N
    BY BlocksCounted, ChainLength DEF IsChain
<1>1. \A k \in 0 .. N : Links(h, nx)[k] = IF k < n THEN s[n - k] ELSE Null
    BY ChainLinks
<1>2. \A i \in 1 .. n : s[i] \in Blocks /\ s[i] # Null
    BY PoolAssumption DEF IsChain
<1>3. ASSUME NEW k \in 0 .. N, Links(h, nx)[k] # Null PROVE Links(h, nx)[k] \in OnChain(s, n)
  <2>1. k < n /\ Links(h, nx)[k] = s[n - k]
      BY <1>1, <1>3
  <2>2. n - k \in 1 .. n
      BY <1>0, <2>1
  <2>. QED
      BY <2>1, <2>2 DEF OnChain
<1>4. ASSUME NEW i \in 1 .. n PROVE \E k \in 0 .. N : s[i] = Links(h, nx)[k]
  <2> DEFINE k == n - i
  <2>1. k \in 0 .. N /\ k < n /\ n - k = i
      BY <1>0
  <2>2. Links(h, nx)[k] = s[i]
      BY <1>1, <2>1
  <2>. QED
      BY <2>1, <2>2
<1>5. LinkSet(h, nx) = OnChain(s, n)
    BY <1>2, <1>3, <1>4 DEF LinkSet, OnChain
<1>6. Links(h, nx)[N] = Null
    BY <1>0, <1>1
<1>. QED
    BY <1>5, <1>6

\* The free list of the constructor is a chain: it reaches every block in no
\* more links than there are blocks, and so none twice (memory_pool.h:15-20).
LEMMA FirstChain ==
  ASSUME NEW h, NEW nx, LinkSet(h, nx) = Blocks, Links(h, nx)[N] = Null
  PROVE  \E n \in Nat : \E s \in [1 .. n -> Blocks] : IsChain(s, n, h, nx)
<1> DEFINE g == Links(h, nx)
           C == {i \in 0 .. N : g[i] = Null}
<1>0. N \in Nat /\ C \subseteq Nat /\ N \in C
    BY BlocksCounted
<1>1. PICK n \in C : \A i \in C : n <= i
  <2> HIDE DEF C
  <2>. QED
      BY <1>0, LeastNat
<1>2. /\ n \in Nat /\ n <= N /\ g[n] = Null
      /\ \A i \in 0 .. N : i < n => g[i] # Null
    BY <1>0, <1>1
<1>3. \A i \in 0 .. N : g[i] = IF i = 0 THEN h ELSE IF g[i - 1] = Null THEN Null ELSE nx[g[i - 1]]
    BY LinkValues
<1>4. \A i \in 0 .. N : i < n => g[i] \in Blocks
    BY <1>2 DEF LinkSet
<1>5. ASSUME NEW b \in Blocks PROVE \E i \in 0 .. N : g[i] = b
    BY DEF LinkSet
<1> HIDE DEF g, C
<1>6. \A i \in 0 .. N : ~(i < n) => g[i] = Null
  <2> DEFINE D == {i \in 0 .. N : ~(i < n) /\ g[i] # Null}
  <2> SUFFICES ASSUME D # {} PROVE FALSE
      OBVIOUS
  <2>0. D \subseteq Nat
      BY <1>0
  <2>1. PICK i \in D : \A j \in D : i <= j
    <3> HIDE DEF D
    <3>. QED
        BY <2>0, LeastNat
  <2>2. i \in Nat /\ i # n /\ ~(i < n)
      BY <1>2, <2>0, <2>1
  <2>3. i - 1 \in 0 .. N /\ ~(i - 1 < n) /\ ~(i <= i - 1) /\ i # 0
      BY <1>0, <1>2, <2>1, <2>2
  <2>4. g[i - 1] = Null
      BY <2>1, <2>3
  <2>. QED
      BY <1>3, <2>1, <2>3, <2>4
<1> DEFINE s == [j \in 1 .. n |-> g[n - j]]
<1>7. ASSUME NEW j \in 1 .. n PROVE n - j \in 0 .. N /\ n - j < n
    BY <1>0, <1>2
<1>8. s \in [1 .. n -> Blocks]
    BY <1>4, <1>7
<1>9. ASSUME NEW b \in Blocks PROVE \E j \in 1 .. n : s[j] = b
  <2>1. PICK i \in 0 .. N : g[i] = b
      BY <1>5
  <2>2. i < n
      BY <1>6, <2>1, PoolAssumption
  <2>3. n - i \in 1 .. n /\ n - (n - i) = i
      BY <1>2, <2>2
  <2>4. s[n - i] = b
      BY <2>1, <2>3
  <2>. QED
      BY <2>3, <2>4
<1>10. s \in Injection(1 .. n, Blocks)
  <2>1. s \in Surjection(1 .. n, Blocks)
      BY <1>8, <1>9 DEF Surjection
  <2>2. IsFiniteSet(1 .. n) /\ Cardinality(1 .. n) = n
      BY <1>2, FS_Interval
  <2> HIDE DEF s
  <2>3. N <= n /\ (N = n => s \in Injection(1 .. n, Blocks))
      BY <2>1, <2>2, FS_Surjection DEF N
  <2>. QED
      BY <1>0, <1>2, <2>3
<1>11. \A i, j \in 1 .. n : s[i] = s[j] => i = j
  <2> HIDE DEF s
  <2>. QED
      BY <1>10 DEF Injection, IsInjective
<1>12. h = IF n = 0 THEN Null ELSE s[n]
  <2>1. g[0] = h
      BY <1>0, <1>3
  <2>2. n # 0 => n \in 1 .. n /\ n - n = 0
      BY <1>2
  <2>. QED
      BY <1>2, <2>1, <2>2
<1>13. ASSUME NEW j \in 1 .. n PROVE nx[s[j]] = IF j = 1 THEN Null ELSE s[j - 1]
  <2> DEFINE i == n - j + 1
  <2>1. i \in 0 .. N /\ i # 0 /\ i - 1 = n - j /\ (j = 1 => i = n) /\ i = n - (j - 1)
      BY <1>0, <1>2
  <2>2. s[j] = g[i - 1] /\ g[i - 1] # Null
      BY <1>2, <1>7, <2>1
  <2> HIDE DEF i
  <2>3. g[i] = nx[s[j]]
      BY <1>3, <2>1, <2>2
  <2>4. CASE j = 1
      BY <1>2, <2>1, <2>3, <2>4
  <2>5. CASE j # 1
    <3>1. j - 1 \in 1 .. n
        BY <1>2, <2>5
    <3>2. s[j - 1] = g[i]
        BY <2>1, <3>1
    <3>. QED
        BY <2>3, <2>5, <3>2
  <2>. QED
      BY <2>4, <2>5
<1>14. IsChain(s, n, h, nx)
  <2> HIDE DEF s
  <2>. QED
      BY <1>8, <1>11, <1>12, <1>13 DEF IsChain
<1>. QED
    BY <1>2, <1>8, <1>14

-----------------------------------------------------------------------------
(* What push and pop do to the list.                                       *)

\* The list from head h along the links nx holds exactly the blocks of F.
IsList(F, h, nx) ==
    \E n \in 0 .. N : \E s \in [1 .. n -> Blocks] : IsChain(s, n, h, nx) /\ F = OnChain(s, n)

LEMMA ListMembers ==
  ASSUME NEW F, NEW h, NEW nx, IsList(F, h, nx)
  PROVE  /\ LinkSet(h, nx) = F
         /\ Links(h, nx)[N] = Null
         /\ F \subseteq Blocks
         /\ h # Null => h \in F
<1>1. PICK n \in 0 .. N : \E s \in [1 .. n -> Blocks] : IsChain(s, n, h, nx) /\ F = OnChain(s, n)
    BY DEF IsList
<1>2. PICK s \in [1 .. n -> Blocks] : IsChain(s, n, h, nx) /\ F = OnChain(s, n)
    BY <1>1
<1>3. n \in Nat
    BY <1>1, BlocksCounted
<1>4. LinkSet(h, nx) = F /\ Links(h, nx)[N] = Null
    BY <1>2, <1>3, ChainSet
<1>5. F \subseteq Blocks
    BY <1>2 DEF OnChain
<1>6. ASSUME h # Null PROVE h \in F
  <2>1. n # 0 /\ h = s[n]
      BY <1>2, <1>6 DEF IsChain
  <2>2. n \in 1 .. n
      BY <1>3, <2>1
  <2>. QED
      BY <1>2, <2>1, <2>2 DEF OnChain
<1>. QED
    BY <1>4, <1>5, <1>6

LEMMA ListPush ==
  ASSUME NEW F, NEW h, NEW nx, IsList(F, h, nx), NEW b \in Blocks, b \notin F, nx[b] = h
  PROVE  IsList(F \cup {b}, b, nx)
<1>1. PICK n \in 0 .. N : \E s \in [1 .. n -> Blocks] : IsChain(s, n, h, nx) /\ F = OnChain(s, n)
    BY DEF IsList
<1>2. PICK s \in [1 .. n -> Blocks] : IsChain(s, n, h, nx) /\ F = OnChain(s, n)
    BY <1>1
<1>3. n \in Nat /\ n + 1 \in Nat /\ N \in Nat
    BY <1>1, BlocksCounted
<1> DEFINE c == [i \in 1 .. n + 1 |-> IF i = n + 1 THEN b ELSE s[i]]
<1>4. /\ c \in [1 .. n + 1 -> Blocks] /\ c[n + 1] = b
      /\ \A i \in 1 .. n : c[i] = s[i] /\ s[i] # b
      /\ \A i \in 1 .. n + 1 : i # n + 1 => i \in 1 .. n
    BY <1>2, <1>3 DEF OnChain
<1> HIDE DEF c
<1>5. \A i, j \in 1 .. n + 1 : c[i] = c[j] => i = j
    BY <1>2, <1>4 DEF IsChain
<1>6. ASSUME NEW i \in 1 .. n + 1 PROVE nx[c[i]] = IF i = 1 THEN Null ELSE c[i - 1]
  <2>1. CASE i = n + 1
    <3>1. n = 0 \/ (n # 0 /\ n \in 1 .. n /\ i - 1 = n /\ i # 1)
        BY <1>3, <2>1
    <3>. QED
        BY <1>2, <1>4, <2>1, <3>1 DEF IsChain
  <2>2. CASE i # n + 1
    <3>1. i \in 1 .. n /\ (i # 1 => i - 1 \in 1 .. n)
        BY <1>3, <2>2
    <3>. QED
        BY <1>2, <1>4, <3>1 DEF IsChain
  <2>. QED
      BY <2>1, <2>2
<1>7. IsChain(c, n + 1, b, nx)
    BY <1>3, <1>4, <1>5, <1>6 DEF IsChain
<1>8. n + 1 \in 0 .. N
  <2>1. n + 1 <= N
      BY <1>3, <1>4, <1>5, ChainLength
  <2>. QED
      BY <1>3, <2>1
<1>9. F \cup {b} = OnChain(c, n + 1)
  <2>1. n + 1 \in 1 .. n + 1 /\ 1 .. n \subseteq 1 .. n + 1
      BY <1>3
  <2>. QED
      BY <1>2, <1>4, <2>1 DEF OnChain
<1>. QED
    BY <1>4, <1>7, <1>8, <1>9 DEF IsList

LEMMA ListPop ==
  ASSUME NEW F, NEW h, NEW nx, IsList(F, h, nx), h # Null
  PROVE  IsList(F \ {h}, nx[h], nx)
<1>1. PICK n \in 0 .. N : \E s \in [1 .. n -> Blocks] : IsChain(s, n, h, nx) /\ F = OnChain(s, n)
    BY DEF IsList
<1>2. PICK s \in [1 .. n -> Blocks] : IsChain(s, n, h, nx) /\ F = OnChain(s, n)
    BY <1>1
<1>3. n # 0 /\ h = s[n]
    BY <1>2 DEF IsChain
<1>4. n \in Nat /\ n - 1 \in 0 .. N /\ n \in 1 .. n /\ 1 .. n - 1 \subseteq 1 .. n
    BY <1>1, <1>3, BlocksCounted
<1>5. \A i \in 1 .. n : i # n => i \in 1 .. n - 1
    BY <1>4
<1>6. n \notin 1 .. n - 1
    BY <1>4
<1> DEFINE c == [i \in 1 .. n - 1 |-> s[i]]
<1>7. c \in [1 .. n - 1 -> Blocks] /\ \A i \in 1 .. n - 1 : c[i] = s[i]
    BY <1>4
<1> HIDE DEF c
<1>8. \A i, j \in 1 .. n - 1 : c[i] = c[j] => i = j
    BY <1>2, <1>4, <1>7 DEF IsChain
<1>9. nx[h] = IF n - 1 = 0 THEN Null ELSE c[n - 1]
  <2>1. nx[s[n]] = IF n = 1 THEN Null ELSE s[n - 1]
      BY <1>2, <1>4 DEF IsChain
  <2>2. (n - 1 = 0 <=> n = 1) /\ (n # 1 => n - 1 \in 1 .. n - 1)
      BY <1>3, <1>4
  <2>. QED
      BY <1>3, <1>7, <2>1, <2>2
<1>10. ASSUME NEW i \in 1 .. n - 1 PROVE nx[c[i]] = IF i = 1 THEN Null ELSE c[i - 1]
  <2>1. i # 1 => i - 1 \in 1 .. n - 1
      BY <1>4
  <2>. QED
      BY <1>2, <1>4, <1>7, <2>1 DEF IsChain
<1>11. IsChain(c, n - 1, nx[h], nx)
    BY <1>7, <1>8, <1>9, <1>10 DEF IsChain
<1>12. F \ {h} = OnChain(c, n - 1)
  <2>1. \A i \in 1 .. n : s[i] = s[n] => i = n
      BY <1>2, <1>4 DEF IsChain
  <2>2. \A x : x \in F <=> \E i \in 1 .. n : x = s[i]
      BY <1>2 DEF OnChain
  <2>3. \A x : x \in OnChain(c, n - 1) <=> \E i \in 1 .. n - 1 : x = s[i]
      BY <1>7 DEF OnChain
  <2>. QED
      BY <1>3, <1>4, <1>5, <1>6, <2>1, <2>2, <2>3
<1>. QED
    BY <1>4, <1>7, <1>11, <1>12 DEF IsList

LEMMA ListLink ==
  ASSUME NEW F, NEW h, NEW nx, IsList(F, h, nx), NEW ny, \A b \in F : ny[b] = nx[b]
  PROVE  IsList(F, h, ny)
<1>1. PICK n \in 0 .. N : \E s \in [1 .. n -> Blocks] : IsChain(s, n, h, nx) /\ F = OnChain(s, n)
    BY DEF IsList
<1>2. PICK s \in [1 .. n -> Blocks] : IsChain(s, n, h, nx) /\ F = OnChain(s, n)
    BY <1>1
<1>3. \A i \in 1 .. n : ny[s[i]] = nx[s[i]]
    BY <1>2 DEF OnChain
<1>4. IsChain(s, n, h, ny)
    BY <1>2, <1>3 DEF IsChain
<1>. QED
    BY <1>2, <1>4 DEF IsList

-----------------------------------------------------------------------------
(* Each block in one place.                                                *)

\* Only one thread acquires; with more, MemoryPool_aba.cfg shows the blocks mixed up.
OneAcquirer == \A t, u \in Acquirers : t = u

Chained == IsList(FreeBlocks, free_head, next)

PushingBlock(t) == pc[t] \in {"link", "push"}

\* The places of the blocks, pointwise: held by at most one thread, and free,
\* held and pushed exclude each other.
HeldApart ==
    \A t \in Threads : \A b \in held[t] :
        /\ b \notin FreeBlocks
        /\ \A u \in Threads : b \in held[u] => u = t

PushedApart ==
    \A t \in Threads : PushingBlock(t) =>
        /\ blk[t] \notin FreeBlocks
        /\ \A u \in Threads : blk[t] \notin held[u]
        /\ \A u \in Threads : PushingBlock(u) /\ blk[u] = blk[t] => u = t

NoneMissing ==
    \A b \in Blocks :
        \/ b \in FreeBlocks
        \/ \E t \in Threads : b \in held[t]
        \/ \E t \in Threads : PushingBlock(t) /\ blk[t] = b

\* A thread inside pop has a block that is still free, since nobody else pops,
\* and whose link is therefore the one it read.
PopSound ==
    \A t \in Threads : pc[t] \in {"pop", "popcas"} =>
        /\ t \in Acquirers
        /\ blk[t] \in FreeBlocks
        /\ pc[t] = "popcas" => succ[t] = next[blk[t]]

PlaceInv == TypeOK /\ Chained /\ HeldApart /\ PushedApart /\ NoneMissing /\ PopSound

LEMMA FreeListIsLinksNext ==
    /\ FreeList' = Links(free_head', next')
    /\ FreeBlocks' = LinkSet(free_head', next')
  BY DEF FreeBlocks, LinkSet, FreeList, Links, IsLinks, N

\* The list after a step determines the blocks that are free.
LEMMA NewList ==
  ASSUME NEW F, IsList(F, free_head', next') PROVE FreeBlocks' = F /\ Chained'
<1>1. FreeBlocks' = F
    BY ListMembers, FreeListIsLinksNext
<1>. QED
    BY <1>1 DEF Chained

LEMMA InitPlaces == Init => PlaceInv
<1> SUFFICES ASSUME Init PROVE PlaceInv
    OBVIOUS
<1>1. TypeOK
    BY DEF Init, TypeOK
<1>2. LinkSet(free_head, next) = Blocks /\ Links(free_head, next)[N] = Null
    BY FreeListIsLinks DEF Init, N
<1>3. PICK n \in Nat : \E s \in [1 .. n -> Blocks] : IsChain(s, n, free_head, next)
    BY <1>2, FirstChain
<1>4. PICK s \in [1 .. n -> Blocks] : IsChain(s, n, free_head, next)
    BY <1>3
<1>5. OnChain(s, n) = Blocks
    BY <1>2, <1>4, ChainSet
<1>6. n \in 0 .. N
  <2>1. n <= N
      BY <1>4, ChainLength DEF IsChain
  <2>. QED
      BY <2>1, BlocksCounted
<1>7. FreeBlocks = Blocks
    BY DEF Init
<1>8. Chained
    BY <1>4, <1>5, <1>6, <1>7 DEF Chained, IsList
<1>9. HeldApart /\ PushedApart /\ NoneMissing /\ PopSound
    BY <1>7 DEF Init, HeldApart, PushedApart, NoneMissing, PopSound, PushingBlock
<1>. QED
    BY <1>1, <1>8, <1>9 DEF PlaceInv

\* acquire, up to the exchange (memory_pool.h:53-60).
LEMMA PlacesAcquire ==
  ASSUME PlaceInv, TypeOK', NEW t \in Threads, acquire(t) \/ ReadNext(t) \/ PopRetry(t)
  PROVE  PlaceInv'
<1>1. UNCHANGED <<free_head, next, held>>
    BY DEF acquire, ReadNext, PopRetry
<1>2. FreeBlocks' = FreeBlocks /\ Chained'
    BY <1>1, NewList DEF PlaceInv, Chained
<1>3. free_head # Null => free_head \in FreeBlocks
    BY ListMembers DEF PlaceInv, Chained
<1>4. /\ pc[t] \in {"idle", "pop", "popcas"} /\ pc'[t] \in {"idle", "pop", "popcas"}
      /\ \A u \in Threads \ {t} : pc'[u] = pc[u] /\ blk'[u] = blk[u] /\ succ'[u] = succ[u]
    BY DEF acquire, ReadNext, PopRetry, PlaceInv, TypeOK
<1>5. \A u \in Threads : PushingBlock(u)' <=> PushingBlock(u)
    BY <1>4 DEF PushingBlock
<1>6. \A u \in Threads : PushingBlock(u) => blk'[u] = blk[u]
    BY <1>4 DEF PushingBlock
<1>7. HeldApart'
    BY <1>1, <1>2 DEF PlaceInv, HeldApart
<1>8. PushedApart'
    BY <1>1, <1>2, <1>5, <1>6 DEF PlaceInv, PushedApart
<1>9. NoneMissing'
    BY <1>1, <1>2, <1>5, <1>6 DEF PlaceInv, NoneMissing
<1>10. PopSound'
  <2>1. ASSUME pc'[t] \in {"pop", "popcas"}
        PROVE  /\ t \in Acquirers
               /\ blk'[t] \in FreeBlocks
               /\ pc'[t] = "popcas" => succ'[t] = next[blk'[t]]
    <3>1. CASE acquire(t)
        BY <1>3, <3>1 DEF acquire, PlaceInv, TypeOK
    <3>2. CASE ReadNext(t)
        BY <3>2 DEF ReadNext, PlaceInv, TypeOK, PopSound
    <3>3. CASE PopRetry(t)
        BY <1>3, <2>1, <3>3 DEF PopRetry, PlaceInv, TypeOK, PopSound
    <3>. QED
        BY <3>1, <3>2, <3>3
  <2>. QED
      BY <1>1, <1>2, <1>4, <2>1 DEF PlaceInv, PopSound
<1>. QED
    BY <1>2, <1>7, <1>8, <1>9, <1>10 DEF PlaceInv

\* The exchange of pop: the block leaves the list and is held.  The link read
\* before is the block's link, so that the rest of the list becomes the list;
\* with a second acquirer it need not be (memory_pool.h:56-59).
LEMMA PlacesPop ==
  ASSUME OneAcquirer, PlaceInv, TypeOK', NEW t \in Threads, PopCas(t)
  PROVE  PlaceInv'
<1> DEFINE b == blk[t]
<1>1. /\ pc[t] = "popcas" /\ free_head = b /\ free_head' = succ[t] /\ next' = next
      /\ held' = [held EXCEPT ![t] = held[t] \cup {b}]
      /\ pc'[t] = "idle"
      /\ \A u \in Threads \ {t} : pc'[u] = pc[u] /\ blk'[u] = blk[u] /\ succ'[u] = succ[u]
      /\ held \in [Threads -> SUBSET Blocks] /\ b \in Blocks /\ b # Null
    BY PoolAssumption DEF PopCas, PlaceInv, TypeOK
<1>2. t \in Acquirers /\ b \in FreeBlocks /\ succ[t] = next[b]
    BY <1>1 DEF PlaceInv, PopSound
<1> HIDE DEF b
<1>3. FreeBlocks' = FreeBlocks \ {b} /\ Chained'
  <2>1. IsList(FreeBlocks \ {b}, next[b], next)
      BY <1>1, ListPop DEF PlaceInv, Chained
  <2>2. IsList(FreeBlocks \ {b}, free_head', next')
      BY <1>1, <1>2, <2>1
  <2>. QED
      BY <2>2, NewList
<1>4. \A u \in Threads : held'[u] = IF u = t THEN held[t] \cup {b} ELSE held[u]
    BY <1>1
<1>5. \A u \in Threads : (PushingBlock(u)' <=> PushingBlock(u)) /\ (PushingBlock(u) => blk'[u] = blk[u])
    BY <1>1 DEF PushingBlock
<1>6. HeldApart'
    BY <1>2, <1>3, <1>4 DEF PlaceInv, HeldApart
<1>7. PushedApart'
    BY <1>2, <1>3, <1>4, <1>5 DEF PlaceInv, PushedApart
<1>8. NoneMissing'
    BY <1>3, <1>4, <1>5 DEF PlaceInv, NoneMissing
<1>9. PopSound'
  <2>1. \A u \in Threads : pc'[u] \notin {"pop", "popcas"}
      BY <1>1, <1>2 DEF PlaceInv, PopSound, OneAcquirer
  <2>. QED
      BY <2>1 DEF PopSound
<1>. QED
    BY <1>3, <1>6, <1>7, <1>8, <1>9 DEF PlaceInv

\* A thread gives a block up, or on (memory_pool.h:27-32).
LEMMA PlacesRelease ==
  ASSUME PlaceInv, TypeOK', NEW t \in Threads, NEW b \in Blocks, release(t, b)
  PROVE  PlaceInv'
<1>1. /\ UNCHANGED <<free_head, next>> /\ pc[t] = "idle" /\ pc'[t] = "link" /\ blk'[t] = b
      /\ b \in held[t]
      /\ \A u \in Threads : held'[u] = IF u = t THEN held[t] \ {b} ELSE held[u]
      /\ \A u \in Threads \ {t} : pc'[u] = pc[u] /\ blk'[u] = blk[u] /\ succ'[u] = succ[u]
    BY DEF release, PlaceInv, TypeOK
<1>2. FreeBlocks' = FreeBlocks /\ Chained'
    BY <1>1, NewList DEF PlaceInv, Chained
<1>3. b \notin FreeBlocks /\ \A u \in Threads : b \in held[u] => u = t
    BY <1>1 DEF PlaceInv, HeldApart
<1>4. /\ ~PushingBlock(t) /\ PushingBlock(t)'
      /\ \A u \in Threads \ {t} : PushingBlock(u)' <=> PushingBlock(u)
    BY <1>1 DEF PushingBlock
<1>5. \A u \in Threads : PushingBlock(u) => blk[u] # b
    BY <1>1 DEF PlaceInv, PushedApart
<1>6. HeldApart'
    BY <1>1, <1>2 DEF PlaceInv, HeldApart
<1>7. PushedApart'
    BY <1>1, <1>2, <1>3, <1>4, <1>5 DEF PlaceInv, PushedApart
<1>8. NoneMissing'
    BY <1>1, <1>2, <1>4 DEF PlaceInv, NoneMissing
<1>9. PopSound'
    BY <1>1, <1>2 DEF PlaceInv, PopSound
<1>. QED
    BY <1>2, <1>6, <1>7, <1>8, <1>9 DEF PlaceInv

LEMMA PlacesHandOver ==
  ASSUME PlaceInv, TypeOK', NEW t \in Threads, NEW v \in Threads \ {t}, NEW b \in Blocks,
         HandOver(t, v, b)
  PROVE  PlaceInv'
<1>1. /\ UNCHANGED <<free_head, next, pc, blk, succ>>
      /\ b \in held[t]
      /\ \A u \in Threads : held'[u] = IF u = t THEN held[t] \ {b}
                                       ELSE IF u = v THEN held[v] \cup {b} ELSE held[u]
    BY DEF HandOver, PlaceInv, TypeOK
<1>2. FreeBlocks' = FreeBlocks /\ Chained'
    BY <1>1, NewList DEF PlaceInv, Chained
<1>3. HeldApart'
    BY <1>1, <1>2 DEF PlaceInv, HeldApart
<1>4. PushedApart'
    BY <1>1, <1>2 DEF PlaceInv, PushedApart, PushingBlock
<1>5. NoneMissing'
    BY <1>1, <1>2 DEF PlaceInv, NoneMissing, PushingBlock
<1>6. PopSound'
    BY <1>1, <1>2 DEF PlaceInv, PopSound
<1>. QED
    BY <1>2, <1>3, <1>4, <1>5, <1>6 DEF PlaceInv

\* push, up to the exchange: the link it writes is that of a block which is not
\* on the list (memory_pool.h:45-51).
LEMMA PlacesLink ==
  ASSUME PlaceInv, TypeOK', NEW t \in Threads, Link(t) \/ PushRetry(t)
  PROVE  PlaceInv'
<1>1. /\ UNCHANGED <<free_head, held, blk>>
      /\ pc[t] \in {"link", "push"} /\ pc'[t] \in {"link", "push"}
      /\ \A u \in Threads \ {t} : pc'[u] = pc[u] /\ succ'[u] = succ[u]
      /\ \A c \in Blocks \ {blk[t]} : next'[c] = next[c]
    BY DEF Link, PushRetry, PlaceInv, TypeOK
<1>2. FreeBlocks \subseteq Blocks
    BY ListMembers DEF PlaceInv, Chained
<1>3. blk[t] \notin FreeBlocks
    BY <1>1 DEF PlaceInv, PushedApart, PushingBlock
<1>4. \A c \in FreeBlocks : next'[c] = next[c]
    BY <1>1, <1>2, <1>3
<1>5. FreeBlocks' = FreeBlocks /\ Chained'
  <2>1. IsList(FreeBlocks, free_head, next')
      BY <1>4, ListLink DEF PlaceInv, Chained
  <2>. QED
      BY <1>1, <2>1, NewList
<1>6. \A u \in Threads : PushingBlock(u)' <=> PushingBlock(u)
    BY <1>1 DEF PushingBlock
<1>7. HeldApart'
    BY <1>1, <1>5 DEF PlaceInv, HeldApart
<1>8. PushedApart'
    BY <1>1, <1>5, <1>6 DEF PlaceInv, PushedApart
<1>9. NoneMissing'
    BY <1>1, <1>5, <1>6 DEF PlaceInv, NoneMissing
<1>10. PopSound'
    BY <1>1, <1>4, <1>5 DEF PlaceInv, PopSound
<1>. QED
    BY <1>5, <1>7, <1>8, <1>9, <1>10 DEF PlaceInv

\* The exchange of push: the block is on the list (memory_pool.h:48-50).
LEMMA PlacesPush ==
  ASSUME PlaceInv, TypeOK', NEW t \in Threads, PushCas(t)
  PROVE  PlaceInv'
<1> DEFINE b == blk[t]
<1>1. /\ pc[t] = "push" /\ pc'[t] = "idle" /\ free_head = next[b] /\ free_head' = b
      /\ UNCHANGED <<next, held>>
      /\ \A u \in Threads \ {t} : pc'[u] = pc[u] /\ blk'[u] = blk[u] /\ succ'[u] = succ[u]
      /\ b \in Blocks
    BY DEF PushCas, PlaceInv, TypeOK
<1>2. /\ b \notin FreeBlocks
      /\ \A u \in Threads : b \notin held[u]
      /\ \A u \in Threads : PushingBlock(u) /\ blk[u] = b => u = t
    BY <1>1 DEF PlaceInv, PushedApart, PushingBlock
<1> HIDE DEF b
<1>3. FreeBlocks' = FreeBlocks \cup {b} /\ Chained'
  <2>1. IsList(FreeBlocks \cup {b}, b, next)
      BY <1>1, <1>2, ListPush DEF PlaceInv, Chained
  <2>. QED
      BY <1>1, <2>1, NewList
<1>4. /\ ~PushingBlock(t)'
      /\ \A u \in Threads \ {t} : PushingBlock(u)' <=> PushingBlock(u)
    BY <1>1 DEF PushingBlock
<1>5. HeldApart'
    BY <1>1, <1>2, <1>3 DEF PlaceInv, HeldApart
<1>6. PushedApart'
    BY <1>1, <1>2, <1>3, <1>4 DEF PlaceInv, PushedApart
<1>7. NoneMissing'
  <2>1. SUFFICES ASSUME NEW c \in Blocks, c # b
                 PROVE  \/ c \in FreeBlocks'
                        \/ \E u \in Threads : c \in held'[u]
                        \/ \E u \in Threads : PushingBlock(u)' /\ blk'[u] = c
      BY <1>3 DEF NoneMissing
  <2>2. \/ c \in FreeBlocks
        \/ \E u \in Threads : c \in held[u]
        \/ \E u \in Threads \ {t} : PushingBlock(u) /\ blk[u] = c
      BY <2>1 DEF PlaceInv, NoneMissing, b
  <2>. QED
      BY <1>1, <1>3, <1>4, <2>2
<1>8. PopSound'
    BY <1>1, <1>3 DEF PlaceInv, PopSound
<1>. QED
    BY <1>3, <1>5, <1>6, <1>7, <1>8 DEF PlaceInv

LEMMA PlacesStep == ASSUME OneAcquirer PROVE PlaceInv /\ [Next]_vars => PlaceInv'
<1> SUFFICES ASSUME PlaceInv, [Next]_vars PROVE PlaceInv'
    OBVIOUS
<1>1. TypeOK'
    BY PoolTypeStep DEF PlaceInv
<1>2. CASE UNCHANGED vars
  <2>1. FreeBlocks' = FreeBlocks /\ Chained'
      BY <1>2, NewList DEF PlaceInv, Chained, vars
  <2>. QED
      BY <1>1, <1>2, <2>1
         DEF PlaceInv, HeldApart, PushedApart, NoneMissing, PopSound, PushingBlock, vars
<1>. QED
    BY <1>1, <1>2, PlacesAcquire, PlacesPop, PlacesRelease, PlacesHandOver, PlacesLink,
       PlacesPush DEF Next, Step

\* While one thread acquires, and any number release and pass blocks on, each
\* block is in exactly one place, for every size of the pool
\* (memory_pool.h:45-61).
THEOREM BlocksAreInOnePlace == ASSUME OneAcquirer PROVE Spec => []EachBlockOnce
<1>1. ASSUME PlaceInv PROVE EachBlockOnce
  <2>1. FreeBlocks \subseteq Blocks /\ FreeList[Cardinality(Blocks)] = Null
      BY <1>1, ListMembers, FreeListIsLinks DEF PlaceInv, Chained, N
  <2>2. /\ \A b : b \in InUse <=> \E t \in Threads : b \in held[t]
        /\ \A b : b \in Pushing <=> \E t \in Threads : PushingBlock(t) /\ blk[t] = b
      BY DEF InUse, Pushing, PushingBlock
  <2>3. \A t \in Threads : held[t] \subseteq Blocks /\ (PushingBlock(t) => blk[t] \in Blocks)
      BY <1>1 DEF PlaceInv, TypeOK, PushingBlock
  <2>4. \A t, u \in Threads : t # u => held[t] \cap held[u] = {}
      BY <1>1 DEF PlaceInv, HeldApart
  <2>5. FreeBlocks \cap InUse = {} /\ FreeBlocks \cap Pushing = {} /\ InUse \cap Pushing = {}
      BY <1>1, <2>2 DEF PlaceInv, HeldApart, PushedApart
  <2>6. FreeBlocks \cup InUse \cup Pushing = Blocks
      BY <1>1, <2>1, <2>2, <2>3 DEF PlaceInv, NoneMissing
  <2>. QED
      BY <2>1, <2>4, <2>5, <2>6 DEF EachBlockOnce
<1>2. PlaceInv /\ [Next]_vars => PlaceInv'
    BY PlacesStep
<1>. QED
    BY <1>1, <1>2, InitPlaces, PTL DEF Spec

=============================================================================
