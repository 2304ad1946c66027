----------------------------- MODULE MemoryPool -----------------------------
(***************************************************************************)
(* include/memory_pool.h: a Treiber stack of free blocks, shared by        *)
(* threads.  One action per access to shared memory.                       *)
(*                                                                         *)
(* The threads that use the pool are the environment: which of them        *)
(* acquire, how many blocks one may hold, and whether blocks pass from one *)
(* thread to another are parameters.  Each releases only blocks it holds.  *)
(***************************************************************************)
EXTENDS Integers, FiniteSets

CONSTANTS
    Blocks,        \* storage_
    Threads,
    Null,          \* nullptr
    Acquirers,     \* the threads that call acquire
    MaxHeld,       \* bound on the blocks one thread holds
    HandOvers,     \* whether a block may be handed to another thread
    Spurious       \* whether compare_exchange_weak may fail without a reason

ASSUME PoolAssumption ==
    /\ IsFiniteSet(Blocks)
    /\ Null \notin Blocks \cup Threads
    /\ Acquirers \subseteq Threads
    /\ MaxHeld \in Nat
    /\ HandOvers \in BOOLEAN
    /\ Spurious \in BOOLEAN

VARIABLES
    free_head,
    next,        \* blk->next of every block
    held,        \* the blocks that each thread was given and has not released
    pc,          \* where each thread is
    blk,         \* pop's head, or push's blk
    succ         \* pop's head->next, or push's new blk->next, as it was read

vars == <<free_head, next, held, pc, blk, succ>>

\* The free list, followed from free_head for as many links as there are blocks.
FreeList ==
    LET nth[i \in 0 .. Cardinality(Blocks)] ==
            IF i = 0 THEN free_head
            ELSE IF nth[i - 1] = Null THEN Null ELSE next[nth[i - 1]]
    IN  nth

FreeBlocks == {FreeList[i] : i \in 0 .. Cardinality(Blocks)} \ {Null}

-----------------------------------------------------------------------------

\* The constructor has pushed every block, in some order.
Init ==
    /\ free_head \in Blocks \cup {Null}
    /\ next \in [Blocks -> Blocks \cup {Null}]
    /\ FreeBlocks = Blocks
    /\ FreeList[Cardinality(Blocks)] = Null
    /\ held = [t \in Threads |-> {}]
    /\ pc = [t \in Threads |-> "idle"]
    /\ blk = [t \in Threads |-> Null]
    /\ succ = [t \in Threads |-> Null]

\* A pop that does not test whether there is a block.
AcquireUnchecked(t) ==
    /\ pc[t] = "idle"
    /\ t \in Acquirers
    /\ Cardinality(held[t]) < MaxHeld
    /\ blk' = [blk EXCEPT ![t] = free_head]
    /\ pc' = [pc EXCEPT ![t] = "pop"]
    /\ UNCHANGED <<free_head, next, held, succ>>

\* acquire() calls pop(), which loads free_head_; an empty pool gives nullptr.
acquire(t) ==
    /\ pc[t] = "idle"
    /\ t \in Acquirers
    /\ Cardinality(held[t]) < MaxHeld
    /\ free_head # Null
    /\ blk' = [blk EXCEPT ![t] = free_head]
    /\ pc' = [pc EXCEPT ![t] = "pop"]
    /\ UNCHANGED <<free_head, next, held, succ>>

\* head->next is read for the third argument of the exchange.
ReadNext(t) ==
    /\ pc[t] = "pop"
    /\ succ' = [succ EXCEPT ![t] = next[blk[t]]]
    /\ pc' = [pc EXCEPT ![t] = "popcas"]
    /\ UNCHANGED <<free_head, next, held, blk>>

\* The exchange takes the block, whose caller now holds it.
PopCas(t) ==
    /\ pc[t] = "popcas"
    /\ free_head = blk[t]
    /\ free_head' = succ[t]
    /\ held' = [held EXCEPT ![t] = @ \cup {blk[t]}]
    /\ blk' = [blk EXCEPT ![t] = Null]
    /\ succ' = [succ EXCEPT ![t] = Null]
    /\ pc' = [pc EXCEPT ![t] = "idle"]
    /\ UNCHANGED next

\* An exchange that fails and does not look at free_head_ again.
PopRetryBlind(t) ==
    /\ pc[t] = "popcas"
    /\ free_head # blk[t] \/ Spurious
    /\ blk' = blk
    /\ succ' = [succ EXCEPT ![t] = Null]
    /\ pc' = [pc EXCEPT ![t] = "pop"]
    /\ UNCHANGED <<free_head, next, held>>

\* A failed exchange loads free_head_ again; a pool found empty gives nullptr.
PopRetry(t) ==
    /\ pc[t] = "popcas"
    /\ free_head # blk[t] \/ Spurious
    /\ blk' = [blk EXCEPT ![t] = free_head]
    /\ succ' = [succ EXCEPT ![t] = Null]
    /\ pc' = [pc EXCEPT ![t] = IF free_head = Null THEN "idle" ELSE "pop"]
    /\ UNCHANGED <<free_head, next, held>>

\* release() calls push(), which loads free_head_ ...
release(t, b) ==
    /\ pc[t] = "idle"
    /\ b \in held[t]
    /\ held' = [held EXCEPT ![t] = @ \ {b}]
    /\ blk' = [blk EXCEPT ![t] = b]
    /\ succ' = [succ EXCEPT ![t] = free_head]
    /\ pc' = [pc EXCEPT ![t] = "link"]
    /\ UNCHANGED <<free_head, next>>

\* ... and stores it in blk->next.
Link(t) ==
    /\ pc[t] = "link"
    /\ next' = [next EXCEPT ![blk[t]] = succ[t]]
    /\ succ' = [succ EXCEPT ![t] = Null]
    /\ pc' = [pc EXCEPT ![t] = "push"]
    /\ UNCHANGED <<free_head, held, blk>>

\* A push that does not compare before it stores.
PushStore(t) ==
    /\ pc[t] = "push"
    /\ free_head' = blk[t]
    /\ blk' = [blk EXCEPT ![t] = Null]
    /\ pc' = [pc EXCEPT ![t] = "idle"]
    /\ UNCHANGED <<next, held, succ>>

\* The exchange puts the block on the free list.
PushCas(t) ==
    /\ pc[t] = "push"
    /\ free_head = next[blk[t]]
    /\ free_head' = blk[t]
    /\ blk' = [blk EXCEPT ![t] = Null]
    /\ pc' = [pc EXCEPT ![t] = "idle"]
    /\ UNCHANGED <<next, held, succ>>

\* A failed exchange stores what it found in blk->next, and is tried again.
PushRetry(t) ==
    /\ pc[t] = "push"
    /\ free_head # next[blk[t]] \/ Spurious
    /\ succ' = [succ EXCEPT ![t] = free_head]
    /\ pc' = [pc EXCEPT ![t] = "link"]
    /\ UNCHANGED <<free_head, next, held, blk>>

\* A thread gives a block to another one.
HandOver(t, u, b) ==
    /\ HandOvers
    /\ pc[t] = "idle"
    /\ b \in held[t]
    /\ held' = [held EXCEPT ![t] = @ \ {b}, ![u] = @ \cup {b}]
    /\ UNCHANGED <<free_head, next, pc, blk, succ>>

-----------------------------------------------------------------------------

Step(t) ==
    \/ ReadNext(t) \/ PopCas(t) \/ PopRetry(t)
    \/ Link(t) \/ PushCas(t) \/ PushRetry(t)

Next ==
    \E t \in Threads :
        \/ acquire(t)
        \/ Step(t)
        \/ \E b \in Blocks : \/ release(t, b)
                             \/ \E u \in Threads \ {t} : HandOver(t, u, b)

Spec == Init /\ [][Next]_vars

\* As long as threads are inside calls some of them run; any one may be
\* suspended for ever, at any point of a call.
FairSpec == Spec /\ WF_vars(\E t \in Threads : Step(t))

-----------------------------------------------------------------------------
(* Properties.                                                             *)

\* Each variable keeps its type, and pop never follows a null pointer.
TypeOK ==
    /\ free_head \in Blocks \cup {Null}
    /\ next \in [Blocks -> Blocks \cup {Null}]
    /\ held \in [Threads -> SUBSET Blocks]
    /\ pc \in [Threads -> {"idle", "pop", "popcas", "link", "push"}]
    /\ blk \in [Threads -> Blocks \cup {Null}]
    /\ succ \in [Threads -> Blocks \cup {Null}]
    /\ \A t \in Threads : pc[t] # "idle" => blk[t] # Null

Pushing == {blk[t] : t \in {u \in Threads : pc[u] \in {"link", "push"}}}

InUse == UNION {held[t] : t \in Threads}

\* Each block is at every moment in exactly one place: on the free list, in the
\* hands of one thread, or on its way back.  No block is given out twice and
\* none is lost, as "a lock-free Treiber stack of fixed-size blocks [...] for
\* future use with multiple concurrent connections" promises (docs/DESIGN.md:132).
EachBlockOnce ==
    /\ \A t, u \in Threads : t # u => held[t] \cap held[u] = {}
    /\ FreeBlocks \cap InUse = {}
    /\ FreeBlocks \cap Pushing = {}
    /\ InUse \cap Pushing = {}
    /\ FreeBlocks \cup InUse \cup Pushing = Blocks
    /\ FreeList[Cardinality(Blocks)] = Null

\* A call returns.
Returns == \E t \in Threads : pc[t] # "idle" /\ pc'[t] = "idle"

\* An exchange that finds what it expects and fails all the same.
FailsSpuriously ==
    \E t \in Threads :
        \/ pc[t] = "popcas" /\ free_head = blk[t] /\ pc'[t] = "pop"
        \/ pc[t] = "push" /\ free_head = next[blk[t]] /\ pc'[t] = "link"

\* The pool is lock-free (docs/DESIGN.md:132): as long as some thread is inside
\* a call and some thread runs, calls keep returning, though perhaps not that
\* thread's, whichever threads stop for ever in the middle of theirs; unless
\* exchanges never stop failing without a reason.
LockFree ==
    /\ <>[](\E t \in Threads : pc[t] # "idle")
    /\ <>[][~FailsSpuriously]_vars
    => []<><<Returns>>_vars

=============================================================================
