---------------------------- MODULE SymbolCache ----------------------------
(***************************************************************************)
(* The seqlock of include/cache.h: one MarketState per symbol, written by  *)
(* the network thread (update_bid / update_ask / update_quote /            *)
(* update_trade) and copied by any number of reader threads                *)
(* (get_snapshot).  One action per access to shared memory; the plain      *)
(* stores between begin_write and end_write, and the plain loads of        *)
(* `snap = s', happen in any order, because nothing in the code orders     *)
(* them among themselves.  Accesses are otherwise sequentially consistent. *)
(*                                                                         *)
(* Prices, quantities and timestamps are abstracted to the number of the   *)
(* update that stored them, so two updates never store the same value and  *)
(* a mixture of two of them is always visible.  update_count needs no      *)
(* abstraction.  The reader's copy of `version' itself, which no caller    *)
(* looks at, is left out.                                                  *)
(***************************************************************************)
EXTENDS Integers, Sequences

CONSTANTS
    Symbols,      \* indices into states_
    Readers,      \* threads that call get_snapshot
    Fields,       \* the members of MarketState that are kept
    VersionMod,   \* 2^32 in the code: version is a uint32_t
    MaxUpdates    \* bound on the updates of one symbol

MarketState == {"best_bid", "best_ask", "bid_quantity", "ask_quantity",
                "last_traded_price", "last_traded_quantity",
                "last_update_time", "update_count"}

ASSUME FieldsAssumption == Fields \subseteq MarketState

ASSUME VersionAssumption ==
    VersionMod \in Nat /\ VersionMod > 2 /\ VersionMod % 2 = 0

ASSUME BoundAssumption == MaxUpdates \in Nat

VARIABLES
    version,    \* states_[s].version
    mem,        \* the other members of states_[s]
    wpc,        \* network thread: "idle" or, inside an update, "store"
    wsym,       \* the symbol under update
    wtodo,      \* the members the update still has to store
    rpc,        \* readers: "idle", "load1", "copy", "check"
    rsym,       \* the argument of get_snapshot
    v1, v2,     \* its local variables
    snap,
    rtodo,      \* the members `snap = s' still has to copy
    shown,      \* what get_snapshot last returned, per reader and symbol
    \* History variables, which no guard reads:
    hist,       \* hist[s]: the states that completed updates of s left
    start,      \* Len(hist) when the reader's call began
    during      \* changes of version between the two loads of an iteration

writerVars == <<wpc, wsym, wtodo>>
readerVars == <<rpc, rsym, v1, v2, snap, rtodo, shown, start>>
vars == <<version, mem, writerVars, readerVars, hist, during>>

Zero == [f \in Fields |-> 0]

Odd(v) == v % 2 = 1

-----------------------------------------------------------------------------

Init ==
    /\ version = [s \in Symbols |-> 0]
    /\ mem = [s \in Symbols |-> Zero]
    /\ wpc = "idle"
    /\ wsym \in Symbols
    /\ wtodo = {}
    /\ rpc = [r \in Readers |-> "idle"]
    /\ rsym \in [Readers -> Symbols]
    /\ v1 = [r \in Readers |-> 0]
    /\ v2 = [r \in Readers |-> 0]
    /\ snap = [r \in Readers |-> Zero]
    /\ rtodo = [r \in Readers |-> {}]
    /\ shown = [r \in Readers |-> [s \in Symbols |-> Zero]]
    /\ hist = [s \in Symbols |-> <<Zero>>]
    /\ start = [r \in Readers |-> 1]
    /\ during = [r \in Readers |-> 0]

-----------------------------------------------------------------------------
(* The writer: the network thread inside one of the update functions.      *)

\* A version of unlimited width.
FetchAddUnbounded(s) ==
    /\ version' = [version EXCEPT ![s] = @ + 1]
    /\ during' = [r \in Readers |-> IF rpc[r] = "copy" /\ rsym[r] = s
                                    THEN during[r] + 1 ELSE during[r]]

\* version.fetch_add(1), which wraps.
FetchAddVersion(s) ==
    /\ version' = [version EXCEPT ![s] = IF @ = VersionMod - 1 THEN 0 ELSE @ + 1]
    /\ during' = [r \in Readers |-> IF rpc[r] = "copy" /\ rsym[r] = s
                                    THEN during[r] + 1 ELSE during[r]]

\* A change of the state that version does not show.
SilentBegin(s) == UNCHANGED <<version, during>>

begin_write(s) == FetchAddVersion(s)

end_write(s) == FetchAddVersion(s)

Update(s, members) ==
    /\ wpc = "idle"
    /\ Len(hist[s]) <= MaxUpdates
    /\ begin_write(s)
    /\ wpc' = "store"
    /\ wsym' = s
    /\ wtodo' = members \cap Fields
    /\ UNCHANGED <<mem, readerVars, hist>>

update_bid(s) ==
    Update(s, {"best_bid", "bid_quantity", "last_update_time", "update_count"})

update_ask(s) ==
    Update(s, {"best_ask", "ask_quantity", "last_update_time", "update_count"})

update_quote(s) ==
    Update(s, {"best_bid", "bid_quantity", "best_ask", "ask_quantity",
               "last_update_time", "update_count"})

update_trade(s) ==
    Update(s, {"last_traded_price", "last_traded_quantity",
               "last_update_time", "update_count"})

\* One of the plain stores.  Len(hist[s]) is the number of this update.
StoreMember(f) ==
    /\ wpc = "store"
    /\ f \in wtodo
    /\ mem' = [mem EXCEPT ![wsym][f] =
                 IF f = "update_count" THEN @ + 1 ELSE Len(hist[wsym])]
    /\ wtodo' = wtodo \ {f}
    /\ UNCHANGED <<version, wpc, wsym, readerVars, hist, during>>

FinishUpdate ==
    /\ wpc = "store"
    /\ wtodo = {}
    /\ end_write(wsym)
    /\ hist' = [hist EXCEPT ![wsym] = Append(@, mem[wsym])]
    /\ wpc' = "idle"
    /\ UNCHANGED <<mem, wsym, wtodo, readerVars>>

-----------------------------------------------------------------------------
(* The readers: get_snapshot.                                              *)

\* Entry: a default-constructed snap, and v2 = 0.
get_snapshot(r, s) ==
    /\ rpc[r] = "idle"
    /\ rpc' = [rpc EXCEPT ![r] = "load1"]
    /\ rsym' = [rsym EXCEPT ![r] = s]
    /\ v2' = [v2 EXCEPT ![r] = 0]
    /\ snap' = [snap EXCEPT ![r] = Zero]
    /\ start' = [start EXCEPT ![r] = Len(hist[s])]
    /\ UNCHANGED <<version, mem, writerVars, v1, rtodo, shown, hist, during>>

\* v1 = version.load(); an odd value `continue's, which in a do-while goes
\* to the loop condition and not to the top of the body.
LoadV1(r) ==
    /\ rpc[r] = "load1"
    /\ LET v == version[rsym[r]] IN
         /\ v1' = [v1 EXCEPT ![r] = v]
         /\ rpc' = [rpc EXCEPT ![r] = IF Odd(v) THEN "check" ELSE "copy"]
         /\ rtodo' = [rtodo EXCEPT ![r] = IF Odd(v) THEN {} ELSE Fields]
    /\ during' = [during EXCEPT ![r] = 0]
    /\ UNCHANGED <<version, mem, writerVars, rsym, v2, snap, shown, hist, start>>

\* One of the plain loads of `snap = s' (MarketState::operator=).
CopyMember(r, f) ==
    /\ rpc[r] = "copy"
    /\ f \in rtodo[r]
    /\ snap' = [snap EXCEPT ![r][f] = mem[rsym[r]][f]]
    /\ rtodo' = [rtodo EXCEPT ![r] = @ \ {f}]
    /\ UNCHANGED <<version, mem, writerVars, rpc, rsym, v1, v2, shown, hist,
                   start, during>>

\* The second load taken before the copy is complete.
LoadV2Early(r) ==
    /\ rpc[r] = "copy"
    /\ v2' = [v2 EXCEPT ![r] = version[rsym[r]]]
    /\ rpc' = [rpc EXCEPT ![r] = "check"]
    /\ UNCHANGED <<version, mem, writerVars, rsym, v1, snap, rtodo, shown,
                   hist, start, during>>

LoadV2(r) ==
    /\ rpc[r] = "copy"
    /\ rtodo[r] = {}
    /\ v2' = [v2 EXCEPT ![r] = version[rsym[r]]]
    /\ rpc' = [rpc EXCEPT ![r] = "check"]
    /\ UNCHANGED <<version, mem, writerVars, rsym, v1, snap, rtodo, shown,
                   hist, start, during>>

\* while (v1 != v2)
Retry(r) ==
    /\ rpc[r] = "check"
    /\ v1[r] # v2[r]
    /\ rpc' = [rpc EXCEPT ![r] = "load1"]
    /\ UNCHANGED <<version, mem, writerVars, rsym, v1, v2, snap, rtodo, shown,
                   hist, start, during>>

\* A loop left on an odd version whatever v2 is.
ReturnOnOdd(r) ==
    /\ rpc[r] = "check"
    /\ v1[r] = v2[r] \/ Odd(v1[r])
    /\ rpc' = [rpc EXCEPT ![r] = "idle"]
    /\ shown' = [shown EXCEPT ![r][rsym[r]] = snap[r]]
    /\ UNCHANGED <<version, mem, writerVars, rsym, v1, v2, snap, rtodo, hist,
                   start, during>>

Return(r) ==
    /\ rpc[r] = "check"
    /\ v1[r] = v2[r]
    /\ rpc' = [rpc EXCEPT ![r] = "idle"]
    /\ shown' = [shown EXCEPT ![r][rsym[r]] = snap[r]]
    /\ UNCHANGED <<version, mem, writerVars, rsym, v1, v2, snap, rtodo, hist,
                   start, during>>

-----------------------------------------------------------------------------

FinishWrite == FinishUpdate \/ \E f \in Fields : StoreMember(f)

WriterNext ==
    \/ \E s \in Symbols : \/ update_bid(s)
                          \/ update_ask(s)
                          \/ update_quote(s)
                          \/ update_trade(s)
    \/ FinishWrite

ReaderLoop(r) ==
    \/ LoadV1(r)
    \/ \E f \in Fields : CopyMember(r, f)
    \/ LoadV2(r)
    \/ Retry(r)
    \/ Return(r)

ReaderNext(r) == ReaderLoop(r) \/ \E s \in Symbols : get_snapshot(r, s)

Next == WriterNext \/ \E r \in Readers : ReaderNext(r)

Spec == Init /\ [][Next]_vars

\* Both threads are runnable whenever they are inside a call, and the
\* scheduler keeps running runnable threads.  Nothing obliges the feed to
\* bring another update, or a reader to call again.
FairSpec ==
    /\ Spec
    /\ WF_vars(FinishWrite)
    /\ \A r \in Readers : WF_vars(ReaderLoop(r))

-----------------------------------------------------------------------------
(* Properties.                                                             *)

States == [Fields -> Nat]

\* Each variable keeps its type; version stays within its width.
TypeOK ==
    /\ version \in [Symbols -> 0 .. VersionMod - 1]
    /\ mem \in [Symbols -> States]
    /\ wpc \in {"idle", "store"}
    /\ wsym \in Symbols
    /\ wtodo \in SUBSET Fields
    /\ rpc \in [Readers -> {"idle", "load1", "copy", "check"}]
    /\ rsym \in [Readers -> Symbols]
    /\ v1 \in [Readers -> 0 .. VersionMod - 1]
    /\ v2 \in [Readers -> 0 .. VersionMod - 1]
    /\ snap \in [Readers -> States]
    /\ rtodo \in [Readers -> SUBSET Fields]
    /\ shown \in [Readers -> [Symbols -> States]]
    /\ hist \in [Symbols -> Seq(States)]
    /\ \A s \in Symbols : Len(hist[s]) >= 1
    /\ start \in [Readers -> Nat \ {0}]
    /\ during \in [Readers -> Nat]

\* snap[r] is the state that some update of the symbol left, and not one
\* that had been overwritten before the call began.
Linearizable(r) ==
    \E k \in start[r] .. Len(hist[rsym[r]]) : snap[r] = hist[rsym[r]][k]

Returning(r) == rpc[r] = "check" /\ v1[r] = v2[r]

\* A get_snapshot that leaves its loop on two equal even versions returns a
\* state the writer really published during the call, never a mixture of
\* two updates, unless version went through its whole range between the
\* two loads (cache.h:96-101).
EvenExitLinearizable ==
    \A r \in Readers :
        Returning(r) /\ ~Odd(v1[r]) /\ during[r] < VersionMod => Linearizable(r)

\* No get_snapshot returns a mixture of two updates: "Single writer,
\* multiple reader threads - should never see torn state"
\* (tests/test_cache.cpp:52).
NoTornSnapshot == \A r \in Readers : Returning(r) => Linearizable(r)

\* Successive snapshots that one thread takes of one symbol never go back
\* in time in any member, so the update count the dashboard shows never
\* decreases - not even over the torn snapshots that the loop lets through
\* (get_snapshot always returns members copied during this very call).
MonotonicReads ==
    [][\A r \in Readers, s \in Symbols, f \in Fields :
          shown'[r][s][f] >= shown[r][s][f]]_vars

\* While no update of a symbol is in progress, update_count is the number of
\* updates made (each update bumps it exactly once, between the two version
\* changes) and version is twice that, modulo its range.
CountMatchesVersion ==
    \A s \in Symbols :
        ~(wpc = "store" /\ wsym = s) =>
            /\ "update_count" \in Fields => mem[s]["update_count"] = Len(hist[s]) - 1
            /\ version[s] = (2 * (Len(hist[s]) - 1)) % VersionMod

\* Every call of get_snapshot returns, once the feed pauses: the reader spins
\* only while the writer is inside an update (cache.h:96-101).
SnapshotReturns ==
    \A r \in Readers : rpc[r] # "idle" ~> rpc[r] = "idle"

=============================================================================
