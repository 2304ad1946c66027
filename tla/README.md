# TLA+ verification of the market data handler

This directory models the market data handler (`src/market_data_handler`): a
server that simulates an exchange and broadcasts ticks over TCP, and a client
that reassembles the stream, keeps the latest state of every symbol in a cache
and shows it on a dashboard. Paths below are relative to
`src/market_data_handler`.

## 1. The system

```
 server process                                     client process
 ┌────────────────────────────────┐   TCP    ┌────────────────────────────────────┐
 │ ExchangeSimulator::run         │ ───────> │ main: RetrySocket, MarketDataSocket │
 │  epoll, accept, ticks,         │          │   │ recv                            │
 │  broadcast, disconnect         │ <─────── │ Parser::feed ── callbacks ──┐       │
 │ TickGenerator                  │ subscr.  │        LatencyTracker  SymbolCache  │
 └────────────────────────────────┘          │ Visualizer thread: reads both       │
                                             └────────────────────────────────────┘
```

| Component | Source | State | Operations | What is hard | What makes it correct |
|---|---|---|---|---|---|
| SymbolCache | `include/cache.h` | one `MarketState` with a version per symbol | `update_*` (network thread), `get_snapshot` (any thread) | readers race the writer without a lock; `version` wraps | a snapshot is one published state; readers never go back; every call returns |
| Parser | `src/client/parser.cpp` | residual bytes, sequence and error counters | `feed`, `reset` | arbitrary fragmentation, damaged and truncated messages, full buffer, wrap of `seq_no` | each message handed over once, in order, at once; gaps counted exactly; `feed` returns |
| Wire protocol | `include/protocol.h` | none | sizes, checksum | what the XOR checksum detects | parser and server agree on sizes |
| ExchangeSimulator | `src/server/exchange_simulator.cpp` | client and slow sets, `seq_no_`, epoll registrations | accept, read, disconnect, tick, heartbeat, broadcast, stop | peers stall, close or reset between any two calls; partial sends; descriptors are reused; edge-triggered events | books agree with the kernel; one slow client costs the others nothing; exactly the gone are dropped |
| Feed handler, sockets | `src/client/feed_handler.cpp`, `socket.cpp` | connection, `connected_`, attempts | connect with retries, subscribe, wait, receive, reconnect, signal | edge-triggered epoll; server restarts; signals | no lost wakeup; sessions do not mix; reconnects; ends on a signal |
| MemoryPool | `include/memory_pool.h` | free list | `acquire`, `release` | lock-free stack, ABA, exhaustion | each block in one place; some call always completes |
| LatencyTracker | `include/latency_tracker.h` | histogram, min, max, sum, count | `record`, `get_stats`, `reset` | recorders race each other and the reader, without a lock; bucket arithmetic at 0 and at the top; wrap of the sum | nothing recorded is lost; the statistics of one call fit together; every call returns |
| Visualizer | `src/client/visualizer.cpp` | thread, message counter | `start`, `stop`, `loop`, `render` | reads three places while the callbacks write them; stop races the thread | figures of one screen fit together; the top rows are the top; the join returns |
| ClientManager | `src/server/client_manager.cpp` | table of clients | add, remove, broadcast | no object of it is created | - |
| TickGenerator | `src/server/tick_generator.cpp` | prices, random state | `make_*` | floating point | - |

Interaction: the server writes bytes to each connection (`broadcast_message`);
the feed handler drains its socket into `Parser::feed`; the parser's callbacks
call `SymbolCache::update_*` and `LatencyTracker::record` on the network
thread; the visualizer thread calls `get_snapshot` and `get_stats`. Nothing is
persisted.

`PROJECT.json` lists the hazards of the code line by line, with the properties
that cover each.

## 2. Modules

Every module is plain TLA+ with one action per operation, or per step that
another actor can interleave with. Definitions keep the names of the source.
Definitions that a comment introduces as a fault ("A loop that ...", "A pop that
does not ...") and that the specification does not use are variants of the
definition that follows them. Each property is shown to be sensitive to one of
them (`mutants` in `PROJECT.json`).

### SymbolCache (`MCSymbolCache`, `SymbolCacheProofs`)

One writer thread, any number of readers. An update is `begin_write` with
`Update`, one `StoreMember` per plain store in any order, and `FinishUpdate` with
`end_write`. `get_snapshot` is its entry, `LoadV1`, one `CopyMember` per member
in any order, `LoadV2`, and `Retry` or `Return`. `LoadV1` on an odd version goes
to the loop *condition*, as `continue` in a do-while does, so `v2` keeps its old
value. A value is the number of the update that stored it. `hist` (published
states), `start` and `during` are history variables.

Abstractions: memory is sequentially consistent up to the order of plain
accesses within an update or a copy. Reorderings that the C++ memory model
allows across the fences, and the data race on plain members as undefined
behaviour, are not modelled. The copy of `version` in a snapshot is not kept:
nobody reads it.

### Parser and MessageChannel (`ParserProofs`)

A byte is its position in the stream of its connection, so fragments, residuals,
misaligned reads and truncation are exact while contents stay abstract. `feed`
is the append; `SkipByte`, `BadChecksum`, `Dispatch` and `FinishFeed` are the
exits of one iteration. Where the window does not start at a message header,
`HeaderTypes` allows every type. The checksum is ideal: it matches exactly on an
intact message. (The real one is an XOR of 32-bit words and misses some damage.)
`Send` is the server's side: whole messages, or, with `Truncation`, messages cut
short as `broadcast_message` does it on a full buffer. `reset` is the
reconnect: the old connection's bytes are gone. The lengths that `feed` gets are
those that `recv` can return, up to `RecvBufSize`. The call with `SIZE_MAX` that
`feed_handler.cpp:131` makes when `receive` has failed is outside this module:
with a residual, `buf_used_ + len` wraps at `parser.cpp:18`, and `buf_` is
overrun. It is the action `FeedOverlong` of `FeedHandler`.

`MessageChannel` is the abstract specification: a sequence of messages sent and
of indices delivered. `Exact` delivers the next message and no other; `Lossy`
may skip, but neither repeats, reorders nor delivers partial messages. Parser
is shown to implement both, with `sent <- msgs`, `got <- dispatched`.

### ExchangeSimulator (`MCExchangeSimulator`, `ExchangeSimulatorProofs`)

The server thread with its kernel objects. `conn`, `rq`, `space`, `edge` and
`backlog` are the kernel's and the peers' (connection state, unread input, free
send buffer, pending edge, accept queue); `clients`, `slow_clients`, `seq_no`,
`running` and the registrations are the simulator's. The pc follows `run()`:
`wait`, `events`, `tick`, `send`, `second`, `beat`. Each `recv`, `accept4` and
`send` is a step of its own, because peers act between them. A send takes any
number of bytes that fits. `handle_client_disconnect` takes a set, so that the
loop over `to_drop` is one step: nothing it does depends on the peers.

A connection is `open`, `closed` (FIN seen), `probed` (bytes were sent to a
closed peer, whose kernel will answer with a reset) or `reset`. Abstracted: the
clock (a tick and a heartbeat may be due in any round), prices, symbols, and
whether a full accept fails with or without consuming the connection (both).
Two assumptions about the kernel: `send` fails with an error other than `EAGAIN`
only on a reset connection (the code drops the client on any such error, so
`OnlyTheGoneAreDropped` would not hold in a kernel that runs out of memory for
sockets); and `epoll_ctl(ADD)`, whose result is ignored, succeeds.

### FeedHandler (`FeedHandlerProofs`)

The client's main thread with its two socket classes: `Top`, `do_connect` or
`ConnectFails` (with `attempt`), `Subscribe` (and `parser.reset()`),
`LoopTest`, the three outcomes of `epoll_wait`, the three of `receive`, `Pause`.
`held` is the set of connections whose bytes the parser's buffer holds. The result of `receive` passes through `size_t`, as in
`feed_handler.cpp:127`. The model follows the definition in `socket.cpp:94`
(`ssize_t`); `socket.h:16` declares `size_t`, which does not compile with it, and
either repair leaves the conversion in `feed_handler.cpp:127`.

`FeedOverlong` is the call of `feed` with `SIZE_MAX`. With an empty `buf_` it copies
`sizeof(buf_)` bytes from `recv_buf` and from the memory behind it, which is
undefined: the process dies, or parses what `recv_buf`, which is made once and
never cleared, still holds of any connection so far, keeps some of it and
receives again. With a residual
the test at `parser.cpp:18` wraps, `memcpy` gets the full length, and the process
dies. `SessionsSeparate` is therefore stated for the time a connection is
received from (`connected`); afterwards it is false.

### Client (`ClientProofs`)

The whole client program: `Client` extends `FeedHandler` with the callbacks and
the dashboard thread. `Loop` is any step of the main loop outside `feed`; `Feed`
is a `receive` whose bytes hold `k` messages (after a failed one, those in stale
bytes of `recv_buf`, which are handed over again), which `on_message` (`on_trade` and
`on_quote`: tracker, then `UpdateCache`, then `increment_messages`) and `on_hb`
then hand over one by one. `StopDashboard` and `JoinAndReport` are the end of
`main`. The dashboard is `TestRunning` and the reads of `render` in their order:
a snapshot per symbol (`ReadForRanking`), sort and message counter (`Rank`),
`LoadStats`, a second snapshot per row (`ReadForRow`), `Output`.

Of the cache and the tracker only the counts are kept here, which are single
words: `update_count`, and `count_`, which `record` writes last and `get_stats`
reads first. The order of the snapshots within one loop is free, which includes
the code's order. Ties in the sort go either way. `--no-viz` is an initial state.
Server and client are taken to be started with the same `--symbols`.
A process that dies of the overlong `feed` takes the dashboard with it.

### LatencyTracker (`LatencyTrackerProofs`)

Any number of threads inside `record`, one inside `get_stats`; each atomic
access is a step. `record` is the fetch_add of the bucket; `LoadExtreme`, `Swap`
and `SwapFails` are the loops for `min_` and, with `which`, for `max_`, and
`SwapFails` includes spurious failures; then `AddSum` and `AddCount`. `get_stats`
loads `count_`, `LoadStat` the next three, `ScanBucket` is one iteration of the
scan. Latencies have as many bits as there are buckets, as 64 and 64 in the code,
and the sum wraps at that width. `reset` is called by no program; a test
calls it with no other call in progress, and so does the model. `done` and `counted` are history
variables: the samples recorded, and those of them that were there when
`get_stats` loaded `count_`.

All accesses are relaxed in the code. In the model they take effect in program
order, as they do on x86, where the read-modify-writes of `record` are locked
instructions and loads are not reordered with loads.

### MemoryPool (`MemoryPoolProofs`)

Every thread is inside at most one call; each load, store and exchange on
`free_head_` and `next` is a step. The callers are the environment, described by
`Acquirers`, `MaxHeld` and `HandOvers`.

## 3. Runs

| Run | Expect | Checks | Bounds, and why they are enough |
|---|---|---|---|
| `SymbolCache` | pass | `TypeOK`, `EvenExitLinearizable`, `CountMatchesVersion`, `MonotonicReads`, `SnapshotReturns` | 3 updates with a version range of 4: the version wraps inside a copy; bid, ask and counter cover stores of one side, of both and of neither |
| `SymbolCache_torn` | violation | `NoTornSnapshot` | 2 updates, no wrap |
| `Parser_clean` | pass | `ExactChannel`, `PromptDispatch`, `NothingDiscarded`, `GapsExact`, `EventuallyDispatched` | 3 messages of sizes 3, 4, 5 (header 2), fragments of 1 to 6 bytes, and a buffer of exactly 6 + 5 - 1 bytes, the least for which nothing is discarded; numbers up to 5 with a range of 4 for `seq_no`, so that gaps span the wrap |
| `Parser_damaged` | pass | `TypeOK`, `LossyChannel`, `GapsExact`, `FeedReturns` | the same messages cut at every length, a buffer of 8 bytes that overflows |
| `ExchangeSimulator_safety` | pass | `TypeOK`, `BooksAgree`, `FastClientsMissNothing`, `OnlyTheGoneAreDropped` | 2 interchangeable descriptors (one slow, one fast; reuse), send buffer of 2 with messages of 1 and 2 (partial sends), `seq_no_` wraps at 4, fault injection at every second number |
| `ExchangeSimulator_live` | pass | `GoneClientsAreDropped` | 1 descriptor, 2 unread pieces, so that one recv may leave data in front of the end of file |
| `ExchangeSimulator_framing` | violation | `AllOrNothing` | as above, 1 descriptor |
| `Client` | pass | `TypeOK`, `NoLostWakeup`, `SessionsSeparate`, `DataIsRead`, `StopsOnSignal` of the main loop; `FinalReportComplete`, `ScreenConsistent`, `TopRowsAreTop`, `ProgramEnds` | 2 connections, 2 attempts, 2 pieces unread with a receive buffer of 1: more than one recv per event; 2 messages for 2 symbols of which one fits the screen, so that a screen can be overtaken between any two of its reads |
| `FeedHandler_reconnect` | violation | `Reconnects` | 2 connections |
| `MemoryPool` | pass | `TypeOK`, `EachBlockOnce`, `LockFree` | 3 blocks, 3 threads; one acquires and may empty the pool, all release and hand over; exchanges fail spuriously |
| `MemoryPool_aba` | violation | `EachBlockOnce` | 3 threads that each hold at most one of 3 blocks |
| `LatencyTracker` | pass | `TypeOK`, `NothingLost`, `StatsBracketSamples`, `PercentilesPlaced`, `PercentilesMonotone`, `CallsReturn` | 2 recorders and a reader; 3 buckets with the smallest, the largest and a middle latency, one per bucket; 3 samples, for which the targets of p50 and p95 differ and two recorders race over a third value; the sum wraps |

`CHECK_DEADLOCK FALSE` is used where the program may end: the server after
`stop`, the client after a signal, after its last attempt, or dead. The other
systems cannot stop.

### What the violations show

1. **Torn snapshots** (`cache.h:98`). An iteration copies across the start of an
   update, so `v2` is odd and the condition fails; the next iteration reads the
   same odd `v1`, `continue`s to `while (v1 != v2)`, and returns the mixed copy.
   `tests/test_cache.cpp:52` expects this never to happen.
   `EvenExitLinearizable` shows that this path and a full wrap are the only ones.
2. **Truncated messages** (`exchange_simulator.cpp:206`). A partial send followed
   by `EAGAIN` leaves the beginning of a message in the stream; `docs/NETWORK.md:44`
   speaks of skipping a delivery. `Parser_damaged` shows what this does to the
   client: messages may be lost, never repeated, reordered or mixed.
3. **No reconnect** (`feed_handler.cpp:127`). The error value of `receive`
   becomes a huge length: `feed` reads far beyond `recv_buf`. If the process
   survives it parses bytes of earlier calls a second time, and receives from a
   socket that is not connected, again and again.
4. **ABA** (`memory_pool.h:55`), with three threads and one block each.
Other differences between documents and code were met that have no run of their own.
`docs/NETWORK.md:211` says that a parser overflow resets the state; the code
keeps it and appends what fits (action `feed`), and with the sizes of the feed
handler the case does not arise (`NothingDiscarded`). `docs/QUESTIONS.md:15` says
slow clients are skipped until their buffer drains; `slow_clients_` is never
read (no action's guard mentions `slow_clients`). `docs/NETWORK.md:209` says that
a sequence gap is logged and counted; the comparison `seq > last_seq_ + 1` in
`parser.cpp:53` is between 32-bit numbers, so a gap that spans the wrap of
`seq_no` (unless it begins right at the wrap), and one right behind number 0, is
not. `GapsExact` says what is left:
exact until the wrap, and never too many. `docs/QUESTIONS.md:153-155` says that
bucket `i` covers `[2^(i-1), 2^i)` and that a percentile is reported as the upper
bound of its bucket; `bucket_for` puts `[2^i, 2^(i+1))` into bucket `i` and
`bucket_upper_ns` is `2^i`, the lower end, so that a percentile may be reported
below `min_ns`. The targets are rounded down as well: with a single sample they
are all 0, and every percentile is 1 ns whatever the sample. `PercentilesPlaced`
uses neither the code's labels nor its targets: it says how far the reported
value can be from the exact percentile, namely a factor of two downwards (in the
last bucket upwards) and one rank. The dashboard's "Messages" counts heartbeats and the
"Total messages" of the final report does not; `FinalReportComplete` states the
difference. The mean of `get_stats` may divide a sum by a count that was
loaded before the last samples; nothing is claimed of it.

### Fairness

- `SymbolCache`: a thread inside a call keeps running (weak fairness of the rest
  of an update, and of each reader's loop). The feed need not bring updates, nor
  readers call.
- `Parser`: `feed` runs to its end, and received bytes are fed
  (`feed_handler.cpp:126-132` drains the socket).
- `ExchangeSimulator`: the loop never blocks longer than a millisecond (weak
  fairness of `Loop`); ticks keep falling due, however the rounds fall (strong
  fairness of `generate_and_broadcast`); and the kernel of a gone peer
  answers bytes with a reset. Peers are otherwise free to do nothing.
- `FeedHandler`: no call of the main thread blocks for ever. Nothing is assumed
  of the server. `StopsOnSignal` is stated for a server that stays and goes
  quiet: the inner receive loop does not look at `g_running`, so a server that
  always has more data keeps the client in it, and retries run to their end.
- `Client`: both threads run (weak fairness of each). Nothing is assumed of the
  server, and `ProgramEnds` starts where the main loop has ended.
- `LatencyTracker`: a thread inside a call is scheduled, and an exchange does not
  fail spuriously for ever (weak fairness of `Swap`, which is enabled only while
  the expected value is there). No thread needs to call.
- `MemoryPool`: as long as some thread is inside a call, some thread takes a
  step; any thread may be suspended for ever in the middle of a call. `LockFree`
  excludes exchanges that fail spuriously for ever.

## 4. Proofs

All theorems hold for every value of the constants that satisfies the modules'
assumptions; extra hypotheses are written in the statement. Every invariant and
every action property of the passing runs is stated by a theorem. The inductive
invariants named here also hold on the instances of section 3.

- **SymbolCacheProofs.** `TypeCorrect`, `EvenExitCorrect`, `CountCorrect`,
  `MonotonicReadsCorrect`.
  The exit condition alone is not inductive. `SeqlockInv` adds: a version is odd
  exactly during an update, and outside one memory equals the last published
  state (`WriterInv`); a call began no later than now (`StartInv`); and during a
  copy, `v1` is even, the version is `v1` plus the number of changes since,
  modulo its range, and while that number is 0 everything copied is still
  current (`CopyInv`). Equal versions then mean no change, or the whole range.
  `CountInv` follows version and count through an update, at whose end both are
  where the number of published states puts them.
  `MonotoneInv` is about members one by one, since a torn snapshot is no
  published state: a member only grows, what was shown is not above what is
  there, and what a call has copied is not below what was shown. The last holds
  at every exit because `v2` is odd, so that the exit through `continue` can be
  taken, only after a whole copy of this call. The range of the version plays no
  part in it.
- **ParserProofs.** `TypeCorrect`, and `NeverDiscards` from the bound on the
  residual. `ParserIsLossyChannel` from `OrderInv`: messages lie one
  after the other in the stream, the buffer is increasing, and what is left of
  it lies behind the last message handed over. `GapsCounted` adds that `last_seq_` is the number of the last
  message handed over, kept in 32 bits; two numbers that wrap are no further apart
  than the numbers themselves (`WrappedDistance`), so no gap is counted too large. `ParserIsExactChannel` and `DispatchIsPrompt` (no
  truncation, buffer large enough) rest on `ExactInv`: the buffer is a window of
  the stream that ends at the last byte received, and `offset` is at the start
  of the next message.
- **ExchangeSimulatorProofs.** `TypeCorrect`, `BooksAlwaysAgree`,
  `LiveClientsAreKept`, `FastClientsServed`. `ServerInv` adds to the types and
  `BooksAgree`: batch and broadcast variables are empty outside their phases;
  every event in the batch is still true when it is handled, and there is one per
  descriptor (so a disconnect cannot leave a second event for a reused one); only
  reset connections are in `to_drop`. `DeliveryInv` adds what a fast client has
  received in the middle of a broadcast: everything but the newest message while
  it waits for its turn, all but the rest of that one while it is being sent to,
  and everything afterwards. Descriptors that are no client's have no history,
  so that a reused one starts afresh.
- **FeedHandlerProofs.** `TypeCorrect`, `WakeupsAreNotLost`,
  `SessionsAreSeparate` from `HandlerInv`, which extends the wakeup condition to
  the moment of the subscription and bounds the attempts. Sessions are separate
  because `connected_` is cleared before the overlong `feed` can bring in stale
  bytes and set again only by a connect, after which the parser is reset.
- **ClientProofs.** `ClientIsFeedHandler`: every step of the program is a step of
  `FeedHandler` or leaves its variables alone, so `ClientWakeupsAreNotLost` and
  `ClientSessionsAreSeparate` follow from the theorems about the loop.
  `ScreenShowsTheTop` from `ScreenInv`: a count that was read is not above the
  count that is there, as counts only grow; top comes first in the ranking; and
  a row once read is not below its rank. `FinalReportIsComplete` and
  `ScreenIsConsistent` from `ReportInv`: samples, cache updates and messages
  differ by exactly the steps that the callback under way has still to take, and
  no callback is under way once the loop has ended.
- **LatencyTrackerProofs.** `TypeCorrect`, and `StatsAreBrackets` from
  `BracketInv`: `min_` and `max_` bound every sample counted (`DoneInv`), and that
  of each thread past the one loop or both (`RecordInv`, with: an exchange about
  to be tried would improve on the value it expects, hence only widens the
  bounds); what `get_stats` has loaded bounds the samples counted at its start
  (`StatsInv`). `NoSampleIsLost` from `BooksInv`: a bucket is ahead of the
  samples counted by the threads that are past it and have not counted, the
  wrapped sum by the threads between sum and count, and an extreme is its initial
  value or a latency recorded or being recorded. `PercentilesArePlaced` and
  `PercentilesAreMonotone` from `ScanInv`: the sum of the scan lies between the
  samples counted at the start of the call and what is in the buckets now, a
  percentile is open exactly while that sum is below its target, and the open
  ones are the higher ones. The last bucket closes all, as the buckets hold at
  least what `count_` said. Three lemmas lead from there to `PercentilesPlaced`, which mentions neither
  targets nor buckets' contents: a target is the share rounded down
  (`TargetIsShare`), the buckets up to `b` hold the latencies below `2^(b+1)`
  (`BelowPower`), and their sum is that of the samples counted and under way
  (`BucketsHold`, from `BooksInv`). That each latency has one bucket rests on powers of
  two, which are reasoned about as numbers of subsets.
- **MemoryPoolProofs.** `TypeCorrect`: no null pointer is followed.
  `BlocksAreInOnePlace`, for at most one acquiring thread (`OneAcquirer`;
  `MemoryPool_aba` shows that it is needed): `PlaceInv` says that the links from
  `free_head_` form a chain without repetition that ends in a null pointer, that
  free, held and pushed blocks exclude each other and that none is missing, and
  that the block a pop has loaded is still free with the link it read, as nobody
  else takes blocks away. Pushing and popping keep a chain a chain
  (`ListPush`, `ListPop`); the constructor's list is one by counting its links.
- **SumTheorems.** The facts about sums over finite sets that the counts above
  rest on. Induction over data takes a predicate as a parameter, which the
  provers do not instantiate, so each induction is written out as a minimal
  counterexample: the sets for which the claim fails would have a smallest one.

The proofs assume of the constants what the modules' `ASSUME`s say; beyond
types this is an even version range, messages that have a header, buffers that
hold something, markers that are no members of the sets they mark, and finite sets of symbols (`DashboardAssumption`), threads
(`TrackerAssumption`) and blocks (`PoolAssumption`).

Only model-checked: the liveness properties (`SnapshotReturns`, `FeedReturns`,
`EventuallyDispatched`, `GoneClientsAreDropped`, `DataIsRead`, `StopsOnSignal`,
`LockFree`, `ProgramEnds`, `CallsReturn`), since the prover handles neither
fairness nor `ENABLED`.

## 5. Not modelled

- `TickGenerator`: floating-point prices and random draws; no control depends on
  them.
- `ClientManager`: compiled into the server, but no object of it is created. Its
  table and its partial sends are those of `ExchangeSimulator`.
- Output: drawing, formatting, `export_csv`, `src/common/latency_tracker.cpp`
  (a histogram printer, and `merge_latency_trackers`, a loop of `record` calls
  that nothing calls), `src/common/cache.cpp`.
- The byte layout and the XOR of the checksum: damage that it misses is outside
  `Parser`.
- Weak memory: every module assumes the accesses to take effect in program order
  (up to the plain accesses of a seqlock).
- Options, socket options, delays and backoff times; tests, benchmarks and
  scripts.
- `symbol_id` is not range-checked against the 500 entries of the cache, and the
  server's `--symbols` not against either.

## 6. Plan

Done, in this order: SymbolCache, Parser and MessageChannel, ExchangeSimulator,
FeedHandler, MemoryPool, LatencyTracker, Client, each with its theorems.

No safety property of a passing run is left without a theorem. What remains are
facts in the direction of liveness that need no fairness: that no retry loop
repeats without another thread's step or a spurious failure in between
(`get_snapshot`, the exchanges of `record` and of the pool), and that the
quantities by which `feed` and the drain loop of `handle_client_data` end do go
down.
