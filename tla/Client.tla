------------------------------- MODULE Client -------------------------------
(***************************************************************************)
(* The client program: the main thread of module FeedHandler, the          *)
(* callbacks it hands messages to, and the dashboard thread of             *)
(* src/client/visualizer.cpp, which reads the symbol cache, the latency    *)
(* tracker and the message counter while the callbacks write them.         *)
(*                                                                         *)
(* Of the cache and the tracker only the counts matter here, each a single *)
(* word: update_count of a symbol, and count_, which record changes last   *)
(* and get_stats loads first.  How a snapshot and statistics are read is   *)
(* the subject of modules SymbolCache and LatencyTracker.                  *)
(***************************************************************************)
EXTENDS FeedHandler, FiniteSetsExt

CONSTANTS
    Symbols,       \* the symbols the dashboard has names for
    TopRows,       \* 20: the rows of the dashboard
    MaxMessages    \* bound on the messages handed over

ASSUME DashboardAssumption ==
    /\ TopRows \in Nat
    /\ MaxMessages \in Nat
    /\ IsFiniteSet(Symbols)
    /\ "none" \notin Symbols /\ "count" \notin Symbols   \* values of cb

VARIABLES
    updates,          \* update_count of each symbol
    samples,          \* count_ of the latency tracker
    total_messages,
    \* The main thread: the messages feed still has to hand over; what is left
    \* to do for the current one ("count", or first the update of a symbol);
    \* and the end of main.
    todo, cb, mpc,
    \* The dashboard thread: where render is, the symbols it has yet to read,
    \* and what it has read: update counts for the ranking, the symbols ranked
    \* first, total_messages, sample_count, and the counts for the rows.
    running, vpc, toread, ranking, top, total, sample_count, rows,
    beats             \* history: the heartbeats handed over

callVars == <<todo, cb, mpc, beats>>
countVars == <<updates, samples, total_messages>>
renderVars == <<vpc, toread, ranking, top, total, sample_count, rows>>
dashVars == <<running, renderVars>>
clientVars == <<vars, callVars, countVars, dashVars>>

NoCounts == [s \in Symbols |-> 0]

\* main up to its loop; with --no-viz the dashboard is never started.
ClientInit ==
    /\ Init
    /\ updates = NoCounts
    /\ samples = 0
    /\ total_messages = 0
    /\ todo = 0
    /\ cb = "none"
    /\ mpc = "run"
    /\ beats = 0
    /\ vpc \in {"test", "off"}
    /\ running = (vpc = "test")
    /\ toread = {}
    /\ ranking = NoCounts
    /\ top = {}
    /\ total = 0
    /\ sample_count = 0
    /\ rows = NoCounts

-----------------------------------------------------------------------------
(* The main thread: the loop, and the callbacks inside feed.               *)

InLoop == mpc = "run" /\ todo = 0 /\ cb = "none"

\* Any step of the loop that calls no callback.
Loop ==
    /\ InLoop
    /\ Control
    /\ UNCHANGED <<callVars, countVars, dashVars>>

\* feed finds k messages in what receive returned, or, when the result was -1,
\* in the bytes of earlier calls that recv_buf still holds: these are handed
\* over a second time.
Feed(k) ==
    /\ InLoop
    /\ \/ \E n \in 1 .. RecvBuf : ReceiveAndFeed(n) /\ k <= n
       \/ ReceiveFails /\ (k = 0 \/ pc' = "recv")
    /\ total_messages + k <= MaxMessages
    /\ todo' = k
    /\ UNCHANGED <<cb, mpc, beats, countVars, dashVars>>

\* A callback that updates the cache and forgets the sample.
on_message_unrecorded(s) ==
    /\ cb = "none" /\ todo > 0
    /\ cb' = s
    /\ todo' = todo - 1
    /\ UNCHANGED <<vars, mpc, beats, countVars, dashVars>>

\* A callback that counts the message before it is in the tracker, and again
\* afterwards.
on_message_counted(s) ==
    /\ cb = "none" /\ todo > 0
    /\ samples' = samples + 1
    /\ total_messages' = total_messages + 1
    /\ cb' = s
    /\ todo' = todo - 1
    /\ UNCHANGED <<vars, mpc, beats, updates, dashVars>>

\* on_trade and on_quote: record the latency, update the cache, count the
\* message.  The symbol is one the dashboard has a name for: server and client
\* are started with the same --symbols, which nothing in the code compares.
on_message(s) ==
    /\ cb = "none" /\ todo > 0
    /\ samples' = samples + 1
    /\ cb' = s
    /\ todo' = todo - 1
    /\ UNCHANGED <<vars, mpc, beats, updates, total_messages, dashVars>>

UpdateCache ==
    /\ cb \in Symbols
    /\ updates' = [updates EXCEPT ![cb] = @ + 1]
    /\ cb' = "count"
    /\ UNCHANGED <<vars, todo, mpc, beats, samples, total_messages, dashVars>>

on_hb ==
    /\ cb = "none" /\ todo > 0
    /\ cb' = "count"
    /\ todo' = todo - 1
    /\ beats' = beats + 1
    /\ UNCHANGED <<vars, mpc, countVars, dashVars>>

increment_messages ==
    /\ cb = "count"
    /\ total_messages' = total_messages + 1
    /\ cb' = "none"
    /\ UNCHANGED <<vars, todo, mpc, beats, updates, samples, dashVars>>

-----------------------------------------------------------------------------
(* The main thread: the end of the program.                                *)

StopDashboard ==
    /\ InLoop
    /\ pc = "exit"
    /\ running' = FALSE
    /\ mpc' = "join"
    /\ UNCHANGED <<vars, todo, cb, beats, countVars, renderVars>>

\* The thread has ended, or there was none; then the final report is printed.
JoinAndReport ==
    /\ mpc = "join"
    /\ vpc \in {"done", "off"}
    /\ mpc' = "finished"
    /\ UNCHANGED <<vars, todo, cb, beats, countVars, dashVars>>

-----------------------------------------------------------------------------
(* The dashboard thread.                                                   *)

mainVars == <<vars, callVars, countVars, running>>

\* A thread that raises the flag itself.
TestRaisesFlag ==
    /\ vpc = "test"
    /\ running' = TRUE
    /\ vpc' = "rank"
    /\ toread' = Symbols
    /\ UNCHANGED <<vars, callVars, countVars, ranking, top, total, sample_count, rows>>

\* The condition of the loop; render begins.
TestRunning ==
    /\ vpc = "test"
    /\ vpc' = IF running THEN "rank" ELSE "done"
    /\ toread' = IF running THEN Symbols ELSE {}
    /\ UNCHANGED <<mainVars, ranking, top, total, sample_count, rows>>

\* A snapshot of one symbol, for the ranking.
ReadForRanking(s) ==
    /\ vpc = "rank"
    /\ s \in toread
    /\ ranking' = [ranking EXCEPT ![s] = updates[s]]
    /\ toread' = toread \ {s}
    /\ UNCHANGED <<mainVars, vpc, top, total, sample_count, rows>>

\* A ranking that begins with the least active symbols.
Ascending(T) == \A s \in T, u \in Symbols \ T : ranking[s] <= ranking[u]

\* T may come first in the ranking by update count; ties go either way.
Descending(T) == \A s \in T, u \in Symbols \ T : ranking[s] >= ranking[u]

\* sort and resize; then total_messages_ is loaded.
Rank ==
    /\ vpc = "rank"
    /\ toread = {}
    /\ top' \in kSubset(Min({TopRows, Cardinality(Symbols)}), Symbols)
    /\ Descending(top')
    /\ total' = total_messages
    /\ vpc' = "stats"
    /\ UNCHANGED <<mainVars, toread, ranking, sample_count, rows>>

LoadStats ==
    /\ vpc = "stats"
    /\ sample_count' = samples
    /\ toread' = top
    /\ vpc' = "rows"
    /\ UNCHANGED <<mainVars, ranking, top, total, rows>>

\* A second snapshot, for the row of the symbol; 0 is no row.
ReadForRow(s) ==
    /\ vpc = "rows"
    /\ s \in toread
    /\ rows' = [rows EXCEPT ![s] = updates[s]]
    /\ toread' = toread \ {s}
    /\ UNCHANGED <<mainVars, vpc, ranking, top, total, sample_count>>

ScreenComplete == vpc = "rows" /\ toread = {}

\* Everything is read: the screen is written and render's variables are gone;
\* half a second later the loop goes on.
Output ==
    /\ ScreenComplete
    /\ vpc' = "test"
    /\ ranking' = NoCounts
    /\ top' = {}
    /\ total' = 0
    /\ sample_count' = 0
    /\ rows' = NoCounts
    /\ UNCHANGED <<mainVars, toread>>

-----------------------------------------------------------------------------

MainThread ==
    \/ Loop
    \/ \E k \in 0 .. RecvBuf : Feed(k)
    \/ \E s \in Symbols : on_message(s)
    \/ UpdateCache
    \/ on_hb
    \/ increment_messages
    \/ StopDashboard
    \/ JoinAndReport

\* The thread ends with the process.
Dashboard ==
    /\ pc # "crashed"
    /\ \/ TestRunning
       \/ \E s \in Symbols : ReadForRanking(s) \/ ReadForRow(s)
       \/ Rank
       \/ LoadStats
       \/ Output

Outside == (Server \/ sig_handler) /\ UNCHANGED <<callVars, countVars, dashVars>>

ClientNext == MainThread \/ Dashboard \/ Outside

ClientSpec == ClientInit /\ [][ClientNext]_clientVars

\* Both threads run: no call of theirs blocks for ever but the join.
FairClientSpec == ClientSpec /\ WF_clientVars(MainThread) /\ WF_clientVars(Dashboard)

-----------------------------------------------------------------------------
(* Properties.                                                             *)

SumOf(f) == MapThenSumSet(LAMBDA s : f[s], Symbols)

\* The final report is about every trade and quote handed over: as many
\* samples as the cache took updates and as messages were counted that were
\* no heartbeats (feed_handler.cpp:66-94, 140-146).
FinalReportComplete ==
    mpc = "finished" => /\ samples = SumOf(updates)
                        /\ samples + beats = total_messages

\* The figures of a screen belong together although the dashboard reads them
\* one by one from three places: no more updates are ranked than samples were
\* counted, the samples counted are all in the cache but for the one under
\* way, and every message counted that was no heartbeat has its sample
\* (feed_handler.cpp:71-76, visualizer.cpp:69-86).
ScreenConsistent ==
    vpc = "rows" =>
        /\ SumOf(ranking) <= sample_count
        /\ sample_count <= SumOf(updates) + 1
        /\ total <= sample_count + beats

\* The rows on the screen are those of the most active symbols: each has at
\* least the updates that a symbol left out had when the two were ranked.
TopRowsAreTop ==
    ScreenComplete => \A s \in top, u \in Symbols \ top : rows[s] >= ranking[u]

\* Once the loop has ended the program does: the dashboard sees the flag in
\* time, and the join does not wait for ever.
ProgramEnds == pc = "exit" ~> mpc = "finished"

=============================================================================
