---------------------------- MODULE ClientProofs ----------------------------
(***************************************************************************)
(* Theorems about module Client, for every number of symbols, rows and     *)
(* messages.                                                               *)
(***************************************************************************)
EXTENDS Client, FeedHandlerProofs, SumTheorems

-----------------------------------------------------------------------------
(* The program is its main loop, as far as the variables of FeedHandler    *)
(* go: the callbacks and the dashboard leave them alone.                   *)

LEMMA MainIsHandler == MainThread => [Next]_vars
<1> SUFFICES ASSUME MainThread PROVE [Next]_vars
    OBVIOUS
<1>1. CASE Loop
    BY <1>1 DEF Loop, Next, Main
<1>2. ASSUME NEW k \in 0 .. RecvBuf, Feed(k) PROVE [Next]_vars
    BY <1>2 DEF Feed, Next, Main
<1>3. CASE UpdateCache \/ on_hb \/ increment_messages \/ \E s \in Symbols : on_message(s)
    BY <1>3 DEF UpdateCache, on_hb, increment_messages, on_message
<1>4. CASE StopDashboard \/ JoinAndReport
    BY <1>4 DEF StopDashboard, JoinAndReport
<1>. QED
    BY <1>1, <1>2, <1>3, <1>4 DEF MainThread

LEMMA DashboardIsHandler == Dashboard => UNCHANGED mainVars
  BY DEF Dashboard, TestRunning, ReadForRanking, ReadForRow, Rank, LoadStats, Output

\* The client program implements the main loop: every step of it is a step of
\* module FeedHandler, or none of its variables changes (feed_handler.cpp:102-138
\* beside the callbacks of lines 66-94 and visualizer.cpp).
THEOREM ClientIsFeedHandler == ClientSpec => Spec
<1>1. ClientInit => Init
    BY DEF ClientInit
<1>2. ASSUME [ClientNext]_clientVars PROVE [Next]_vars
  <2>1. CASE UNCHANGED clientVars
      BY <2>1 DEF clientVars
  <2>2. CASE Dashboard
      BY <2>2, DashboardIsHandler DEF mainVars
  <2>3. CASE Outside
      BY <2>3 DEF Outside, Next
  <2>. QED
      BY <1>2, <2>1, <2>2, <2>3, MainIsHandler DEF ClientNext
<1>. QED
    BY <1>1, <1>2, PTL DEF ClientSpec, Spec

\* With callbacks and dashboard too, no wakeup is lost (feed_handler.cpp:121-133).
THEOREM ClientWakeupsAreNotLost == ClientSpec => []NoLostWakeup
  BY ClientIsFeedHandler, WakeupsAreNotLost, PTL

\* ... and while a connection is received from, no byte of an earlier one is in
\* the parser's buffer (feed_handler.cpp:118-132).
THEOREM ClientSessionsAreSeparate == ClientSpec => []SessionsSeparate
  BY ClientIsFeedHandler, SessionsAreSeparate, PTL

-----------------------------------------------------------------------------
(* The ranking and the rows.                                               *)

CountsType ==
    /\ updates \in [Symbols -> Nat]
    /\ ranking \in [Symbols -> Nat]
    /\ rows \in [Symbols -> Nat]

\* A count read is not above the count that is there: counts only grow.
RankingPast == \A s \in Symbols : ranking[s] <= updates[s]

\* From the sort to the end of render, top comes first in the ranking.
TopRanked == vpc \in {"stats", "rows"} => top \subseteq Symbols /\ Descending(top)

\* A row that has been read is not below its rank.
RowsRecent == vpc = "rows" => \A s \in top \ toread : rows[s] >= ranking[s]

ScreenInv == CountsType /\ RankingPast /\ TopRanked /\ RowsRecent

LEMMA InitScreen == ClientInit => ScreenInv
  BY DEF ClientInit, ScreenInv, CountsType, RankingPast, TopRanked, RowsRecent, NoCounts

\* Steps that move nothing the dashboard reads but, perhaps, one count upwards.
LEMMA CountsGrow ==
  ASSUME ScreenInv, UNCHANGED renderVars, updates' \in [Symbols -> Nat],
         \A s \in Symbols : updates[s] <= updates'[s]
  PROVE  ScreenInv'
<1>1. CountsType'
    BY DEF ScreenInv, CountsType, renderVars
<1>2. RankingPast'
    BY DEF ScreenInv, CountsType, RankingPast, renderVars
<1>3. TopRanked'
    BY DEF ScreenInv, TopRanked, Descending, renderVars
<1>4. RowsRecent'
    BY DEF ScreenInv, RowsRecent, renderVars
<1>. QED
    BY <1>1, <1>2, <1>3, <1>4 DEF ScreenInv

LEMMA MainScreen ==
  ASSUME ScreenInv, MainThread \/ Outside
  PROVE  ScreenInv'
<1>1. UNCHANGED renderVars
    BY DEF MainThread, Outside, Loop, Feed, on_message, UpdateCache, on_hb,
           increment_messages, StopDashboard, JoinAndReport, dashVars
<1>2. CASE UpdateCache
  <2>1. /\ updates' \in [Symbols -> Nat]
        /\ \A s \in Symbols : updates[s] <= updates'[s]
      BY <1>2 DEF UpdateCache, ScreenInv, CountsType
  <2>. QED
      BY <1>1, <2>1, CountsGrow
<1>3. CASE ~UpdateCache
  <2>1. UNCHANGED updates
      BY <1>3 DEF MainThread, Outside, Loop, Feed, on_message, on_hb,
                  increment_messages, StopDashboard, JoinAndReport, countVars
  <2>. QED
      BY <1>1, <2>1, CountsGrow DEF ScreenInv, CountsType
<1>. QED
    BY <1>2, <1>3

LEMMA DashboardScreen ==
  ASSUME ScreenInv, Dashboard
  PROVE  ScreenInv'
<1> USE DEF ScreenInv, CountsType
<1>0. UNCHANGED updates
    BY DashboardIsHandler DEF mainVars, countVars
<1>1. CASE TestRunning
    BY <1>0, <1>1 DEF TestRunning, RankingPast, TopRanked, RowsRecent
<1>2. ASSUME NEW s \in Symbols, ReadForRanking(s) PROVE ScreenInv'
  <2>1. vpc' = "rank" /\ UNCHANGED rows
      BY <1>2 DEF ReadForRanking
  <2>2. ranking' \in [Symbols -> Nat]
      BY <1>2 DEF ReadForRanking
  <2>3. RankingPast'
      BY <1>0, <1>2 DEF ReadForRanking, RankingPast
  <2>. QED
      BY <1>0, <2>1, <2>2, <2>3 DEF TopRanked, RowsRecent
<1>3. CASE Rank
  <2>1. top' \subseteq Symbols /\ Descending(top')
      BY <1>3 DEF Rank, kSubset
  <2>2. UNCHANGED <<ranking, rows>> /\ vpc' = "stats"
      BY <1>3 DEF Rank
  <2>3. TopRanked'
      BY <2>1, <2>2 DEF TopRanked, Descending
  <2>. QED
      BY <1>0, <2>2, <2>3 DEF RankingPast, RowsRecent
<1>4. CASE LoadStats
  <2>1. /\ UNCHANGED <<ranking, rows, top>> /\ toread' = top
        /\ vpc = "stats" /\ vpc' = "rows"
      BY <1>4 DEF LoadStats
  <2>2. TopRanked' /\ RowsRecent'
      BY <2>1 DEF TopRanked, RowsRecent, Descending
  <2>. QED
      BY <1>0, <2>1, <2>2 DEF RankingPast
<1>5. ASSUME NEW s \in Symbols, ReadForRow(s) PROVE ScreenInv'
  <2>1. /\ UNCHANGED <<ranking, top, vpc>> /\ vpc = "rows"
        /\ toread' = toread \ {s} /\ rows' = [rows EXCEPT ![s] = updates[s]]
      BY <1>5 DEF ReadForRow
  <2>2. TopRanked' /\ top \subseteq Symbols
      BY <2>1 DEF TopRanked, Descending
  <2>3. RowsRecent'
    <3>1. SUFFICES ASSUME NEW u \in top \ (toread \ {s})
                   PROVE  rows'[u] >= ranking[u]
        BY <2>1 DEF RowsRecent
    <3>2. u \in Symbols
        BY <2>2
    <3>3. CASE u = s
        BY <2>1, <3>2, <3>3 DEF RankingPast
    <3>4. CASE u # s
        BY <2>1, <3>1, <3>2, <3>4 DEF RowsRecent
    <3>. QED
        BY <3>3, <3>4
  <2>4. rows' \in [Symbols -> Nat]
      BY <2>1
  <2>. QED
      BY <1>0, <2>1, <2>2, <2>3, <2>4 DEF RankingPast
<1>6. CASE Output
    BY <1>0, <1>6 DEF Output, NoCounts, RankingPast, TopRanked, RowsRecent
<1>. QED
    BY <1>1, <1>2, <1>3, <1>4, <1>5, <1>6 DEF Dashboard

LEMMA ScreenStep == ScreenInv /\ [ClientNext]_clientVars => ScreenInv'
<1> SUFFICES ASSUME ScreenInv, [ClientNext]_clientVars PROVE ScreenInv'
    OBVIOUS
<1>1. CASE UNCHANGED clientVars
  <2>1. UNCHANGED renderVars /\ UNCHANGED updates
      BY <1>1 DEF clientVars, dashVars, countVars
  <2>. QED
      BY <2>1, CountsGrow DEF ScreenInv, CountsType
<1>. QED
    BY <1>1, MainScreen, DashboardScreen DEF ClientNext

\* The dashboard shows the most active symbols, whatever the callbacks do
\* between the ranking and the rows (visualizer.cpp:69-76, 112-139).
THEOREM ScreenShowsTheTop == ClientSpec => []TopRowsAreTop
<1>1. ASSUME ScreenInv PROVE TopRowsAreTop
  <2>1. SUFFICES ASSUME ScreenComplete, NEW s \in top, NEW u \in Symbols \ top
                 PROVE  rows[s] >= ranking[u]
      BY DEF TopRowsAreTop
  <2>2. s \in Symbols /\ ranking[s] >= ranking[u]
      BY <1>1, <2>1 DEF ScreenInv, TopRanked, Descending, ScreenComplete
  <2>3. rows[s] >= ranking[s]
      BY <1>1, <2>1 DEF ScreenInv, RowsRecent, ScreenComplete
  <2>. QED
      BY <1>1, <2>2, <2>3 DEF ScreenInv, CountsType
<1>. QED
    BY <1>1, InitScreen, ScreenStep, PTL DEF ClientSpec

-----------------------------------------------------------------------------
(* The three counts, and the figures of a screen.                          *)

BooksType ==
    /\ samples \in Nat
    /\ total_messages \in Nat
    /\ beats \in Nat
    /\ todo \in Nat
    /\ cb \in Symbols \cup {"none", "count"}
    /\ total \in Nat
    /\ sample_count \in Nat

\* The counts differ by what the callback under way has still to do.
MessagesCounted ==
    /\ samples = SumOf(updates) + (IF cb \in Symbols THEN 1 ELSE 0)
    /\ samples + beats = total_messages + (IF cb = "none" THEN 0 ELSE 1)

\* No callback runs once the loop has ended.
CallbacksOver == mpc # "run" => todo = 0 /\ cb = "none"

\* What render has read so far of the message counter.
TotalRead == vpc = "stats" => total <= samples + beats

ReportInv ==
    /\ ScreenInv
    /\ BooksType
    /\ MessagesCounted
    /\ CallbacksOver
    /\ TotalRead
    /\ ScreenConsistent

\* SumOf adds up update counts: a natural number, and monotone in each count.
LEMMA SumOfIsTotal == ASSUME NEW f PROVE SumOf(f) = Total(f, Symbols)
  BY DEF SumOf, Total

LEMMA SumOfNat == ASSUME NEW f \in [Symbols -> Nat] PROVE SumOf(f) \in Nat
  BY SumOfIsTotal, TotalNat, DashboardAssumption

LEMMA SumOfMonotone ==
  ASSUME NEW f \in [Symbols -> Nat], NEW g \in [Symbols -> Nat],
         \A s \in Symbols : f[s] <= g[s]
  PROVE  SumOf(f) <= SumOf(g)
<1>1. \A s \in Symbols : f[s] \in Nat /\ g[s] \in Nat /\ f[s] <= g[s]
    OBVIOUS
<1>. QED
    BY <1>1, SumOfIsTotal, TotalMonotone, DashboardAssumption

\* One more update of one symbol (cache.h:54-89).
LEMMA SumOfBump ==
  ASSUME NEW f \in [Symbols -> Nat], NEW s \in Symbols
  PROVE  SumOf([f EXCEPT ![s] = @ + 1]) = SumOf(f) + 1
<1> DEFINE g == [f EXCEPT ![s] = @ + 1]
<1>1. /\ \A u \in Symbols : f[u] \in Nat /\ g[u] \in Nat
      /\ \A u \in Symbols \ {s} : g[u] = f[u]
      /\ g[s] = f[s] + 1
      /\ g \in [Symbols -> Nat]
    OBVIOUS
<1> HIDE DEF g
<1>2. SumOf(g) + f[s] = SumOf(f) + g[s]
    BY <1>1, SumOfIsTotal, TotalUpdate, DashboardAssumption
<1>3. SumOf(f) \in Nat /\ SumOf(g) \in Nat
    BY <1>1, SumOfNat
<1>4. SumOf(g) = SumOf(f) + 1
    BY <1>1, <1>2, <1>3
<1>. QED
    BY <1>4 DEF g

LEMMA InitReport == ClientInit => ReportInv
<1> SUFFICES ASSUME ClientInit PROVE ReportInv
    OBVIOUS
<1>1. ScreenInv
    BY InitScreen
<1>2. BooksType /\ CallbacksOver /\ TotalRead /\ ScreenConsistent
    BY DEF ClientInit, BooksType, CallbacksOver, TotalRead, ScreenConsistent
<1>3. MessagesCounted
  <2>1. SumOf(updates) = 0
    <3>1. \A s \in Symbols : updates[s] = 0
        BY DEF ClientInit, NoCounts
    <3>. QED
        BY <3>1, SumOfIsTotal, TotalZero, DashboardAssumption
  <2>. QED
      BY <2>1, DashboardAssumption DEF ClientInit, MessagesCounted
<1>. QED
    BY <1>1, <1>2, <1>3 DEF ReportInv

\* Steps that leave the counts and the dashboard alone.
LEMMA ReportFrame ==
  ASSUME ReportInv, ScreenInv', UNCHANGED <<countVars, renderVars, cb, beats>>,
         todo' \in Nat, CallbacksOver'
  PROVE  ReportInv'
<1> USE DEF countVars, renderVars
<1>1. BooksType'
    BY DEF ReportInv, BooksType
<1>2. MessagesCounted'
    BY DEF ReportInv, MessagesCounted
<1>3. TotalRead' /\ ScreenConsistent'
    BY DEF ReportInv, TotalRead, ScreenConsistent
<1>. QED
    BY <1>1, <1>2, <1>3 DEF ReportInv

LEMMA SumGrows ==
  ASSUME NEW a \in Nat, NEW b \in Nat, NEW c \in Nat, NEW d \in Nat, a <= b + c, c <= d
  PROVE  a <= b + d
  OBVIOUS

\* A callback moves the counts one by one and upwards (feed_handler.cpp:66-94).
LEMMA ReportCallback ==
  ASSUME ReportInv, ScreenInv',
         (\E s \in Symbols : on_message(s)) \/ UpdateCache \/ on_hb \/ increment_messages
  PROVE  ReportInv'
<1>0. /\ samples \in Nat /\ total_messages \in Nat /\ beats \in Nat /\ todo \in Nat
      /\ total \in Nat /\ sample_count \in Nat
      /\ updates \in [Symbols -> Nat] /\ ranking \in [Symbols -> Nat]
      /\ updates' \in [Symbols -> Nat]
      /\ "none" \notin Symbols /\ "count" \notin Symbols
    BY DashboardAssumption DEF ReportInv, BooksType, ScreenInv, CountsType
<1>1. /\ SumOf(updates) \in Nat /\ SumOf(ranking) \in Nat /\ SumOf(updates') \in Nat
    BY <1>0, SumOfNat
<1>2. /\ samples = SumOf(updates) + (IF cb \in Symbols THEN 1 ELSE 0)
      /\ samples + beats = total_messages + (IF cb = "none" THEN 0 ELSE 1)
    BY DEF ReportInv, MessagesCounted
<1>3. UNCHANGED <<renderVars, mpc>> /\ mpc = "run"
    BY <1>0 DEF on_message, UpdateCache, on_hb, increment_messages, dashVars, ReportInv,
           CallbacksOver
<1>4. /\ samples' \in Nat /\ total_messages' \in Nat /\ beats' \in Nat /\ todo' \in Nat
      /\ cb' \in Symbols \cup {"none", "count"}
      /\ samples <= samples' /\ beats <= beats' /\ SumOf(updates) <= SumOf(updates')
      /\ samples' = SumOf(updates') + (IF cb' \in Symbols THEN 1 ELSE 0)
      /\ samples' + beats' = total_messages' + (IF cb' = "none" THEN 0 ELSE 1)
  <2>1. ASSUME NEW s \in Symbols, on_message(s) PROVE <1>4
    <3>1. /\ cb = "none" /\ todo > 0 /\ samples' = samples + 1 /\ cb' = s
          /\ todo' = todo - 1 /\ UNCHANGED <<beats, updates, total_messages>>
        BY <2>1 DEF on_message
    <3>. QED
        BY <1>0, <1>1, <1>2, <3>1
  <2>2. CASE UpdateCache
    <3>1. /\ cb \in Symbols /\ cb' = "count"
          /\ UNCHANGED <<todo, beats, samples, total_messages>>
        BY <2>2 DEF UpdateCache
    <3>2. SumOf(updates') = SumOf(updates) + 1
        BY <1>0, <2>2, <3>1, SumOfBump DEF UpdateCache
    <3>. QED
        BY <1>0, <1>1, <1>2, <3>1, <3>2
  <2>3. CASE on_hb
    <3>1. /\ cb = "none" /\ todo > 0 /\ cb' = "count" /\ todo' = todo - 1
          /\ beats' = beats + 1 /\ UNCHANGED <<samples, updates, total_messages>>
        BY <2>3 DEF on_hb, countVars
    <3>. QED
        BY <1>0, <1>1, <1>2, <3>1
  <2>4. CASE increment_messages
    <3>1. /\ cb = "count" /\ total_messages' = total_messages + 1 /\ cb' = "none"
          /\ UNCHANGED <<todo, beats, updates, samples>>
        BY <2>4 DEF increment_messages
    <3>. QED
        BY <1>0, <1>1, <1>2, <3>1
  <2>. QED
      BY <2>1, <2>2, <2>3, <2>4
<1>5. BooksType' /\ MessagesCounted'
    BY <1>0, <1>3, <1>4 DEF BooksType, MessagesCounted, renderVars
<1>6. CallbacksOver'
    BY <1>3 DEF CallbacksOver
<1>7. TotalRead'
    BY <1>0, <1>3, <1>4 DEF ReportInv, TotalRead, renderVars
<1>8. ScreenConsistent'
  <2>1. /\ UNCHANGED <<vpc, ranking, total, sample_count>>
        /\ SumOf(ranking') = SumOf(ranking)
      BY <1>3 DEF renderVars
  <2>2. SUFFICES ASSUME vpc = "rows"
                 PROVE  /\ SumOf(ranking) <= sample_count
                        /\ sample_count <= SumOf(updates') + 1
                        /\ total <= sample_count + beats'
      BY <2>1 DEF ScreenConsistent
  <2>3. /\ SumOf(ranking) <= sample_count
        /\ sample_count <= SumOf(updates) + 1
        /\ total <= sample_count + beats
      BY <2>2 DEF ReportInv, ScreenConsistent
  <2>4. SumOf(updates) <= SumOf(updates') /\ beats <= beats' /\ beats' \in Nat
      BY <1>4
  <2>5. sample_count \in Nat /\ total \in Nat /\ beats \in Nat
      BY <1>0
  <2>6. sample_count <= SumOf(updates') + 1
      BY <1>1, <2>3, <2>4, <2>5
  <2>7. total <= sample_count + beats'
    <3>1. beats <= beats' /\ beats' \in Nat /\ total <= sample_count + beats
        BY <2>3, <2>4
    <3>. QED
        BY <2>5, <3>1, SumGrows
  <2>. QED
      BY <2>3, <2>6, <2>7
<1>. QED
    BY <1>5, <1>6, <1>7, <1>8 DEF ReportInv

\* The dashboard reads total_messages before count_, and the update counts
\* before both (visualizer.cpp:69-86).
LEMMA ReportDashboard ==
  ASSUME ReportInv, ScreenInv', Dashboard
  PROVE  ReportInv'
<1>0. /\ samples \in Nat /\ total_messages \in Nat /\ beats \in Nat
      /\ updates \in [Symbols -> Nat] /\ ranking \in [Symbols -> Nat]
      /\ \A s \in Symbols : ranking[s] <= updates[s]
      /\ cb \in Symbols \cup {"none", "count"}
    BY DEF ReportInv, BooksType, ScreenInv, CountsType, RankingPast
<1>1. UNCHANGED <<updates, samples, total_messages, todo, cb, mpc, beats>>
    BY DashboardIsHandler DEF mainVars, countVars, callVars
<1>2. MessagesCounted' /\ CallbacksOver'
    BY <1>1 DEF ReportInv, MessagesCounted, CallbacksOver
<1>3. SUFFICES total' \in Nat /\ sample_count' \in Nat /\ TotalRead' /\ ScreenConsistent'
    BY <1>1, <1>2 DEF ReportInv, BooksType
<1>4. CASE Rank
  <2>1. total' = total_messages /\ vpc' = "stats" /\ sample_count' = sample_count
      BY <1>4 DEF Rank
  <2>2. total_messages <= samples + beats
      BY <1>0 DEF ReportInv, MessagesCounted
  <2>. QED
      BY <1>0, <1>1, <2>1, <2>2 DEF TotalRead, ScreenConsistent, ReportInv, BooksType
<1>5. CASE LoadStats
  <2>1. /\ vpc = "stats" /\ vpc' = "rows" /\ sample_count' = samples
        /\ UNCHANGED <<ranking, total>>
      BY <1>5 DEF LoadStats
  <2>2. SumOf(ranking) <= SumOf(updates) /\ SumOf(ranking) \in Nat /\ SumOf(updates) \in Nat
      BY <1>0, SumOfNat, SumOfMonotone
  <2>3. SumOf(updates) <= samples /\ samples <= SumOf(updates) + 1
      BY <1>0, <2>2 DEF ReportInv, MessagesCounted
  <2>4. total <= samples + beats
      BY <2>1 DEF ReportInv, TotalRead
  <2>5. SumOf(ranking) <= samples
      BY <1>0, <2>2, <2>3
  <2>. QED
      BY <1>0, <1>1, <2>1, <2>3, <2>4, <2>5 DEF TotalRead, ScreenConsistent, ReportInv, BooksType
<1>6. ASSUME NEW s \in Symbols, ReadForRow(s) PROVE <1>3!1
  <2>1. UNCHANGED <<vpc, ranking, total, sample_count>>
      BY <1>6 DEF ReadForRow
  <2>. QED
      BY <1>1, <2>1 DEF TotalRead, ScreenConsistent, ReportInv, BooksType
<1>7. CASE TestRunning \/ (\E s \in Symbols : ReadForRanking(s)) \/ Output
  <2>1. vpc' \notin {"stats", "rows"} /\ total' \in {total, 0} /\ sample_count' \in {sample_count, 0}
      BY <1>7 DEF TestRunning, ReadForRanking, Output
  <2>. QED
      BY <2>1 DEF TotalRead, ScreenConsistent, ReportInv, BooksType
<1>. QED
    BY <1>4, <1>5, <1>6, <1>7 DEF Dashboard

\* The main thread outside of a callback (feed_handler.cpp:102-146).
LEMMA ReportMain ==
  ASSUME ReportInv, ScreenInv',
         \/ Loop \/ \E k \in 0 .. RecvBuf : Feed(k)
         \/ StopDashboard \/ JoinAndReport \/ Outside
  PROVE  ReportInv'
<1>1. UNCHANGED <<countVars, renderVars, cb, beats>>
    BY DEF Loop, Feed, StopDashboard, JoinAndReport, Outside, dashVars, callVars
<1>2. todo \in Nat /\ (mpc # "run" => todo = 0 /\ cb = "none")
    BY DEF ReportInv, BooksType, CallbacksOver
<1>3. todo' \in Nat
  <2>1. ASSUME NEW k \in 0 .. RecvBuf, Feed(k) PROVE todo' \in Nat
      BY <2>1 DEF Feed
  <2>. QED
      BY <1>2, <2>1 DEF Loop, StopDashboard, JoinAndReport, Outside, callVars
<1>4. CallbacksOver'
    BY <1>1, <1>2 DEF CallbacksOver, Loop, Feed, InLoop, StopDashboard, JoinAndReport,
                      Outside, callVars
<1>. QED
    BY <1>1, <1>3, <1>4, ReportFrame

LEMMA ReportStep == ReportInv /\ [ClientNext]_clientVars => ReportInv'
<1> SUFFICES ASSUME ReportInv, [ClientNext]_clientVars PROVE ReportInv'
    OBVIOUS
<1>1. ScreenInv'
    BY ScreenStep DEF ReportInv
<1>2. CASE UNCHANGED clientVars
  <2>1. UNCHANGED <<countVars, renderVars, cb, beats, todo, mpc>>
      BY <1>2 DEF clientVars, callVars, dashVars
  <2>2. todo' \in Nat /\ CallbacksOver'
      BY <2>1 DEF ReportInv, BooksType, CallbacksOver
  <2>. QED
      BY <1>1, <2>1, <2>2, ReportFrame
<1>. QED
    BY <1>1, <1>2, ReportCallback, ReportDashboard, ReportMain DEF ClientNext, MainThread

\* The final report is about every message handed over, for any number of
\* symbols and messages: the three counts move apart only within a callback,
\* and none is under way when the loop has ended (feed_handler.cpp:66-94,
\* 140-146).
THEOREM FinalReportIsComplete == ClientSpec => []FinalReportComplete
<1>1. ASSUME ReportInv PROVE FinalReportComplete
  <2>1. SUFFICES ASSUME mpc = "finished"
                 PROVE  samples = SumOf(updates) /\ samples + beats = total_messages
      BY DEF FinalReportComplete
  <2>2. cb = "none" /\ cb \notin Symbols
      BY <1>1, <2>1, DashboardAssumption DEF ReportInv, CallbacksOver
  <2>3. updates \in [Symbols -> Nat] /\ total_messages \in Nat
      BY <1>1 DEF ReportInv, ScreenInv, CountsType, BooksType
  <2>4. SumOf(updates) \in Nat
      BY <2>3, SumOfNat
  <2>. QED
      BY <1>1, <2>2, <2>3, <2>4 DEF ReportInv, MessagesCounted
<1>. QED
    BY <1>1, InitReport, ReportStep, PTL DEF ClientSpec

\* The figures of a screen belong together, at whatever points between the
\* steps of the callbacks the dashboard reads them (feed_handler.cpp:71-76,
\* visualizer.cpp:69-86).
THEOREM ScreenIsConsistent == ClientSpec => []ScreenConsistent
<1>1. ReportInv => ScreenConsistent
    BY DEF ReportInv
<1>. QED
    BY <1>1, InitReport, ReportStep, PTL DEF ClientSpec

=============================================================================
