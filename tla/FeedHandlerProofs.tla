------------------------- MODULE FeedHandlerProofs -------------------------
(***************************************************************************)
(* Proofs about the client's main loop, for any number of retries,         *)
(* connections and pieces of data.                                         *)
(***************************************************************************)
EXTENDS FeedHandler, TLAPS

\* Before a new connection is used its data is announced too, and fewer
\* attempts were made than allowed.
HandlerInv ==
    /\ TypeOK
    /\ pc \in {"subscribe", "loop", "wait"} /\ Readable => edge
    /\ SessionsSeparate
    /\ pc = "connect" => attempt < MaxRetries
    /\ pc \in {"loop", "wait", "recv"} => session > 0
    /\ pc = "subscribe" => session > 0

\* The first state satisfies the invariant.
LEMMA HandlerInit == Init => HandlerInv
<1> SUFFICES ASSUME Init PROVE HandlerInv
    OBVIOUS
<1>1. edge \in BOOLEAN /\ g_running \in BOOLEAN /\ connected \in BOOLEAN
    BY Zenon DEF Init
<1>2. /\ conn = "none" /\ unread = 0 /\ attempt = 0 /\ pc = "top"
      /\ held = {} /\ session = 0
    BY DEF Init
<1>3. TypeOK
    BY <1>1, <1>2, ClientAssumption DEF TypeOK
<1> QED
    BY <1>2, <1>3 DEF HandlerInv, SessionsSeparate

\* Every step of the server, of the user and of the main thread preserves it.
LEMMA HandlerStep == HandlerInv /\ [Next]_vars => HandlerInv'
<1> SUFFICES ASSUME HandlerInv, [Next]_vars PROVE HandlerInv'
    OBVIOUS
<1> USE ClientAssumption DEF HandlerInv, TypeOK, Readable, SessionsSeparate, kernelVars
<1>1. CASE ServerData
    BY <1>1 DEF ServerData
<1>2. ASSUME NEW how \in {"fin", "reset"}, ServerGone(how) PROVE HandlerInv'
    BY <1>2 DEF ServerGone
<1>3. CASE sig_handler
    BY <1>3 DEF sig_handler
<1>4. CASE Top
    BY <1>4 DEF Top
<1>5. CASE do_connect
  <2>1. edge' \in BOOLEAN /\ g_running' \in BOOLEAN /\ connected' \in BOOLEAN
      BY <1>5, Zenon DEF do_connect
  <2>2. /\ conn' = "up" /\ unread' = 0 /\ attempt' = 0 /\ pc' = "subscribe"
        /\ held' = held
        /\ session' = session + 1 /\ session < MaxSessions
      BY <1>5 DEF do_connect
  <2> QED
      BY <2>1, <2>2
<1>6. CASE ConnectFails
  <2>1. edge' \in BOOLEAN /\ g_running' \in BOOLEAN /\ connected' \in BOOLEAN
      BY <1>6, Zenon DEF ConnectFails
  <2>2. /\ conn' = "none" /\ unread' = 0 /\ attempt < MaxRetries
        /\ attempt' = attempt + 1
        /\ held' = held /\ session' = session
        /\ pc' = IF attempt + 1 < MaxRetries THEN "connect" ELSE "exit"
      BY <1>6 DEF ConnectFails
  <2> QED
      BY <2>1, <2>2
<1>7. CASE Subscribe
    BY <1>7 DEF Subscribe
<1>8. CASE LoopTest
    BY <1>8 DEF LoopTest
<1>9. CASE WaitEvent
    BY <1>9 DEF WaitEvent
<1>10. CASE WaitTimeout
    BY <1>10 DEF WaitTimeout
<1>11. CASE WaitInterrupted
    BY <1>11 DEF WaitInterrupted
<1>12. ASSUME NEW n \in 1 .. RecvBuf, ReceiveAndFeed(n) PROVE HandlerInv'
  <2>1. held \subseteq {session} /\ session \in 1 .. session
      BY <1>12 DEF ReceiveAndFeed
  <2>2. held' \subseteq {session}
      BY <1>12, <2>1, Zenon DEF ReceiveAndFeed, Residuals
  <2> QED
      BY <1>12, <2>1, <2>2 DEF ReceiveAndFeed
<1>13. CASE ReceiveDrained
    BY <1>13 DEF ReceiveDrained
<1>14. CASE ReceiveFails
  <2>1. FeedOverlong
    <3>1. size_t(-1) = SizeMod - 1
        BY DEF size_t
    <3> QED
        BY <1>14, <3>1 DEF ReceiveFails
  <2>2. pc' \in {"crashed", "recv"} /\ held' \subseteq 1 .. session
      BY <2>1 DEF FeedOverlong
  <2> QED
      BY <1>14, <2>2 DEF ReceiveFails
<1>15. CASE Pause
    BY <1>15 DEF Pause
<1>16. CASE UNCHANGED vars
    BY <1>16 DEF vars
<1> QED
    BY <1>1, <1>2, <1>3, <1>4, <1>5, <1>6, <1>7, <1>8, <1>9, <1>10, <1>11, <1>12,
       <1>13, <1>14, <1>15, <1>16 DEF Next, Server, Main, Control

\* The loop's state is always within the invariant.
LEMMA HandlerInvariant == Spec => []HandlerInv
BY HandlerInit, HandlerStep, PTL DEF Spec

\* Every variable of the client's main loop keeps its type, and
\* connect_with_retry makes at most max_retries_ attempts (socket.cpp:161-173).
THEOREM TypeCorrect == Spec => []TypeOK
<1>1. HandlerInv => TypeOK
    BY DEF HandlerInv
<1> QED
    BY <1>1, HandlerInvariant, PTL

\* The receive loop and edge-triggered epoll fit together: the handler never
\* waits for an event while there is something to read that epoll has already
\* reported (feed_handler.cpp:121-133, socket.cpp:84-87, 94-110).
THEOREM WakeupsAreNotLost == Spec => []NoLostWakeup
<1>1. HandlerInv => NoLostWakeup
    BY DEF HandlerInv, NoLostWakeup
<1> QED
    BY <1>1, HandlerInvariant, PTL

\* While a connection is received from, no byte of an earlier one is in the
\* parser's buffer, whichever way that one was left (feed_handler.cpp:109-132).
THEOREM SessionsAreSeparate == Spec => []SessionsSeparate
<1>1. HandlerInv => SessionsSeparate
    BY DEF HandlerInv
<1> QED
    BY <1>1, HandlerInvariant, PTL

=============================================================================
