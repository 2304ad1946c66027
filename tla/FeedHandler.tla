---------------------------- MODULE FeedHandler ----------------------------
(***************************************************************************)
(* The main thread of the client: src/client/feed_handler.cpp, with        *)
(* MarketDataSocket and RetrySocket of src/client/socket.cpp.  It connects *)
(* with retries, subscribes, waits on an edge-triggered epoll and drains   *)
(* the socket into the parser.  One action per system call whose outcome   *)
(* the server or the kernel decides.                                       *)
(*                                                                         *)
(* Delays and addresses are left out.  What the parser does with the bytes *)
(* is the subject of module Parser; here it is the set of connections whose*)
(* bytes its buffer holds.                                                 *)
(***************************************************************************)
EXTENDS Integers

CONSTANTS
    MaxRetries,    \* 10 in feed_handler.cpp
    RecvBuf,       \* RECV_BUF, in pieces of data
    SizeMod,       \* 2^64: the range of size_t
    MaxUnread,     \* bound on the pieces that wait in the kernel
    MaxSessions    \* bound on the connections made

ASSUME ClientAssumption ==
    /\ MaxRetries \in Nat \ {0}
    /\ RecvBuf \in Nat \ {0}
    /\ SizeMod \in Nat /\ SizeMod > RecvBuf + 1
    /\ MaxUnread \in Nat
    /\ MaxSessions \in Nat

VARIABLES
    \* The kernel and the server:
    conn,        \* the connection behind fd_
    unread,      \* pieces of data received and not yet read
    edge,        \* whether epoll has something new to report
    \* The feed handler:
    g_running, connected, attempt, pc,
    held,        \* connections that bytes in the parser's buffer came from
    session      \* how many connections were made

kernelVars == <<conn, unread, edge>>
vars == <<kernelVars, g_running, connected, attempt, pc, held, session>>

Init ==
    /\ conn = "none"
    /\ unread = 0
    /\ edge = FALSE
    /\ g_running = TRUE
    /\ connected = FALSE
    /\ attempt = 0
    /\ pc = "top"
    /\ held = {}
    /\ session = 0

-----------------------------------------------------------------------------
(* The server, the network and the user.                                   *)

ServerData ==
    /\ conn = "up"
    /\ unread < MaxUnread
    /\ unread' = unread + 1
    /\ edge' = TRUE
    /\ UNCHANGED <<conn, g_running, connected, attempt, pc, held, session>>

\* A FIN, or a reset; what arrived before can still be read.
ServerGone(how) ==
    /\ conn = "up"
    /\ conn' = how
    /\ edge' = TRUE
    /\ UNCHANGED <<unread, g_running, connected, attempt, pc, held, session>>

sig_handler ==
    /\ g_running
    /\ g_running' = FALSE
    /\ UNCHANGED <<kernelVars, connected, attempt, pc, held, session>>

-----------------------------------------------------------------------------
(* Connecting.                                                             *)

\* The outer loop: connect_with_retry begins, or the program ends.
Top ==
    /\ pc = "top"
    /\ pc' = IF g_running THEN "connect" ELSE "exit"
    /\ attempt' = 0
    /\ UNCHANGED <<kernelVars, g_running, connected, held, session>>

\* do_connect closes the old descriptor, connects, and asks epoll for edges;
\* connect_with_retry returns, and its count of attempts is gone.
do_connect ==
    /\ pc = "connect"
    /\ session < MaxSessions
    /\ conn' = "up"
    /\ unread' = 0
    /\ edge' = FALSE
    /\ connected' = TRUE
    /\ session' = session + 1
    /\ attempt' = 0
    /\ pc' = "subscribe"
    /\ UNCHANGED <<g_running, held>>

\* Attempts without end.
ConnectFailsForever ==
    /\ pc = "connect"
    /\ conn' = "none"
    /\ unread' = 0
    /\ edge' = FALSE
    /\ attempt' = attempt + 1
    /\ pc' = "connect"
    /\ UNCHANGED <<g_running, connected, held, session>>

\* do_connect fails, is refused or times out; connected_ keeps its value.
\* After the last attempt the outer loop is left.
ConnectFails ==
    /\ pc = "connect"
    /\ conn' = "none"
    /\ unread' = 0
    /\ edge' = FALSE
    /\ attempt' = attempt + 1
    /\ pc' = IF attempt + 1 < MaxRetries THEN "connect" ELSE "exit"
    /\ UNCHANGED <<g_running, connected, held, session>>

\* A new connection that keeps the parser as it is.
SubscribeKeepsParser ==
    /\ pc = "subscribe"
    /\ held' = held
    /\ pc' = "loop"
    /\ UNCHANGED <<kernelVars, g_running, connected, attempt, session>>

\* send_subscription, whose result nobody looks at, and parser.reset().
Subscribe ==
    /\ pc = "subscribe"
    /\ held' = {}
    /\ pc' = "loop"
    /\ UNCHANGED <<kernelVars, g_running, connected, attempt, session>>

-----------------------------------------------------------------------------
(* Receiving.                                                              *)

\* A loop that does not look at g_running.
LoopDeaf ==
    /\ pc = "loop"
    /\ pc' = IF connected THEN "wait" ELSE "pause"
    /\ UNCHANGED <<kernelVars, g_running, connected, attempt, held, session>>

\* The condition of the receive loop.
LoopTest ==
    /\ pc = "loop"
    /\ pc' = IF g_running /\ connected THEN "wait" ELSE "pause"
    /\ UNCHANGED <<kernelVars, g_running, connected, attempt, held, session>>

Readable == unread > 0 \/ conn \in {"fin", "reset"}

\* wait_for_data reports an edge once.
WaitEvent ==
    /\ pc = "wait"
    /\ edge /\ Readable
    /\ edge' = FALSE
    /\ pc' = "recv"
    /\ UNCHANGED <<conn, unread, g_running, connected, attempt, held, session>>

WaitTimeout ==
    /\ pc = "wait"
    /\ ~(edge /\ Readable)
    /\ pc' = "loop"
    /\ UNCHANGED <<kernelVars, g_running, connected, attempt, held, session>>

\* epoll_wait fails with EINTR: a signal, or the process was stopped and
\* continued.
WaitInterrupted ==
    /\ pc = "wait"
    /\ pc' = "pause"
    /\ UNCHANGED <<kernelVars, g_running, connected, attempt, held, session>>

\* What feed leaves in the parser's buffer: nothing, the end of this piece, or
\* that and what was there.
Residuals == {{}, {session}, held \cup {session}}

\* A receive loop that reads once per event.
FeedOnce(n) ==
    /\ pc = "recv"
    /\ connected
    /\ n <= unread
    /\ unread' = unread - n
    /\ held' \in Residuals
    /\ pc' = "loop"
    /\ UNCHANGED <<conn, edge, g_running, connected, attempt, session>>

\* receive returns n > 0 and feed parses the piece; then receive again.
ReceiveAndFeed(n) ==
    /\ pc = "recv"
    /\ connected
    /\ n <= unread
    /\ unread' = unread - n
    /\ held' \in Residuals
    /\ UNCHANGED <<conn, edge, g_running, connected, attempt, pc, session>>

\* receive returns 0 on EAGAIN: the socket is drained.
ReceiveDrained ==
    /\ pc = "recv"
    /\ connected
    /\ ~Readable
    /\ pc' = "loop"
    /\ UNCHANGED <<kernelVars, g_running, connected, attempt, held, session>>

\* The conversion of receive's result to the size_t that main keeps it in.
size_t(r) == r % SizeMod

\* feed with a length that is larger than recv_buf.  sizeof(buf_) bytes are
\* copied from recv_buf and from the memory behind it: the process dies, or it
\* parses what recv_buf still holds, which may be of any connection so far as
\* nobody clears it, keeps some of that and receives again.  If there was a
\* residual, buf_used_ + len wraps, memcpy runs over all memory and the process
\* dies.
FeedOverlong ==
    \/ pc' = "crashed" /\ held' = held
    \/ held = {} /\ pc' = "recv" /\ held' \in SUBSET (1 .. session)

\* receive returns -1: end of file, an error, or not connected.  As a size_t
\* that is neither negative nor 0, so feed is called with it.
ReceiveFails ==
    /\ pc = "recv"
    /\ ~connected \/ (unread = 0 /\ conn \in {"fin", "reset"})
    /\ connected' = FALSE
    /\ IF size_t(-1) < 0 THEN pc' = "pause" /\ held' = held
       ELSE IF size_t(-1) = 0 THEN pc' = "loop" /\ held' = held
       ELSE FeedOverlong
    /\ UNCHANGED <<kernelVars, g_running, attempt, session>>

\* "Disconnected - reconnecting", half a second later.
Pause ==
    /\ pc = "pause"
    /\ pc' = "top"
    /\ UNCHANGED <<kernelVars, g_running, connected, attempt, held, session>>

-----------------------------------------------------------------------------

Server == ServerData \/ \E how \in {"fin", "reset"} : ServerGone(how)

Control ==
    \/ Top
    \/ do_connect
    \/ ConnectFails
    \/ Subscribe
    \/ LoopTest
    \/ WaitEvent
    \/ WaitTimeout
    \/ WaitInterrupted
    \/ ReceiveDrained
    \/ Pause

Main == Control \/ ReceiveFails \/ \E n \in 1 .. RecvBuf : ReceiveAndFeed(n)

Next == Server \/ sig_handler \/ Main

Spec == Init /\ [][Next]_vars

\* No call of the main thread blocks for ever.
FairSpec == Spec /\ WF_vars(Main)

-----------------------------------------------------------------------------
(* Properties.                                                             *)

\* Each variable keeps its type, and no more attempts are made than allowed.
TypeOK ==
    /\ conn \in {"none", "up", "fin", "reset"}
    /\ unread \in 0 .. MaxUnread
    /\ edge \in BOOLEAN
    /\ g_running \in BOOLEAN
    /\ connected \in BOOLEAN
    /\ attempt \in 0 .. MaxRetries
    /\ pc \in {"top", "connect", "subscribe", "loop", "wait", "recv", "pause",
               "exit", "crashed"}
    /\ held \subseteq 1 .. session
    /\ session \in 0 .. MaxSessions

\* The handler never sleeps on data: whenever it goes back to epoll_wait with
\* something to read, or with the connection ended, epoll still has an edge to
\* report (feed_handler.cpp:121-133).
NoLostWakeup == pc \in {"loop", "wait"} /\ Readable => edge

\* "Parser reset on reconnect: ensures no partial messages from the previous
\* connection contaminate the new stream" (docs/NETWORK.md:215): as long as a
\* connection is received from, the parser holds bytes of that one only.  Once
\* it has ended this is false, as FeedOverlong says.
SessionsSeparate ==
    connected /\ pc \in {"loop", "wait", "recv"} => held \subseteq {session}

\* Data that arrived is not left lying: the handler comes to read it, unless
\* the connection or the program ends first.
DataIsRead ==
    (conn = "up" /\ unread > 0) ~>
        (pc = "recv" \/ unread = 0 \/ conn # "up" \/ pc = "exit")

\* After SIGINT the program ends, if the server stays and goes quiet.
StopsOnSignal ==
    <>[](~g_running /\ conn \in {"none", "up"} /\ unread = 0) => <>(pc = "exit")

\* "The reconnect is triggered when recv() returns 0 (FIN) or a hard error"
\* (docs/DESIGN.md:106): when the server has gone the handler connects again,
\* or was told to stop.
Reconnects ==
    conn \in {"fin", "reset"} ~> (pc \in {"connect", "exit"} \/ ~g_running)

=============================================================================
