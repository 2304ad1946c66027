------------------------- MODULE ExchangeSimulator -------------------------
(***************************************************************************)
(* src/server/exchange_simulator.cpp: one thread that accepts clients,     *)
(* reads and ignores what they send, and broadcasts ticks and heartbeats   *)
(* with non-blocking sends.  One action per system call whose outcome the  *)
(* peers or the kernel decide, because between two of them the peers may   *)
(* connect, drain, send, close or reset.                                   *)
(*                                                                         *)
(* The clock is left out: each round of the loop may or may not find a     *)
(* tick due, and a second gone by.  Prices and symbols do not matter here; *)
(* a message is its number and its size.                                   *)
(***************************************************************************)
EXTENDS Integers, Sequences, FiniteSets

CONSTANTS
    Fds,             \* descriptors the kernel hands out to accepted clients
    NoFd,            \* none of them
    SndBuf,          \* SO_SNDBUF: what the kernel takes before EAGAIN
    HeartbeatSize, TradeSize, QuoteSize,
    MaxChunks,       \* bound on the pieces of client data not yet read
    MaxEvents,       \* MAX_EVENTS: what one epoll_wait reports
    SeqMod,          \* 2^32 in the code: seq_no_ is a uint32_t
    FaultInjection,  \* --fault
    FaultPeriod,     \* 100 in the code
    MaxBacklog,      \* bound on the connections waiting for accept
    Depth            \* how many messages the history variables remember

\* The listening descriptor.
ServerFd == "server_fd"

ASSUME ServerAssumption ==
    /\ NoFd \notin Fds
    /\ ServerFd \notin Fds
    /\ SndBuf \in Nat \ {0}
    /\ HeartbeatSize \in Nat \ {0}
    /\ TradeSize \in Nat \ {0}
    /\ QuoteSize \in Nat \ {0}
    /\ MaxChunks \in Nat
    /\ MaxEvents \in Nat \ {0}
    /\ SeqMod \in Nat \ {0, 1}
    /\ FaultInjection \in BOOLEAN
    /\ FaultPeriod \in Nat \ {0}
    /\ MaxBacklog \in Nat
    /\ Depth \in Nat \ {0}

VARIABLES
    \* The kernel and the peers:
    conn,          \* state of the connection behind each descriptor
    rq,            \* pieces of client data not yet read
    space,         \* free bytes in the send buffer
    edge,          \* what an edge-triggered epoll still has to report
    backlog,       \* connections waiting for accept
    \* The simulator:
    running, clients, slow_clients, seq_no,
    epoll,         \* client descriptors registered with epoll_fd_
    pc,            \* where run() is
    batch,         \* events of this epoll_wait not yet handled
    msg,           \* the message being broadcast
    todo,          \* clients that the broadcast has not reached
    cur,           \* the client it is sending to
    remaining,     \* bytes of the message still to send to it
    to_drop,
    \* History variables, which no guard reads, of the last Depth messages:
    log,           \* numbers of the messages broadcast
    stream,        \* what went into each connection: number and bytes
    since          \* how many messages were broadcast since it was accepted

kernelVars == <<conn, rq, space, edge, backlog>>
loopVars == <<running, clients, slow_clients, seq_no, epoll>>
sendVars == <<msg, todo, cur, remaining, to_drop>>
historyVars == <<log, stream, since>>
vars == <<kernelVars, loopVars, pc, batch, sendVars, historyVars>>

Message == [num : 0 .. SeqMod - 1, len : {HeartbeatSize, TradeSize, QuoteSize}]

\* EPOLLIN, or EPOLLHUP and EPOLLERR, for a descriptor.
Event == [fd : Fds \cup {ServerFd}, events : {"in", "hup"}]

\* What a connection got of a message.
Delivery == [num : 0 .. SeqMod - 1, sent : Nat, len : Nat]

\* What msg holds when no message is being broadcast.
NoMessage == [num |-> 0, len |-> HeartbeatSize]

Open == {fd \in Fds : conn[fd] # "none"}

Lower(a, b) == IF a < b THEN a ELSE b

KeepLast(s) == IF Len(s) > Depth THEN Tail(s) ELSE s

-----------------------------------------------------------------------------

\* The constructor and start().
Init ==
    /\ conn = [fd \in Fds |-> "none"]
    /\ rq = [fd \in Fds |-> 0]
    /\ space = [fd \in Fds |-> SndBuf]
    /\ edge = [fd \in Fds |-> FALSE]
    /\ backlog = 0
    /\ running = TRUE
    /\ clients = {}
    /\ slow_clients = {}
    /\ seq_no = 1
    /\ epoll = {}
    /\ pc = "wait"
    /\ batch = {}
    /\ msg = NoMessage
    /\ todo = {}
    /\ cur = NoFd
    /\ remaining = 0
    /\ to_drop = {}
    /\ log = <<>>
    /\ stream = [fd \in Fds |-> <<>>]
    /\ since = [fd \in Fds |-> 0]

-----------------------------------------------------------------------------
(* The peers and the kernel.                                               *)

PeerConnect ==
    /\ backlog < MaxBacklog
    /\ backlog' = backlog + 1
    /\ UNCHANGED <<conn, rq, space, edge, loopVars, pc, batch, sendVars, historyVars>>

\* A piece of the subscription, or of anything else, arrives.
PeerSubscribe(fd) ==
    /\ conn[fd] = "open"
    /\ rq[fd] < MaxChunks
    /\ rq' = [rq EXCEPT ![fd] = @ + 1]
    /\ edge' = [edge EXCEPT ![fd] = TRUE]
    /\ UNCHANGED <<conn, space, backlog, loopVars, pc, batch, sendVars, historyVars>>

PeerDrain(fd) ==
    /\ conn[fd] = "open"
    /\ \E free \in space[fd] + 1 .. SndBuf : space' = [space EXCEPT ![fd] = free]
    /\ UNCHANGED <<conn, rq, edge, backlog, loopVars, pc, batch, sendVars, historyVars>>

\* The client is gone.  Bytes that still reach it are answered with a reset.
PeerClose(fd) ==
    /\ conn[fd] = "open"
    /\ conn' = [conn EXCEPT ![fd] = IF space[fd] < SndBuf THEN "probed" ELSE "closed"]
    /\ edge' = [edge EXCEPT ![fd] = TRUE]
    /\ UNCHANGED <<rq, space, backlog, loopVars, pc, batch, sendVars, historyVars>>

PeerReset(fd) ==
    /\ conn[fd] \in {"open", "probed"}
    /\ conn' = [conn EXCEPT ![fd] = "reset"]
    /\ edge' = [edge EXCEPT ![fd] = TRUE]
    /\ UNCHANGED <<rq, space, backlog, loopVars, pc, batch, sendVars, historyVars>>

-----------------------------------------------------------------------------
(* The event loop.                                                         *)

stop ==
    /\ running
    /\ running' = FALSE
    /\ UNCHANGED <<kernelVars, clients, slow_clients, seq_no, epoll, pc, batch,
                   sendVars, historyVars>>

\* A reset connection reads as EPOLLHUP | EPOLLERR, a closed one or one with
\* data as EPOLLIN; epoll_wait looks again before it reports an edge.
Readable(fd) == rq[fd] > 0 \/ conn[fd] # "open"

Ready ==
    {[fd |-> fd, events |-> IF conn[fd] = "reset" THEN "hup" ELSE "in"] :
        fd \in {g \in epoll : edge[g] /\ Readable(g)}}
    \cup (IF backlog > 0 THEN {[fd |-> ServerFd, events |-> "in"]} ELSE {})

\* What does not fit into events[MAX_EVENTS] is reported another time.
epoll_wait ==
    /\ pc = "wait"
    /\ running
    /\ batch' \in SUBSET Ready
    /\ IF Cardinality(Ready) <= MaxEvents THEN batch' = Ready
                                         ELSE Cardinality(batch') = MaxEvents
    /\ edge' = [fd \in Fds |-> edge[fd] /\ Readable(fd)
                                       /\ \A e \in batch' : e.fd # fd]
    /\ pc' = "events"
    /\ UNCHANGED <<conn, rq, space, backlog, loopVars, sendVars, historyVars>>

Leave ==
    /\ pc = "wait"
    /\ ~running
    /\ pc' = "stopped"
    /\ UNCHANGED <<kernelVars, loopVars, batch, sendVars, historyVars>>

\* accept4 succeeds; or it fails, and the connection is gone or, when there
\* are no descriptors left, still waits.  epoll_ctl(ADD), whose result is
\* ignored, is taken to succeed, as it does while the kernel has memory.
handle_new_connection ==
    /\ pc = "events"
    /\ \E e \in batch : e.fd = ServerFd /\ batch' = batch \ {e}
    /\ \/ \E fd \in Fds \ Open :
            /\ backlog' = backlog - 1
            /\ conn' = [conn EXCEPT ![fd] = "open"]
            /\ epoll' = epoll \cup {fd}
            /\ clients' = clients \cup {fd}
       \/ /\ backlog' \in {backlog, backlog - 1}
          /\ UNCHANGED <<conn, epoll, clients>>
    /\ UNCHANGED <<rq, space, edge, running, slow_clients, seq_no, pc, sendVars,
                   historyVars>>

\* A disconnect that leaves the descriptor among the slow clients.
DisconnectForgetsSlow(fds) ==
    /\ conn' = [fd \in Fds |-> IF fd \in fds THEN "none" ELSE conn[fd]]
    /\ rq' = [fd \in Fds |-> IF fd \in fds THEN 0 ELSE rq[fd]]
    /\ space' = [fd \in Fds |-> IF fd \in fds THEN SndBuf ELSE space[fd]]
    /\ edge' = [fd \in Fds |-> edge[fd] /\ fd \notin fds]
    /\ epoll' = epoll \ fds
    /\ clients' = clients \ fds
    /\ slow_clients' = slow_clients
    /\ stream' = [fd \in Fds |-> IF fd \in fds THEN <<>> ELSE stream[fd]]
    /\ since' = [fd \in Fds |-> IF fd \in fds THEN 0 ELSE since[fd]]

\* A disconnect that does not close the descriptor.
DisconnectLeaks(fds) ==
    /\ epoll' = epoll \ fds
    /\ clients' = clients \ fds
    /\ slow_clients' = slow_clients \ fds
    /\ UNCHANGED <<conn, rq, space, edge, stream, since>>

\* epoll_ctl(DEL), close and the erasures, for each of the descriptors.
handle_client_disconnect(fds) ==
    /\ conn' = [fd \in Fds |-> IF fd \in fds THEN "none" ELSE conn[fd]]
    /\ rq' = [fd \in Fds |-> IF fd \in fds THEN 0 ELSE rq[fd]]
    /\ space' = [fd \in Fds |-> IF fd \in fds THEN SndBuf ELSE space[fd]]
    /\ edge' = [fd \in Fds |-> edge[fd] /\ fd \notin fds]
    /\ epoll' = epoll \ fds
    /\ clients' = clients \ fds
    /\ slow_clients' = slow_clients \ fds
    /\ stream' = [fd \in Fds |-> IF fd \in fds THEN <<>> ELSE stream[fd]]
    /\ since' = [fd \in Fds |-> IF fd \in fds THEN 0 ELSE since[fd]]

\* EPOLLHUP or EPOLLERR, or a recv that returns 0 or an error.
ClientGone(e) ==
    /\ pc = "events"
    /\ e.fd # ServerFd
    /\ e.events = "hup" \/ rq[e.fd] = 0 \/ conn[e.fd] = "reset"
    /\ batch' = batch \ {e}
    /\ handle_client_disconnect({e.fd})
    /\ UNCHANGED <<backlog, running, seq_no, pc, sendVars, log>>

\* One recv of up to 512 bytes; what is left is not read.
ClientData(e) ==
    /\ pc = "events"
    /\ e.fd # ServerFd
    /\ e.events = "in" /\ rq[e.fd] > 0 /\ conn[e.fd] # "reset"
    /\ batch' = batch \ {e}
    /\ \E left \in 0 .. rq[e.fd] - 1 : rq' = [rq EXCEPT ![e.fd] = left]
    /\ UNCHANGED <<conn, space, edge, backlog, loopVars, pc, sendVars, historyVars>>

EventsDone ==
    /\ pc = "events"
    /\ batch = {}
    /\ pc' = "tick"
    /\ UNCHANGED <<kernelVars, loopVars, batch, sendVars, historyVars>>

-----------------------------------------------------------------------------
(* Broadcasting.                                                           *)

\* broadcast_message: the loop over clients_ begins.
StartBroadcast(num, len) ==
    /\ msg' = [num |-> num, len |-> len]
    /\ todo' = clients
    /\ to_drop' = {}
    /\ log' = KeepLast(Append(log, num))
    /\ since' = [fd \in Fds |-> IF fd \in clients THEN Lower(since[fd] + 1, Depth)
                                                  ELSE since[fd]]
    /\ UNCHANGED <<cur, remaining, stream>>

\* seq_no_++ on a uint32_t.
NextSeq(n) == (n + 1) % SeqMod

is_trade(seq) == seq % 10 < 3

generate_and_broadcast ==
    /\ pc = "tick"
    /\ clients # {}
    /\ LET seq == IF FaultInjection /\ seq_no % FaultPeriod = 0
                  THEN NextSeq(seq_no) ELSE seq_no
       IN  /\ StartBroadcast(seq, IF is_trade(seq) THEN TradeSize ELSE QuoteSize)
           /\ seq_no' = NextSeq(seq)
    /\ pc' = "send"
    /\ UNCHANGED <<kernelVars, running, clients, slow_clients, epoll, batch>>

\* No tick is due, or there is nobody to send it to.
NoTick ==
    /\ pc = "tick"
    /\ pc' = "second"
    /\ UNCHANGED <<kernelVars, loopVars, batch, sendVars, historyVars>>

\* A second has passed.
Heartbeat ==
    /\ pc = "second"
    /\ clients # {}
    /\ StartBroadcast(seq_no, HeartbeatSize)
    /\ seq_no' = NextSeq(seq_no)
    /\ pc' = "beat"
    /\ UNCHANGED <<kernelVars, running, clients, slow_clients, epoll, batch>>

NoHeartbeat ==
    /\ pc = "second"
    /\ pc' = "wait"
    /\ UNCHANGED <<kernelVars, loopVars, batch, sendVars, historyVars>>

Broadcasting == pc \in {"send", "beat"}

NextClient(fd) ==
    /\ Broadcasting
    /\ cur = NoFd
    /\ fd \in todo
    /\ cur' = fd
    /\ remaining' = msg.len
    /\ todo' = todo \ {fd}
    /\ UNCHANGED <<kernelVars, loopVars, pc, batch, msg, to_drop, historyVars>>

\* The stream of the connection after r more bytes of the message.
Written(fd, r) ==
    LET s == stream[fd] IN
    IF remaining = msg.len
    THEN KeepLast(Append(s, [num |-> msg.num, sent |-> r, len |-> msg.len]))
    ELSE [s EXCEPT ![Len(s)].sent = @ + r]

\* A loop that offers send() the length of the whole message each time.
SendWholeLength(r) ==
    /\ Broadcasting
    /\ cur # NoFd
    /\ conn[cur] # "reset"
    /\ r <= Lower(msg.len, space[cur])
    /\ stream' = [stream EXCEPT ![cur] = Written(cur, r)]
    /\ space' = [space EXCEPT ![cur] = @ - r]
    /\ conn' = [conn EXCEPT ![cur] = IF @ = "closed" THEN "probed" ELSE @]
    /\ remaining' = remaining - r
    /\ cur' = IF r = remaining THEN NoFd ELSE cur
    /\ UNCHANGED <<rq, edge, backlog, loopVars, pc, batch, msg, todo, to_drop, log, since>>

\* send() takes r bytes; the loop ends when nothing remains.
SendSome(r) ==
    /\ Broadcasting
    /\ cur # NoFd
    /\ conn[cur] # "reset"
    /\ r <= Lower(remaining, space[cur])
    /\ stream' = [stream EXCEPT ![cur] = Written(cur, r)]
    /\ space' = [space EXCEPT ![cur] = @ - r]
    /\ conn' = [conn EXCEPT ![cur] = IF @ = "closed" THEN "probed" ELSE @]
    /\ remaining' = remaining - r
    /\ cur' = IF r = remaining THEN NoFd ELSE cur
    /\ UNCHANGED <<rq, edge, backlog, loopVars, pc, batch, msg, todo, to_drop, log, since>>

\* A full buffer that goes unnoticed.
SendFullUntagged ==
    /\ Broadcasting
    /\ cur # NoFd
    /\ conn[cur] # "reset"
    /\ space[cur] = 0
    /\ cur' = NoFd
    /\ remaining' = 0
    /\ UNCHANGED <<kernelVars, loopVars, pc, batch, msg, todo, to_drop, historyVars>>

\* A full buffer taken for an error.
SendFullDrops ==
    /\ Broadcasting
    /\ cur # NoFd
    /\ conn[cur] # "reset"
    /\ space[cur] = 0
    /\ to_drop' = to_drop \cup {cur}
    /\ cur' = NoFd
    /\ remaining' = 0
    /\ UNCHANGED <<kernelVars, loopVars, pc, batch, msg, todo, historyVars>>

\* EAGAIN: the client is slow, the rest of the message is dropped.
SendFull ==
    /\ Broadcasting
    /\ cur # NoFd
    /\ conn[cur] # "reset"
    /\ space[cur] = 0
    /\ slow_clients' = slow_clients \cup {cur}
    /\ cur' = NoFd
    /\ remaining' = 0
    /\ UNCHANGED <<kernelVars, running, clients, seq_no, epoll, pc, batch, msg, todo,
                   to_drop, historyVars>>

\* Any other error.  The only ones that a connected TCP socket is taken to give
\* are those of a connection that was reset (ECONNRESET, EPIPE); a kernel out of
\* memory (ENOBUFS, ENOMEM) would have a live client dropped here.
SendError ==
    /\ Broadcasting
    /\ cur # NoFd
    /\ conn[cur] = "reset"
    /\ to_drop' = to_drop \cup {cur}
    /\ cur' = NoFd
    /\ remaining' = 0
    /\ UNCHANGED <<kernelVars, loopVars, pc, batch, msg, todo, historyVars>>

\* The loop over to_drop, and back to run().
EndBroadcast ==
    /\ Broadcasting
    /\ cur = NoFd
    /\ todo = {}
    /\ handle_client_disconnect(to_drop)
    /\ to_drop' = {}
    /\ msg' = NoMessage
    /\ pc' = IF pc = "send" THEN "second" ELSE "wait"
    /\ UNCHANGED <<backlog, running, seq_no, batch, todo, cur, remaining, log>>

-----------------------------------------------------------------------------

Peer ==
    \/ PeerConnect
    \/ \E fd \in Fds : \/ PeerSubscribe(fd)
                       \/ PeerDrain(fd)
                       \/ PeerClose(fd)
                       \/ PeerReset(fd)

Loop ==
    \/ epoll_wait
    \/ Leave
    \/ handle_new_connection
    \/ \E e \in batch : ClientGone(e) \/ ClientData(e)
    \/ EventsDone
    \/ generate_and_broadcast
    \/ NoTick
    \/ Heartbeat
    \/ NoHeartbeat
    \/ \E fd \in Fds : NextClient(fd)
    \/ \E r \in 1 .. SndBuf : SendSome(r)
    \/ SendFull
    \/ SendError
    \/ EndBroadcast

Next == Peer \/ Loop \/ stop

Spec == Init /\ [][Next]_vars

\* The loop never blocks for more than a millisecond; ticks keep falling due;
\* and a peer's kernel answers bytes for a closed socket with a reset.
FairSpec ==
    /\ Spec
    /\ WF_vars(Loop)
    /\ SF_vars(generate_and_broadcast)
    /\ \A fd \in Fds : WF_vars(conn[fd] = "probed" /\ PeerReset(fd))

-----------------------------------------------------------------------------
(* Properties.                                                             *)

\* Each variable keeps its type; seq_no_ stays within its width, and remaining,
\* which is unsigned, never goes below 0.
TypeOK ==
    /\ conn \in [Fds -> {"none", "open", "closed", "probed", "reset"}]
    /\ rq \in [Fds -> 0 .. MaxChunks]
    /\ space \in [Fds -> 0 .. SndBuf]
    /\ edge \in [Fds -> BOOLEAN]
    /\ backlog \in 0 .. MaxBacklog
    /\ running \in BOOLEAN
    /\ clients \subseteq Fds
    /\ slow_clients \subseteq Fds
    /\ seq_no \in 0 .. SeqMod - 1
    /\ epoll \subseteq Fds
    /\ pc \in {"wait", "events", "tick", "send", "second", "beat", "stopped"}
    /\ batch \subseteq Event
    /\ msg \in Message
    /\ todo \subseteq Fds
    /\ cur \in Fds \cup {NoFd}
    /\ remaining \in Nat
    /\ to_drop \subseteq Fds
    /\ log \in Seq(0 .. SeqMod - 1)
    /\ stream \in [Fds -> Seq(Delivery)]
    /\ since \in [Fds -> 0 .. Depth]

\* The simulator's books agree with the kernel: exactly the open connections
\* are clients, each is watched by epoll, an event or a broadcast never refers
\* to a descriptor that was closed (and perhaps given to someone else), and no
\* descriptor keeps the slow tag of an earlier connection.
BooksAgree ==
    /\ clients = Open
    /\ epoll = clients
    /\ slow_clients \subseteq clients
    /\ {e.fd : e \in batch} \subseteq clients \cup {ServerFd}
    /\ todo \cup to_drop \subseteq clients
    /\ cur \in clients \cup {NoFd}

\* The last n members of a sequence.
Suffix(s, n) == SubSeq(s, Len(s) - n + 1, Len(s))

Whole(m) == m.sent = m.len

\* A client that never filled its buffer has received every message broadcast
\* since it was accepted, whole and in order: one slow client costs the others
\* nothing.
FastClientsMissNothing ==
    \A fd \in clients \ slow_clients :
        ~Broadcasting =>
            /\ Len(stream[fd]) = since[fd]
            /\ \A i \in 1 .. since[fd] :
                  /\ Whole(stream[fd][i])
                  /\ stream[fd][i].num = Suffix(log, since[fd])[i]

\* A client that is still there is never dropped, however slow it is.
OnlyTheGoneAreDropped ==
    [][\A fd \in clients \ clients' : conn[fd] # "open"]_vars

\* "skips that client's delivery for the current tick" (docs/NETWORK.md:44): a
\* message reaches a client as a whole or not at all.
AllOrNothing ==
    \A fd \in clients :
        ~Broadcasting => \A i \in 1 .. Len(stream[fd]) : Whole(stream[fd][i])

\* The descriptor of a client that has gone away is given back, even if the
\* data it left unread hides its end of file, as long as ticks are sent.
GoneClientsAreDropped ==
    \A fd \in Fds :
        conn[fd] \in {"closed", "probed", "reset"} ~> (conn[fd] = "none" \/ ~running)

=============================================================================
