---------------------- MODULE ExchangeSimulatorProofs ----------------------
(***************************************************************************)
(* Proofs about the simulator, for any set of descriptors, any sizes of    *)
(* messages and buffers, and any range of sequence numbers.                *)
(***************************************************************************)
EXTENDS ExchangeSimulator, SequenceTheorems, TLAPS

\* Each phase of the loop starts with the books of the other phases closed.
PhaseInv ==
    /\ pc # "events" => batch = {}
    /\ ~Broadcasting => todo = {} /\ to_drop = {} /\ cur = NoFd

\* The events of one epoll_wait are still true when the loop reaches them: one
\* per descriptor, a waiting connection, a reset, data or an end of file.
EventsInv ==
    /\ \A e \in batch, f \in batch : e.fd = f.fd => e = f
    /\ \A e \in batch :
          /\ e.fd = ServerFd => backlog > 0
          /\ e.fd # ServerFd /\ e.events = "hup" => conn[e.fd] = "reset"
          /\ e.fd # ServerFd => rq[e.fd] > 0 \/ conn[e.fd] # "open"

\* Only connections found reset wait to be dropped.
DropInv == \A fd \in to_drop : conn[fd] = "reset"

ServerInv ==
    /\ TypeOK
    /\ BooksAgree
    /\ PhaseInv
    /\ EventsInv
    /\ DropInv

-----------------------------------------------------------------------------

\* The sequence number stays within the range of its type
\* (exchange_simulator.cpp:134, 179, 182).
LEMMA NextSeqType == ASSUME NEW n \in Nat PROVE NextSeq(n) \in 0 .. SeqMod - 1
<1>1. SeqMod \in Nat /\ SeqMod > 0
    BY ServerAssumption
<1> QED
    BY <1>1 DEF NextSeq

\* Forgetting old messages keeps the type of a history.
LEMMA KeepLastType == ASSUME NEW S, NEW s \in Seq(S) PROVE KeepLast(s) \in Seq(S)
BY ServerAssumption DEF KeepLast

\* What a connection was sent stays well typed when more bytes go into it
\* (exchange_simulator.cpp:202-205).
LEMMA WrittenType ==
    ASSUME TypeOK, NEW fd \in Fds, NEW r \in Nat
    PROVE  Written(fd, r) \in Seq(Delivery)
<1> DEFINE s == stream[fd]
           m == [num |-> msg.num, sent |-> r, len |-> msg.len]
<1>1. s \in Seq(Delivery)
    BY DEF TypeOK
<1>2. m \in Delivery
    BY ServerAssumption DEF TypeOK, Message, Delivery
<1>3. Append(s, m) \in Seq(Delivery)
    BY <1>1, <1>2
<1>4. KeepLast(Append(s, m)) \in Seq(Delivery)
    BY <1>3, KeepLastType
<1>5. [s EXCEPT ![Len(s)].sent = @ + r] \in Seq(Delivery)
  <2>1. s \in [1 .. Len(s) -> Delivery] /\ Len(s) \in Nat
      BY <1>1, LenProperties
  <2>2. CASE Len(s) = 0
    <3>1. Len(s) \notin DOMAIN s
        BY <2>1, <2>2
    <3>2. [s EXCEPT ![Len(s)].sent = @ + r] = s
        BY <2>1, <3>1
    <3> QED
        BY <3>2, <1>1
  <2>3. CASE Len(s) # 0
    <3> DEFINE e == [s[Len(s)] EXCEPT !.sent = @ + r]
    <3>1. e \in Delivery /\ Len(s) \in 1 .. Len(s)
        BY <2>1, <2>3 DEF Delivery
    <3>2. [s EXCEPT ![Len(s)] = e] \in Seq(Delivery)
      <4> HIDE DEF e, s
      <4> QED
          BY <1>1, <3>1, ExceptSeq
    <3> QED
        BY <3>2
  <2> QED
      BY <2>2, <2>3
<1> QED
    BY <1>4, <1>5 DEF Written

-----------------------------------------------------------------------------

\* The simulator starts with empty books (exchange_simulator.cpp:31-40, 56-91).
LEMMA ServerInit == Init => ServerInv
<1> SUFFICES ASSUME Init PROVE ServerInv
    OBVIOUS
<1>1. TypeOK
  <2>1. NoMessage \in Message /\ 1 \in 0 .. SeqMod - 1
      BY ServerAssumption DEF Message, NoMessage
  <2> QED
      BY <2>1, ServerAssumption DEF Init, TypeOK
<1>2. BooksAgree
    BY DEF Init, BooksAgree, Open
<1>3. PhaseInv /\ EventsInv /\ DropInv
    BY DEF Init, PhaseInv, EventsInv, DropInv, Broadcasting
<1> QED
    BY <1>1, <1>2, <1>3 DEF ServerInv

-----------------------------------------------------------------------------

\* The part of the type invariant that is about the kernel.
KernelTypes ==
    /\ conn \in [Fds -> {"none", "open", "closed", "probed", "reset"}]
    /\ rq \in [Fds -> 0 .. MaxChunks]
    /\ space \in [Fds -> 0 .. SndBuf]
    /\ edge \in [Fds -> BOOLEAN]
    /\ backlog \in 0 .. MaxBacklog

\* No step of a peer takes back a byte, a connection or the end of one.
PeersOnlyAdd ==
    /\ backlog' >= backlog
    /\ \A fd \in Fds : /\ rq'[fd] >= rq[fd]
                       /\ (conn[fd] = "none") <=> (conn'[fd] = "none")
                       /\ conn[fd] # "open" => conn'[fd] # "open"
                       /\ conn[fd] = "reset" => conn'[fd] = "reset"

\* What the peers do to the kernel's state (exchange_simulator.cpp:77-129 sees
\* it through epoll).
LEMMA PeerKernel ==
    ASSUME KernelTypes, Peer
    PROVE  KernelTypes' /\ PeersOnlyAdd
<1> USE ServerAssumption DEF KernelTypes
<1>1. CASE PeerConnect
    BY <1>1 DEF PeerConnect, PeersOnlyAdd
<1>2. ASSUME NEW fd \in Fds, PeerSubscribe(fd) PROVE KernelTypes' /\ PeersOnlyAdd
  <2>1. rq'[fd] = rq[fd] + 1 /\ rq'[fd] \in 0 .. MaxChunks
      BY <1>2 DEF PeerSubscribe
  <2> QED
      BY <1>2, <2>1 DEF PeerSubscribe, PeersOnlyAdd
<1>3. ASSUME NEW fd \in Fds, PeerDrain(fd) PROVE KernelTypes' /\ PeersOnlyAdd
  <2>1. PICK free \in space[fd] + 1 .. SndBuf : space' = [space EXCEPT ![fd] = free]
      BY <1>3 DEF PeerDrain
  <2>2. free \in 0 .. SndBuf
      BY <2>1
  <2>3. space' \in [Fds -> 0 .. SndBuf]
      BY <2>1, <2>2
  <2>4. UNCHANGED <<conn, rq, edge, backlog>>
      BY <1>3 DEF PeerDrain
  <2> QED
      BY <2>3, <2>4 DEF PeersOnlyAdd
<1>4. ASSUME NEW fd \in Fds, PeerClose(fd) PROVE KernelTypes' /\ PeersOnlyAdd
  <2>1. UNCHANGED <<rq, space, backlog>>
      BY <1>4 DEF PeerClose
  <2>2. /\ conn[fd] = "open"
        /\ conn' = [conn EXCEPT ![fd] = IF space[fd] < SndBuf THEN "probed" ELSE "closed"]
        /\ edge' = [edge EXCEPT ![fd] = TRUE]
      BY <1>4 DEF PeerClose
  <2>3. KernelTypes'
      BY <2>1, <2>2
  <2> QED
      BY <2>1, <2>2, <2>3 DEF PeersOnlyAdd
<1>5. ASSUME NEW fd \in Fds, PeerReset(fd) PROVE KernelTypes' /\ PeersOnlyAdd
  <2>1. UNCHANGED <<rq, space, backlog>>
      BY <1>5 DEF PeerReset
  <2>2. /\ conn[fd] \in {"open", "probed"}
        /\ conn' = [conn EXCEPT ![fd] = "reset"]
        /\ edge' = [edge EXCEPT ![fd] = TRUE]
      BY <1>5 DEF PeerReset
  <2>3. KernelTypes'
      BY <2>1, <2>2
  <2> QED
      BY <2>1, <2>2, <2>3 DEF PeersOnlyAdd
<1> QED
    BY <1>1, <1>2, <1>3, <1>4, <1>5 DEF Peer

\* The peers change the kernel's state only, and take nothing back that an
\* event of this round promised.
LEMMA PeerStep == ServerInv /\ Peer => ServerInv'
<1> SUFFICES ASSUME ServerInv, Peer PROVE ServerInv'
    OBVIOUS
<1> USE ServerAssumption DEF ServerInv
<1>1. UNCHANGED <<loopVars, pc, batch, sendVars, historyVars>>
    BY DEF Peer, PeerConnect, PeerSubscribe, PeerDrain, PeerClose, PeerReset
<1>2. KernelTypes' /\ PeersOnlyAdd
    BY PeerKernel DEF TypeOK, KernelTypes
<1>3. /\ backlog' >= backlog
      /\ \A fd \in Fds : /\ rq'[fd] >= rq[fd]
                         /\ (conn[fd] = "none") <=> (conn'[fd] = "none")
                         /\ conn[fd] # "open" => conn'[fd] # "open"
                         /\ conn[fd] = "reset" => conn'[fd] = "reset"
    BY <1>2 DEF PeersOnlyAdd
<1>4. TypeOK'
    BY <1>1, <1>2 DEF TypeOK, KernelTypes, loopVars, sendVars, historyVars
<1>5. BooksAgree'
    BY <1>1, <1>3 DEF BooksAgree, Open, loopVars, sendVars
<1>6. PhaseInv'
    BY <1>1 DEF PhaseInv, Broadcasting, sendVars
<1>7. EventsInv'
  <2>1. \A e \in batch : e.fd \in Fds \cup {ServerFd}
      BY DEF TypeOK, Event
  <2>2. ASSUME NEW e \in batch, e.fd = ServerFd PROVE backlog' > 0
      BY <1>2, <1>3, <2>2 DEF EventsInv, TypeOK, KernelTypes
  <2>3. ASSUME NEW e \in batch, e.fd # ServerFd
        PROVE  /\ e.events = "hup" => conn'[e.fd] = "reset"
               /\ rq'[e.fd] > 0 \/ conn'[e.fd] # "open"
    <3>1. e.fd \in Fds
        BY <2>1, <2>3
    <3>2. rq[e.fd] \in Nat /\ rq'[e.fd] \in Nat
        BY <1>2, <3>1 DEF TypeOK, KernelTypes
    <3> QED
        BY <1>3, <2>3, <3>1, <3>2 DEF EventsInv
  <2> QED
      BY <1>1, <2>2, <2>3 DEF EventsInv
<1>8. DropInv'
    BY <1>1, <1>3 DEF DropInv, TypeOK, sendVars
<1> QED
    BY <1>4, <1>5, <1>6, <1>7, <1>8

\* Closing a set of clients takes exactly those out of the kernel's and the
\* simulator's books (exchange_simulator.cpp:163-169).
LEMMA DisconnectBooks ==
    ASSUME ServerInv, NEW fds \in SUBSET clients, handle_client_disconnect(fds)
    PROVE  /\ clients' = clients \ fds
           /\ clients' = Open'
           /\ epoll' = clients'
           /\ slow_clients' \subseteq clients'
           /\ conn' \in [Fds -> {"none", "open", "closed", "probed", "reset"}]
           /\ rq' \in [Fds -> 0 .. MaxChunks]
           /\ space' \in [Fds -> 0 .. SndBuf]
           /\ edge' \in [Fds -> BOOLEAN]
           /\ stream' \in [Fds -> Seq(Delivery)]
           /\ since' \in [Fds -> 0 .. Depth]
           /\ \A fd \in Fds \ fds : conn'[fd] = conn[fd] /\ rq'[fd] = rq[fd]
<1> USE ServerAssumption DEF ServerInv, TypeOK, handle_client_disconnect
<1>1. /\ conn' \in [Fds -> {"none", "open", "closed", "probed", "reset"}]
      /\ rq' \in [Fds -> 0 .. MaxChunks]
      /\ space' \in [Fds -> 0 .. SndBuf]
      /\ edge' \in [Fds -> BOOLEAN]
      /\ since' \in [Fds -> 0 .. Depth]
      /\ \A fd \in Fds \ fds : conn'[fd] = conn[fd] /\ rq'[fd] = rq[fd]
    OBVIOUS
<1>2. stream' \in [Fds -> Seq(Delivery)]
    BY EmptySeq
<1>3. clients' = Open'
    BY DEF BooksAgree, Open
<1> QED
    BY <1>1, <1>2, <1>3 DEF BooksAgree

\* The events of a round: the books stay true while the loop works through
\* them, though handling one closes or opens connections (exchange_simulator.cpp:102-115).
LEMMA EventStep ==
    ASSUME ServerInv,
           \/ epoll_wait \/ Leave \/ handle_new_connection \/ EventsDone
           \/ \E e \in batch : ClientGone(e) \/ ClientData(e)
    PROVE  ServerInv'
<1> USE ServerAssumption DEF ServerInv
<1>0. \A e \in batch : e.fd \in Fds \cup {ServerFd}
    BY DEF TypeOK, Event
<1>1. CASE epoll_wait
  <2> USE <1>1 DEF epoll_wait
  <2>1. UNCHANGED <<conn, rq, space, backlog, loopVars, sendVars, historyVars>>
      OBVIOUS
  <2>2. pc' = "events" /\ ~Broadcasting /\ ~Broadcasting'
      BY DEF Broadcasting
  <2>3. \A e \in batch' : \/ /\ e.fd \in epoll
                             /\ Readable(e.fd)
                             /\ e = [fd |-> e.fd, events |-> IF conn[e.fd] = "reset"
                                                             THEN "hup" ELSE "in"]
                          \/ e = [fd |-> ServerFd, events |-> "in"] /\ backlog > 0
    <3>1. ASSUME NEW e \in Ready
          PROVE  \/ /\ e.fd \in epoll
                    /\ Readable(e.fd)
                    /\ e = [fd |-> e.fd, events |-> IF conn[e.fd] = "reset"
                                                    THEN "hup" ELSE "in"]
                 \/ e = [fd |-> ServerFd, events |-> "in"] /\ backlog > 0
        BY DEF Ready
    <3>2. batch' \subseteq Ready
        OBVIOUS
    <3> QED
        BY <3>1, <3>2
  <2>4. batch' \subseteq Event
    <3>1. epoll \subseteq Fds
        BY DEF TypeOK
    <3> QED
        BY <2>3, <3>1 DEF Event
  <2>5. TypeOK'
      BY <2>1, <2>2, <2>4 DEF TypeOK, loopVars, sendVars, historyVars
  <2>6. BooksAgree'
      BY <2>1, <2>3 DEF BooksAgree, Open, loopVars, sendVars
  <2>7. PhaseInv'
      BY <2>1, <2>2 DEF PhaseInv, sendVars
  <2>8. EventsInv'
    <3>1. ServerFd \notin epoll
        BY DEF TypeOK
    <3>2. ASSUME NEW e \in batch', NEW f \in batch', e.fd = f.fd PROVE e = f
      <4>1. CASE e.fd = ServerFd
          BY <2>3, <3>1, <3>2, <4>1
      <4>2. CASE e.fd # ServerFd
          BY <2>3, <3>2, <4>2
      <4> QED
          BY <4>1, <4>2
    <3>3. ASSUME NEW e \in batch', e.fd = ServerFd PROVE backlog' > 0
        BY <2>1, <2>3, <3>1, <3>3
    <3>4. ASSUME NEW e \in batch', e.fd # ServerFd
          PROVE  /\ e.events = "hup" => conn'[e.fd] = "reset"
                 /\ rq'[e.fd] > 0 \/ conn'[e.fd] # "open"
        BY <2>1, <2>3, <3>4 DEF Readable
    <3> QED
        BY <3>2, <3>3, <3>4 DEF EventsInv
  <2>9. DropInv'
      BY <2>1 DEF DropInv, sendVars
  <2> QED
      BY <2>5, <2>6, <2>7, <2>8, <2>9
<1>2. CASE Leave \/ EventsDone
  <2>1. /\ UNCHANGED <<kernelVars, loopVars, batch, sendVars, historyVars>>
        /\ pc' \in {"stopped", "tick"} /\ batch = {}
        /\ ~Broadcasting /\ ~Broadcasting'
      BY <1>2 DEF Leave, EventsDone, PhaseInv, Broadcasting
  <2> USE <2>1 DEF kernelVars, loopVars, sendVars, historyVars
  <2>2. TypeOK'
      BY DEF TypeOK
  <2> QED
      BY <2>2 DEF BooksAgree, PhaseInv, EventsInv, DropInv, Open
<1>3. CASE handle_new_connection
  <2> USE <1>3 DEF handle_new_connection
  <2>1. PICK e \in batch : e.fd = ServerFd /\ batch' = batch \ {e}
      OBVIOUS
  <2>2. backlog > 0 /\ \A f \in batch' : f.fd # ServerFd
      BY <2>1 DEF EventsInv
  <2>3. /\ conn' \in [Fds -> {"none", "open", "closed", "probed", "reset"}]
        /\ backlog' \in 0 .. MaxBacklog
        /\ epoll' = clients'
        /\ clients' = Open'
        /\ clients \subseteq clients'
        /\ clients' \subseteq Fds
        /\ \A fd \in clients : conn'[fd] = conn[fd]
    <3> USE DEF TypeOK, BooksAgree, Open
    <3>1. CASE UNCHANGED <<conn, epoll, clients>> /\ backlog' \in {backlog, backlog - 1}
        BY <2>2, <3>1
    <3>2. ASSUME NEW fd \in Fds \ Open, backlog' = backlog - 1,
                 conn' = [conn EXCEPT ![fd] = "open"],
                 epoll' = epoll \cup {fd}, clients' = clients \cup {fd}
          PROVE  <2>3
        BY <2>2, <3>2
    <3> QED
        BY <3>1, <3>2
  <2>4. TypeOK'
      BY <2>1, <2>3 DEF TypeOK, sendVars, historyVars
  <2>5. BooksAgree'
      BY <2>1, <2>3 DEF BooksAgree, sendVars
  <2>6. PhaseInv'
      BY <2>1 DEF PhaseInv, Broadcasting, sendVars
  <2>7. EventsInv'
      BY <2>1, <2>2, <2>3 DEF EventsInv, BooksAgree
  <2>8. DropInv'
      BY <2>3 DEF DropInv, BooksAgree, sendVars
  <2> QED
      BY <2>4, <2>5, <2>6, <2>7, <2>8
<1>4. ASSUME NEW e \in batch, ClientGone(e) PROVE ServerInv'
  <2> USE <1>4 DEF ClientGone
  <2>1. e.fd \in clients /\ {e.fd} \in SUBSET clients
      BY DEF BooksAgree
  <2>2. /\ clients' = clients \ {e.fd}
        /\ clients' = Open'
        /\ epoll' = clients'
        /\ slow_clients' \subseteq clients'
        /\ \A fd \in Fds \ {e.fd} : conn'[fd] = conn[fd] /\ rq'[fd] = rq[fd]
      BY <2>1, DisconnectBooks
  <2>3. todo = {} /\ to_drop = {} /\ cur = NoFd
      BY DEF PhaseInv, Broadcasting
  <2>4. \A f \in batch' : f \in batch /\ f.fd # e.fd
      BY DEF EventsInv
  <2>5. TypeOK'
    <3>1. /\ conn' \in [Fds -> {"none", "open", "closed", "probed", "reset"}]
          /\ rq' \in [Fds -> 0 .. MaxChunks]
          /\ space' \in [Fds -> 0 .. SndBuf]
          /\ edge' \in [Fds -> BOOLEAN]
          /\ stream' \in [Fds -> Seq(Delivery)]
          /\ since' \in [Fds -> 0 .. Depth]
        BY <2>1, DisconnectBooks
    <3> QED
        BY <2>2, <3>1 DEF TypeOK, sendVars
  <2>6. BooksAgree'
      BY <2>2, <2>3, <2>4 DEF BooksAgree, sendVars
  <2>7. PhaseInv'
      BY DEF PhaseInv, Broadcasting, sendVars
  <2>8. EventsInv'
      BY <1>0, <2>2, <2>4 DEF EventsInv
  <2>9. DropInv'
      BY <2>3 DEF DropInv, sendVars
  <2> QED
      BY <2>5, <2>6, <2>7, <2>8, <2>9
<1>5. ASSUME NEW e \in batch, ClientData(e) PROVE ServerInv'
  <2> USE <1>5 DEF ClientData
  <2>1. /\ rq' \in [Fds -> 0 .. MaxChunks]
        /\ \A fd \in Fds \ {e.fd} : rq'[fd] = rq[fd]
      BY <1>0 DEF TypeOK
  <2>2. \A f \in batch' : f \in batch /\ f.fd # e.fd
      BY DEF EventsInv
  <2>3. TypeOK'
      BY <2>1, <2>2 DEF TypeOK, loopVars, sendVars, historyVars
  <2>4. BooksAgree'
      BY <2>2 DEF BooksAgree, Open, loopVars, sendVars
  <2>5. PhaseInv'
      BY DEF PhaseInv, Broadcasting, sendVars
  <2>6. EventsInv'
      BY <1>0, <2>1, <2>2 DEF EventsInv
  <2>7. DropInv'
      BY DEF DropInv, sendVars
  <2> QED
      BY <2>3, <2>4, <2>5, <2>6, <2>7
<1> QED
    BY <1>1, <1>2, <1>3, <1>4, <1>5

-----------------------------------------------------------------------------

\* Broadcasting: a broadcast walks the clients it started with, closes only
\* those whose connection failed, and leaves nothing behind
\* (exchange_simulator.cpp:118-137, 171-217).
LEMMA BroadcastStep ==
    ASSUME ServerInv,
           \/ generate_and_broadcast \/ NoTick \/ Heartbeat \/ NoHeartbeat
           \/ \E fd \in Fds : NextClient(fd)
           \/ \E r \in 1 .. SndBuf : SendSome(r)
           \/ SendFull \/ SendError \/ EndBroadcast
    PROVE  ServerInv'
<1> USE ServerAssumption DEF ServerInv
<1>0. seq_no \in Nat /\ seq_no \in 0 .. SeqMod - 1 /\ NextSeq(seq_no) \in 0 .. SeqMod - 1
  <2>1. seq_no \in Nat /\ seq_no \in 0 .. SeqMod - 1
      BY DEF TypeOK
  <2> QED
      BY <2>1, NextSeqType
<1>1. ASSUME NEW num \in 0 .. SeqMod - 1,
             NEW len \in {HeartbeatSize, TradeSize, QuoteSize},
             StartBroadcast(num, len), seq_no' \in 0 .. SeqMod - 1,
             pc \in {"tick", "second"}, pc' \in {"send", "beat"},
             UNCHANGED <<kernelVars, running, clients, slow_clients, epoll, batch>>
      PROVE  ServerInv'
  <2> USE <1>1 DEF StartBroadcast, kernelVars
  <2>1. log' \in Seq(0 .. SeqMod - 1)
    <3>1. Append(log, num) \in Seq(0 .. SeqMod - 1)
        BY DEF TypeOK
    <3> QED
        BY <3>1, KeepLastType
  <2>2. since' \in [Fds -> 0 .. Depth]
    <3>1. \A n \in 0 .. Depth : Lower(n + 1, Depth) \in 0 .. Depth
        BY DEF Lower
    <3> QED
        BY <3>1 DEF TypeOK
  <2>3. TypeOK'
      BY <2>1, <2>2 DEF TypeOK, Message
  <2>4. ~Broadcasting /\ Broadcasting' /\ cur = NoFd /\ batch = {}
      BY DEF Broadcasting, PhaseInv
  <2> QED
      BY <2>3, <2>4 DEF BooksAgree, PhaseInv, EventsInv, DropInv, Open
<1>2. CASE generate_and_broadcast
  <2> DEFINE seq == IF FaultInjection /\ seq_no % FaultPeriod = 0
                    THEN NextSeq(seq_no) ELSE seq_no
  <2>1. seq \in 0 .. SeqMod - 1 /\ seq \in Nat
      BY <1>0
  <2>2. NextSeq(seq) \in 0 .. SeqMod - 1
      BY <2>1, NextSeqType
  <2> QED
      BY <1>1, <1>2, <2>1, <2>2 DEF generate_and_broadcast
<1>3. CASE Heartbeat
    BY <1>1, <1>3, <1>0 DEF Heartbeat
<1>4. CASE NoTick \/ NoHeartbeat
  <2>1. /\ UNCHANGED <<kernelVars, loopVars, batch, sendVars, historyVars>>
        /\ pc' \in {"second", "wait"} /\ batch = {}
        /\ ~Broadcasting /\ ~Broadcasting'
      BY <1>4 DEF NoTick, NoHeartbeat, PhaseInv, Broadcasting
  <2> USE <2>1 DEF kernelVars, loopVars, sendVars, historyVars
  <2>2. TypeOK'
      BY DEF TypeOK
  <2> QED
      BY <2>2 DEF BooksAgree, PhaseInv, EventsInv, DropInv, Open
<1>5. ASSUME Broadcasting PROVE batch = {} /\ pc # "events"
    BY <1>5 DEF PhaseInv, Broadcasting
<1>6. ASSUME NEW fd \in Fds, NextClient(fd) PROVE ServerInv'
  <2> USE <1>6 DEF NextClient, kernelVars, loopVars, historyVars
  <2>1. TypeOK'
      BY DEF TypeOK, Message
  <2> QED
      BY <1>5, <2>1 DEF BooksAgree, PhaseInv, EventsInv, DropInv, Open, Broadcasting
<1>7. ASSUME NEW r \in 1 .. SndBuf, SendSome(r) PROVE ServerInv'
  <2>0. r <= Lower(remaining, space[cur]) /\ cur # NoFd
      BY <1>7 DEF SendSome
  <2>1. cur \in Fds /\ cur \in clients /\ r \in Nat /\ r <= remaining /\ r <= space[cur]
    <3>1. cur \in clients
        BY <2>0 DEF BooksAgree
    <3>2. cur \in Fds
        BY <3>1 DEF TypeOK
    <3>3. remaining \in Nat /\ space[cur] \in Nat
        BY <3>2 DEF TypeOK
    <3>4. r \in Nat
        BY <1>7
    <3>5. r <= remaining /\ r <= space[cur]
        BY <2>0, <3>3, <3>4 DEF Lower
    <3> QED
        BY <3>1, <3>2, <3>4, <3>5
  <2> USE <1>7 DEF SendSome, loopVars
  <2>2. stream' \in [Fds -> Seq(Delivery)]
      BY <2>1, WrittenType DEF TypeOK
  <2>3. /\ conn' \in [Fds -> {"none", "open", "closed", "probed", "reset"}]
        /\ \A fd \in Fds : /\ (conn[fd] = "none") <=> (conn'[fd] = "none")
                           /\ conn[fd] = "reset" => conn'[fd] = "reset"
      BY <2>1 DEF TypeOK
  <2>4. space' \in [Fds -> 0 .. SndBuf] /\ remaining' \in Nat
    <3>1. space \in [Fds -> 0 .. SndBuf] /\ remaining \in Nat
        BY DEF TypeOK
    <3> HIDE <1>7 DEF SendSome, ServerInv
    <3>2. space[cur] - r \in 0 .. SndBuf /\ remaining - r \in Nat
        BY <2>1, <3>1
    <3>3. space' = [space EXCEPT ![cur] = @ - r] /\ remaining' = remaining - r
        BY <1>7 DEF SendSome
    <3> QED
        BY <2>1, <3>1, <3>2, <3>3
  <2>5. TypeOK'
      BY <2>2, <2>3, <2>4 DEF TypeOK
  <2>6. BooksAgree'
      BY <2>3 DEF BooksAgree, Open
  <2>7. PhaseInv' /\ EventsInv'
      BY <1>5 DEF PhaseInv, EventsInv, Broadcasting
  <2>8. DropInv'
      BY <2>3 DEF DropInv, TypeOK
  <2> QED
      BY <2>5, <2>6, <2>7, <2>8
<1>8. CASE SendFull \/ SendError
  <2> USE <1>8 DEF SendFull, SendError, kernelVars, loopVars, historyVars
  <2>1. cur \in clients /\ cur \in Fds
      BY DEF BooksAgree, TypeOK
  <2>2. TypeOK'
    <3>1. slow_clients' \subseteq Fds /\ to_drop' \subseteq Fds /\ remaining' \in Nat
        BY <2>1 DEF TypeOK
    <3> QED
        BY <3>1 DEF TypeOK
  <2>3. BooksAgree'
      BY <2>1 DEF BooksAgree, Open
  <2> QED
      BY <1>5, <2>2, <2>3 DEF PhaseInv, EventsInv, DropInv, Broadcasting
<1>9. CASE EndBroadcast
  <2> USE <1>9 DEF EndBroadcast
  <2>1. to_drop \in SUBSET clients /\ batch = {}
      BY <1>5 DEF BooksAgree
  <2>2. /\ clients' = Open'
        /\ epoll' = clients'
        /\ clients' \subseteq clients
        /\ slow_clients' \subseteq clients'
      BY <2>1, DisconnectBooks
  <2>3. TypeOK'
    <3>1. /\ conn' \in [Fds -> {"none", "open", "closed", "probed", "reset"}]
          /\ rq' \in [Fds -> 0 .. MaxChunks]
          /\ space' \in [Fds -> 0 .. SndBuf]
          /\ edge' \in [Fds -> BOOLEAN]
          /\ stream' \in [Fds -> Seq(Delivery)]
          /\ since' \in [Fds -> 0 .. Depth]
        BY <2>1, DisconnectBooks
    <3>2. NoMessage \in Message
        BY DEF NoMessage, Message
    <3> QED
        BY <2>2, <3>1, <3>2 DEF TypeOK
  <2>4. BooksAgree'
      BY <2>1, <2>2 DEF BooksAgree
  <2> QED
      BY <2>1, <2>3, <2>4 DEF PhaseInv, EventsInv, DropInv, Broadcasting
<1> QED
    BY <1>2, <1>3, <1>4, <1>6, <1>7, <1>8, <1>9

-----------------------------------------------------------------------------

\* Every step of the peers and of the loop keeps the books.
LEMMA ServerStep == ServerInv /\ [Next]_vars => ServerInv'
<1> SUFFICES ASSUME ServerInv, [Next]_vars PROVE ServerInv'
    OBVIOUS
<1>1. CASE Peer
    BY <1>1, PeerStep
<1>2. CASE Loop
    BY <1>2, EventStep, BroadcastStep DEF Loop
<1>3. CASE stop \/ UNCHANGED vars
  <2> USE <1>3 DEF stop, vars, kernelVars, loopVars, sendVars, historyVars
  <2>1. TypeOK'
      BY DEF TypeOK, ServerInv
  <2> QED
      BY <2>1 DEF ServerInv, BooksAgree, PhaseInv, EventsInv, DropInv, Open, Broadcasting
<1> QED
    BY <1>1, <1>2, <1>3 DEF Next

\* The simulator's whole bookkeeping is inductive.
LEMMA ServerInvariant == Spec => []ServerInv
BY ServerInit, ServerStep, PTL DEF Spec

\* Every variable of the server model keeps its type, for any number of
\* clients (exchange_simulator.cpp:93-217).
THEOREM TypeCorrect == Spec => []TypeOK
<1>1. ServerInv => TypeOK
    BY DEF ServerInv
<1> QED
    BY <1>1, ServerInvariant, PTL

\* For any number of clients, the simulator's sets agree with the kernel in
\* every state: no event, broadcast, slow tag or drop list ever names a
\* descriptor that has been closed (exchange_simulator.cpp:102-115, 163-169,
\* 194-217).
THEOREM BooksAlwaysAgree == Spec => []BooksAgree
<1>1. ServerInv => BooksAgree
    BY DEF ServerInv
<1> QED
    BY <1>1, ServerInvariant, PTL

\* A step that removes a client removes one that has gone.
LEMMA DropStep ==
    ServerInv /\ [Next]_vars => (\A fd \in clients \ clients' : conn[fd] # "open")
<1> SUFFICES ASSUME ServerInv, [Next]_vars, NEW fd \in clients \ clients'
             PROVE  conn[fd] # "open"
    OBVIOUS
<1> USE DEF ServerInv
<1>1. ASSUME NEW e \in batch, ClientGone(e) PROVE conn[fd] # "open"
  <2>1. e.fd = fd /\ e.fd # ServerFd
      BY <1>1 DEF ClientGone, handle_client_disconnect
  <2> QED
      BY <1>1, <2>1, ServerAssumption DEF ClientGone, EventsInv
<1>2. CASE EndBroadcast
    BY <1>2 DEF EndBroadcast, handle_client_disconnect, DropInv
<1>3. CASE \/ Peer \/ stop \/ UNCHANGED vars
           \/ epoll_wait \/ Leave \/ EventsDone \/ NoTick \/ NoHeartbeat
           \/ handle_new_connection \/ generate_and_broadcast \/ Heartbeat
           \/ \E e \in batch : ClientData(e)
           \/ \E g \in Fds : NextClient(g)
           \/ \E r \in 1 .. SndBuf : SendSome(r)
           \/ SendFull \/ SendError
  <2>1. clients \subseteq clients'
      BY <1>3 DEF Peer, PeerConnect, PeerSubscribe, PeerDrain, PeerClose, PeerReset,
           stop, vars, epoll_wait, Leave, EventsDone, NoTick, NoHeartbeat,
           handle_new_connection, generate_and_broadcast, Heartbeat, ClientData,
           NextClient, SendSome, SendFull, SendError, loopVars
  <2> QED
      BY <2>1
<1> QED
    BY <1>1, <1>2, <1>3 DEF Next, Loop

\* No client that is still connected is ever dropped, however slow it is and
\* whatever it sends: recv and send never report a live connection as gone
\* (exchange_simulator.cpp:107-113, 206-216).
THEOREM LiveClientsAreKept == Spec => OnlyTheGoneAreDropped
<1>1. ServerInv /\ [Next]_vars =>
          [\A fd \in clients \ clients' : conn[fd] # "open"]_vars
    BY DropStep
<1> QED
    BY <1>1, ServerInvariant, PTL DEF Spec, OnlyTheGoneAreDropped

-----------------------------------------------------------------------------
(* What a client that never filled its buffer has received.                *)

\* n messages of fd's stream, after the first d, are whole and are the n
\* messages after the first e of the log.
Held(fd, n, d, e) ==
    \A i \in 1 .. n : /\ Whole(stream[fd][d + i])
                      /\ stream[fd][d + i].num = log[e + i]

\* fd has every message since it was accepted.
UpToDate(fd) ==
    /\ Len(stream[fd]) = since[fd]
    /\ since[fd] <= Len(log)
    /\ Held(fd, since[fd], 0, Len(log) - since[fd])

\* All but the message being broadcast, which has not reached fd.
Behind(fd) ==
    /\ since[fd] >= 1
    /\ since[fd] <= Len(log)
    /\ \/ Len(stream[fd]) = since[fd] - 1
       \/ Len(stream[fd]) = since[fd] /\ since[fd] = Depth
    /\ Held(fd, since[fd] - 1, Len(stream[fd]) - (since[fd] - 1), Len(log) - since[fd])

\* All but `left' bytes of the message being broadcast.
Partial(fd, left) ==
    /\ since[fd] >= 1
    /\ since[fd] <= Len(log)
    /\ Len(stream[fd]) = since[fd]
    /\ Held(fd, since[fd] - 1, 0, Len(log) - since[fd])
    /\ stream[fd][since[fd]] = [num |-> msg.num, sent |-> msg.len - left, len |-> msg.len]

\* Where the broadcast stands with a client.
ReceivedOK(fd) ==
    IF fd \in todo \/ (fd = cur /\ remaining = msg.len) THEN Behind(fd)
    ELSE IF fd = cur THEN Partial(fd, remaining)
    ELSE UpToDate(fd)

\* A broadcast sends the newest message of the log; the client it is sending
\* to is none of those to come and still lacks a part.
SendInv ==
    /\ Len(log) <= Depth
    /\ Broadcasting => Len(log) >= 1 /\ log[Len(log)] = msg.num
    /\ cur # NoFd => cur \notin todo /\ remaining \in 1 .. msg.len

\* Descriptors that are no client's carry no history.
FreshInv == \A fd \in Fds \ clients : stream[fd] = <<>> /\ since[fd] = 0

StreamInv == \A fd \in clients \ (slow_clients \cup to_drop) : ReceivedOK(fd)

DeliveryInv ==
    /\ ServerInv
    /\ SendInv
    /\ FreshInv
    /\ StreamInv

\* One more message in a history of at most Depth: it comes last, and the
\* others keep their distance from the end.
LEMMA KeepLastAppend ==
    ASSUME NEW S, NEW s \in Seq(S), NEW e \in S, Len(s) <= Depth
    PROVE  /\ KeepLast(Append(s, e)) \in Seq(S)
           /\ Len(KeepLast(Append(s, e))) = IF Len(s) = Depth THEN Depth ELSE Len(s) + 1
           /\ KeepLast(Append(s, e))[Len(KeepLast(Append(s, e)))] = e
           /\ \A i \in 1 .. Len(KeepLast(Append(s, e))) - 1 :
                  KeepLast(Append(s, e))[i] = s[Len(s) - Len(KeepLast(Append(s, e))) + 1 + i]
<1> DEFINE a == Append(s, e)
<1>1. Depth \in Nat \ {0} /\ Len(s) \in Nat
    BY ServerAssumption
<1>2. /\ a \in Seq(S) /\ Len(a) = Len(s) + 1 /\ a[Len(a)] = e
      /\ \A i \in 1 .. Len(s) : a[i] = s[i]
    OBVIOUS
<1> HIDE DEF a
<1>3. CASE Len(s) = Depth
  <2>1. KeepLast(a) = Tail(a)
      BY <1>1, <1>2, <1>3 DEF KeepLast
  <2>2. /\ Tail(a) \in Seq(S) /\ Len(Tail(a)) = Depth
        /\ \A i \in 1 .. Depth : Tail(a)[i] = a[i + 1]
      BY <1>1, <1>2, <1>3
  <2>3. \A i \in 1 .. Depth - 1 : Tail(a)[i] = s[Len(s) - Depth + 1 + i]
    <3> SUFFICES ASSUME NEW i \in 1 .. Depth - 1
                 PROVE  Tail(a)[i] = s[Len(s) - Depth + 1 + i]
        OBVIOUS
    <3>1. Tail(a)[i] = a[i + 1] /\ i + 1 \in 1 .. Len(s)
        BY <1>1, <1>3, <2>2
    <3>2. Len(s) - Depth + 1 + i = i + 1
        BY <1>1, <1>3
    <3> QED
        BY <1>2, <3>1, <3>2
  <2>4. Tail(a)[Depth] = e
    <3>1. Depth \in 1 .. Depth /\ Depth + 1 = Len(a)
        BY <1>1, <1>2, <1>3
    <3> QED
        BY <1>2, <2>2, <3>1
  <2> QED
      BY <1>3, <2>1, <2>2, <2>3, <2>4 DEF a
<1>4. CASE Len(s) # Depth
  <2>1. KeepLast(a) = a
      BY <1>1, <1>2, <1>4 DEF KeepLast
  <2>2. \A i \in 1 .. Len(a) - 1 : Len(s) - Len(a) + 1 + i = i /\ i \in 1 .. Len(s)
      BY <1>1, <1>2
  <2> QED
      BY <1>2, <1>4, <2>1, <2>2 DEF a
<1> QED
    BY <1>3, <1>4

\* The simulator starts with nothing sent.
LEMMA DeliveryInit == Init => DeliveryInv
<1> SUFFICES ASSUME Init PROVE DeliveryInv
    OBVIOUS
<1>1. ServerInv
    BY ServerInit
<1>2. SendInv
  <2>1. Len(log) = 0 /\ ~Broadcasting /\ cur = NoFd
      BY DEF Init, Broadcasting
  <2> QED
      BY <2>1, ServerAssumption DEF SendInv
<1>3. FreshInv /\ StreamInv
    BY DEF Init, FreshInv, StreamInv
<1> QED
    BY <1>1, <1>2, <1>3 DEF DeliveryInv

\* Steps that send nothing and change no client.
LEMMA DeliveryFrame ==
    ASSUME DeliveryInv, ServerInv',
           UNCHANGED <<log, stream, since, clients, slow_clients, sendVars>>,
           Broadcasting' => Broadcasting
    PROVE  DeliveryInv'
<1> USE DEF sendVars
<1>1. SendInv'
    BY DEF DeliveryInv, SendInv
<1>2. FreshInv'
    BY DEF DeliveryInv, FreshInv
<1>3. StreamInv'
    BY DEF DeliveryInv, StreamInv, ReceivedOK, Behind, Partial, UpToDate, Held
<1> QED
    BY <1>1, <1>2, <1>3 DEF DeliveryInv

\* Outside a broadcast every client that is not slow is up to date.
LEMMA QuietUpToDate ==
    ASSUME DeliveryInv, ~Broadcasting, NEW fd \in clients \ slow_clients
    PROVE  UpToDate(fd) /\ fd \in Fds
<1>1. todo = {} /\ to_drop = {} /\ cur = NoFd /\ fd \in Fds
    BY DEF DeliveryInv, ServerInv, PhaseInv, TypeOK
<1>2. fd # cur
    BY <1>1, ServerAssumption
<1> QED
    BY <1>1, <1>2 DEF DeliveryInv, StreamInv, ReceivedOK

\* Accepting a client: a descriptor without a history
\* (exchange_simulator.cpp:143-161).
LEMMA DeliveryAccept ==
    ASSUME DeliveryInv, ServerInv', handle_new_connection
    PROVE  DeliveryInv'
<1>1. /\ UNCHANGED <<log, stream, since, slow_clients, msg, todo, cur, remaining, to_drop, pc>>
      /\ clients \subseteq clients'
      /\ ~Broadcasting
    BY DEF handle_new_connection, historyVars, sendVars, Broadcasting
<1>2. todo = {} /\ to_drop = {} /\ cur = NoFd /\ clients' \subseteq Fds
    BY <1>1 DEF DeliveryInv, ServerInv, PhaseInv, TypeOK
<1>3. SendInv'
    BY <1>1 DEF DeliveryInv, SendInv, Broadcasting
<1>4. FreshInv'
    BY <1>1 DEF DeliveryInv, FreshInv
<1>5. ASSUME NEW fd \in clients' \ slow_clients PROVE UpToDate(fd)
  <2>1. CASE fd \in clients
      BY <1>1, <1>5, <2>1, QuietUpToDate
  <2>2. CASE fd \notin clients
    <3>1. stream[fd] = <<>> /\ since[fd] = 0
        BY <1>2, <1>5, <2>2 DEF DeliveryInv, FreshInv
    <3>2. Len(log) \in Nat
        BY DEF DeliveryInv, ServerInv, TypeOK
    <3> QED
        BY <3>1, <3>2 DEF UpToDate, Held
  <2> QED
      BY <2>1, <2>2
<1>6. StreamInv'
  <2> SUFFICES ASSUME NEW fd \in clients' \ slow_clients PROVE ReceivedOK(fd)'
      BY <1>1, <1>2 DEF StreamInv
  <2>1. UpToDate(fd)'
      BY <1>1, <1>5 DEF UpToDate, Held
  <2>2. fd \notin todo' /\ fd # cur'
      BY <1>1, <1>2, ServerAssumption
  <2> QED
      BY <2>1, <2>2 DEF ReceivedOK
<1> QED
    BY <1>3, <1>4, <1>6 DEF DeliveryInv

\* Closing connections, between broadcasts or at the end of one: those that
\* stay were up to date (exchange_simulator.cpp:163-169).
LEMMA DeliveryClose ==
    ASSUME DeliveryInv, ServerInv', NEW fds \in SUBSET clients,
           handle_client_disconnect(fds), to_drop \subseteq fds,
           todo = {}, cur = NoFd, todo' = {}, cur' = NoFd, log' = log, ~Broadcasting'
    PROVE  DeliveryInv'
<1>0. clients \subseteq Fds
    BY DEF DeliveryInv, ServerInv, TypeOK
<1>1. SendInv'
    BY DEF DeliveryInv, SendInv
<1>2. clients' = clients \ fds /\ slow_clients' = slow_clients \ fds
    BY DEF handle_client_disconnect
<1>3. /\ \A fd \in fds : stream'[fd] = <<>> /\ since'[fd] = 0
      /\ \A fd \in Fds \ fds : stream'[fd] = stream[fd] /\ since'[fd] = since[fd]
    BY <1>0 DEF handle_client_disconnect
<1>4. FreshInv'
    BY <1>2, <1>3 DEF DeliveryInv, FreshInv
<1>5. StreamInv'
  <2> SUFFICES ASSUME NEW fd \in clients' \ slow_clients' PROVE ReceivedOK(fd)'
      BY DEF StreamInv
  <2>1. fd \in clients \ (slow_clients \cup to_drop) /\ fd \in Fds \ fds /\ fd # NoFd
      BY <1>0, <1>2, ServerAssumption
  <2>2. UpToDate(fd)
      BY <2>1 DEF DeliveryInv, StreamInv, ReceivedOK
  <2>3. UpToDate(fd)'
      BY <1>3, <2>1, <2>2 DEF UpToDate, Held
  <2> QED
      BY <2>1, <2>3 DEF ReceivedOK
<1> QED
    BY <1>1, <1>4, <1>5 DEF DeliveryInv

\* A new message puts every client exactly one message behind
\* (exchange_simulator.cpp:171-196).
LEMMA DeliveryStart ==
    ASSUME DeliveryInv, ServerInv', NEW num \in 0 .. SeqMod - 1, NEW len,
           StartBroadcast(num, len), ~Broadcasting, UNCHANGED <<clients, slow_clients>>
    PROVE  DeliveryInv'
<1>1. /\ log \in Seq(0 .. SeqMod - 1) /\ Len(log) \in Nat /\ Len(log) <= Depth
      /\ Depth \in Nat \ {0}
      /\ clients \subseteq Fds
      /\ since \in [Fds -> 0 .. Depth]
  <2>1. log \in Seq(0 .. SeqMod - 1) /\ clients \subseteq Fds /\ since \in [Fds -> 0 .. Depth]
      BY DEF DeliveryInv, ServerInv, TypeOK
  <2>2. Len(log) <= Depth
      BY DEF DeliveryInv, SendInv
  <2> QED
      BY <2>1, <2>2, ServerAssumption
<1>2. /\ log' = KeepLast(Append(log, num)) /\ msg'.num = num
      /\ todo' = clients /\ to_drop' = {}
      /\ UNCHANGED <<cur, remaining, stream>>
      /\ \A fd \in clients : since'[fd] = Lower(since[fd] + 1, Depth)
      /\ \A fd \in Fds \ clients : since'[fd] = since[fd]
    BY <1>1 DEF StartBroadcast
<1>3. cur = NoFd
    BY DEF DeliveryInv, ServerInv, PhaseInv
<1>4. /\ Len(log') = IF Len(log) = Depth THEN Depth ELSE Len(log) + 1
      /\ log'[Len(log')] = num
      /\ \A i \in 1 .. Len(log') - 1 : log'[i] = log[Len(log) - Len(log') + 1 + i]
  <2> DEFINE a == KeepLast(Append(log, num))
  <2>1. /\ Len(a) = IF Len(log) = Depth THEN Depth ELSE Len(log) + 1
        /\ a[Len(a)] = num
        /\ \A i \in 1 .. Len(a) - 1 : a[i] = log[Len(log) - Len(a) + 1 + i]
    <3> HIDE DEF a
    <3>1. ASSUME NEW S, log \in Seq(S), num \in S PROVE <2>1
        BY <1>1, <3>1, KeepLastAppend DEF a
    <3> QED
        BY <1>1, <3>1
  <2>2. log' = a
      BY <1>2
  <2> QED
      BY <2>1, <2>2
<1>5. SendInv'
    BY <1>1, <1>2, <1>3, <1>4 DEF SendInv
<1>6. FreshInv'
    BY <1>2 DEF DeliveryInv, FreshInv
<1>7. ASSUME NEW fd \in clients \ slow_clients PROVE Behind(fd)'
  <2> DEFINE n == since[fd]
             m == since'[fd]
             k == Len(log)
             l == Len(log')
  <2>1. UpToDate(fd) /\ fd \in Fds
      BY QuietUpToDate
  <2>2. n \in 0 .. Depth /\ n <= k /\ Len(stream[fd]) = n /\ stream'[fd] = stream[fd]
      BY <1>1, <1>2, <2>1 DEF UpToDate
  <2>3. m = Lower(n + 1, Depth)
      BY <1>2
  <2>4. \A i \in 1 .. n : Whole(stream[fd][0 + i]) /\ stream[fd][0 + i].num = log[k - n + i]
      BY <2>1 DEF UpToDate, Held
  <2>5. /\ k \in 0 .. Depth
        /\ l = IF k = Depth THEN Depth ELSE k + 1
        /\ \A i \in 1 .. l - 1 : log'[i] = log[k - l + 1 + i]
    <3>1. k \in 0 .. Depth
        BY <1>1
    <3> QED
        BY <1>4, <3>1
  <2> HIDE DEF n, m, k, l
  <2>6. /\ m >= 1 /\ m <= l /\ m \in Nat /\ l \in Nat
        /\ n = m - 1 \/ (n = m /\ m = Depth)
      BY <1>1, <2>2, <2>3, <2>5 DEF Lower
  <2>7. ASSUME NEW i \in 1 .. m - 1
        PROVE  /\ Whole(stream[fd][n - (m - 1) + i])
               /\ stream[fd][n - (m - 1) + i].num = log'[l - m + i]
    <3> DEFINE j == n - (m - 1) + i
    <3>1. j \in 1 .. n /\ 0 + j = j
        BY <1>1, <2>2, <2>5, <2>6
    <3>2. l - m + i \in 1 .. l - 1 /\ k - n + j = k - l + 1 + (l - m + i)
        BY <1>1, <2>2, <2>5, <2>6
    <3> HIDE DEF j
    <3>3. Whole(stream[fd][j]) /\ stream[fd][j].num = log[k - n + j]
        BY <2>4, <3>1
    <3>4. log'[l - m + i] = log[k - l + 1 + (l - m + i)]
        BY <2>5, <3>2
    <3> QED
        BY <3>2, <3>3, <3>4 DEF j
  <2> QED
      BY <2>2, <2>6, <2>7 DEF Behind, Held, Whole, n, m, k, l
<1>8. StreamInv'
    BY <1>2, <1>7 DEF StreamInv, ReceivedOK
<1> QED
    BY <1>5, <1>6, <1>8 DEF DeliveryInv

\* The broadcast turns to its next client (exchange_simulator.cpp:196-201).
LEMMA DeliveryNextClient ==
    ASSUME DeliveryInv, ServerInv', NEW fd \in Fds, NextClient(fd)
    PROVE  DeliveryInv'
<1>1. /\ UNCHANGED <<log, stream, since, clients, slow_clients, to_drop, msg, pc>>
      /\ cur = NoFd /\ fd \in todo
      /\ cur' = fd /\ remaining' = msg.len /\ todo' = todo \ {fd}
    BY DEF NextClient, historyVars, loopVars
<1>2. msg.len \in Nat \ {0} /\ clients \subseteq Fds
    BY ServerAssumption DEF DeliveryInv, ServerInv, TypeOK, Message
<1>3. SendInv'
    BY <1>1, <1>2 DEF DeliveryInv, SendInv, Broadcasting
<1>4. FreshInv'
    BY <1>1 DEF DeliveryInv, FreshInv
<1>5. StreamInv'
  <2> SUFFICES ASSUME NEW g \in clients \ (slow_clients \cup to_drop)
               PROVE  ReceivedOK(g)'
      BY <1>1 DEF StreamInv
  <2>1. ReceivedOK(g) /\ g # NoFd
      BY <1>2, ServerAssumption DEF DeliveryInv, StreamInv
  <2>2. CASE g = fd
    <3>1. Behind(g)
        BY <1>1, <2>1, <2>2 DEF ReceivedOK
    <3>2. Behind(g)'
        BY <1>1, <3>1 DEF Behind, Held
    <3> QED
        BY <1>1, <2>2, <3>2 DEF ReceivedOK
  <2>3. CASE g # fd
    <3>1. g # cur /\ g # cur' /\ (g \in todo <=> g \in todo')
        BY <1>1, <2>1, <2>3
    <3> QED
        BY <1>1, <2>1, <3>1 DEF ReceivedOK, Behind, UpToDate, Held
  <2> QED
      BY <2>2, <2>3
<1> QED
    BY <1>3, <1>4, <1>5 DEF DeliveryInv

\* A send that fails takes the client out of those that are owed anything:
\* EAGAIN makes it slow, an error condemns it (exchange_simulator.cpp:206-212).
LEMMA DeliveryFail ==
    ASSUME DeliveryInv, ServerInv', SendFull \/ SendError
    PROVE  DeliveryInv'
<1>1. /\ UNCHANGED <<log, stream, since, clients, msg, pc, todo>>
      /\ slow_clients \cup to_drop \cup {cur} = slow_clients' \cup to_drop'
      /\ cur' = NoFd
    BY DEF SendFull, SendError, historyVars, loopVars
<1>2. clients \subseteq Fds
    BY DEF DeliveryInv, ServerInv, TypeOK
<1>3. SendInv'
    BY <1>1 DEF DeliveryInv, SendInv, Broadcasting
<1>4. FreshInv'
    BY <1>1 DEF DeliveryInv, FreshInv
<1>5. StreamInv'
  <2> SUFFICES ASSUME NEW g \in clients \ (slow_clients' \cup to_drop')
               PROVE  ReceivedOK(g)'
      BY <1>1 DEF StreamInv
  <2>1. g \in clients \ (slow_clients \cup to_drop) /\ g # cur /\ g # cur'
      BY <1>1, <1>2, ServerAssumption
  <2>2. ReceivedOK(g)
      BY <2>1 DEF DeliveryInv, StreamInv
  <2> QED
      BY <1>1, <2>1, <2>2 DEF ReceivedOK, Behind, UpToDate, Held
<1> QED
    BY <1>3, <1>4, <1>5 DEF DeliveryInv

\* What a send adds to the stream of the client: the first bytes of a message
\* open a new delivery, later ones go on with it.
LEMMA WrittenPartial ==
    ASSUME DeliveryInv, Broadcasting, NEW r \in 1 .. remaining,
           NEW fd \in clients \ (slow_clients \cup to_drop), fd = cur, cur # NoFd,
           NEW left, left = remaining - r,
           UNCHANGED <<log, since, msg>>, stream'[fd] = Written(fd, r)
    PROVE  Partial(fd, left)'
<1> DEFINE s == stream[fd]
           n == since[fd]
           t == Written(fd, r)
<1>1. /\ s \in Seq(Delivery) /\ Len(s) \in Nat /\ n \in Nat /\ Len(log) \in Nat
      /\ Depth \in Nat \ {0} /\ n <= Depth
      /\ msg.len \in Nat /\ msg.num \in 0 .. SeqMod - 1
      /\ fd \in Fds
    BY ServerAssumption DEF DeliveryInv, ServerInv, TypeOK, Message
<1>2. remaining \in 1 .. msg.len /\ cur \notin todo /\ ReceivedOK(fd)
    BY DEF DeliveryInv, SendInv, StreamInv
<1>3. CASE remaining = msg.len
  <2> DEFINE e == [num |-> msg.num, sent |-> r, len |-> msg.len]
  <2>1. t = KeepLast(Append(s, e)) /\ e \in Delivery
      BY <1>1, <1>2, <1>3 DEF Written, Delivery
  <2>2. Behind(fd)
      BY <1>2, <1>3 DEF ReceivedOK
  <2>3. /\ n >= 1 /\ n <= Len(log)
        /\ Len(s) = n - 1 \/ (Len(s) = n /\ n = Depth)
        /\ \A i \in 1 .. n - 1 : /\ Whole(s[Len(s) - (n - 1) + i])
                                 /\ s[Len(s) - (n - 1) + i].num = log[Len(log) - n + i]
      BY <2>2 DEF Behind, Held
  <2>4. Len(s) <= Depth
      BY <1>1, <2>3
  <2> HIDE DEF s, e
  <2>5. /\ Len(t) = IF Len(s) = Depth THEN Depth ELSE Len(s) + 1
        /\ t[Len(t)] = e
        /\ \A i \in 1 .. Len(t) - 1 : t[i] = s[Len(s) - Len(t) + 1 + i]
      BY <1>1, <2>1, <2>4, KeepLastAppend
  <2> HIDE DEF t, n
  <2>6. Len(t) = n
      BY <1>1, <2>3, <2>5
  <2>7. ASSUME NEW i \in 1 .. n - 1
        PROVE  Whole(t[0 + i]) /\ t[0 + i].num = log[Len(log) - n + i]
    <3>1. 0 + i = i /\ i \in 1 .. Len(t) - 1
          /\ Len(s) - Len(t) + 1 + i = Len(s) - (n - 1) + i
        BY <1>1, <2>6
    <3> QED
        BY <2>3, <2>5, <3>1
  <2>8. e = [num |-> msg.num, sent |-> msg.len - left, len |-> msg.len]
      BY <1>1, <1>2, <1>3 DEF e
  <2> QED
      BY <2>3, <2>5, <2>6, <2>7, <2>8 DEF Partial, Held, Whole, t, n
<1>4. CASE remaining # msg.len
  <2>1. t = [s EXCEPT ![Len(s)].sent = @ + r]
      BY <1>4 DEF Written
  <2>2. Partial(fd, remaining)
      BY <1>2, <1>4 DEF ReceivedOK
  <2>3. /\ n >= 1 /\ n <= Len(log) /\ Len(s) = n
        /\ \A i \in 1 .. n - 1 : Whole(s[0 + i]) /\ s[0 + i].num = log[Len(log) - n + i]
        /\ s[n] = [num |-> msg.num, sent |-> msg.len - remaining, len |-> msg.len]
      BY <2>2 DEF Partial, Held
  <2> HIDE DEF s, n
  <2>4. s \in [1 .. n -> Delivery] /\ n \in 1 .. n
      BY <1>1, <2>3
  <2>5. t = [s EXCEPT ![n] = [s[n] EXCEPT !.sent = s[n].sent + r]]
      BY <2>1, <2>3, <2>4
  <2> DEFINE e == [s[n] EXCEPT !.sent = s[n].sent + r]
  <2>6. e \in Delivery
    <3>1. e = [num |-> msg.num, sent |-> msg.len - remaining + r, len |-> msg.len]
        BY <2>3
    <3>2. msg.len - remaining + r \in Nat
        BY <1>1, <1>2
    <3> QED
        BY <1>1, <3>1, <3>2 DEF Delivery
  <2>7. /\ Len(t) = n
        /\ \A i \in 1 .. n : t[i] = IF i = n THEN e ELSE s[i]
    <3> HIDE DEF e, t
    <3>1. s \in Seq(Delivery) /\ n \in 1 .. Len(s) /\ Len(s) = n
        BY <1>1, <2>3
    <3> QED
        BY <2>5, <2>6, <3>1, ExceptSeq DEF e
  <2> HIDE DEF t
  <2>8. t[n] = [num |-> msg.num, sent |-> msg.len - left, len |-> msg.len]
    <3>1. t[n] = [num |-> msg.num, sent |-> msg.len - remaining + r, len |-> msg.len]
        BY <2>3, <2>4, <2>7
    <3>2. msg.len - remaining + r = msg.len - left
        BY <1>1, <1>2
    <3> QED
        BY <3>1, <3>2
  <2>9. ASSUME NEW i \in 1 .. n - 1
        PROVE  Whole(t[0 + i]) /\ t[0 + i].num = log[Len(log) - n + i]
    <3>1. 0 + i = i /\ i \in 1 .. n /\ i # n
        BY <1>1
    <3>2. t[i] = s[i]
        BY <2>7, <3>1
    <3> QED
        BY <2>3, <3>1, <3>2
  <2> QED
      BY <2>3, <2>7, <2>8, <2>9 DEF Partial, Held, Whole, t, n
<1> QED
    BY <1>3, <1>4

\* A delivery that is left without a missing byte is up to date.
LEMMA PartialComplete ==
    ASSUME TypeOK', SendInv', Broadcasting', NEW fd \in Fds, Partial(fd, 0)'
    PROVE  UpToDate(fd)'
<1> DEFINE n == since'[fd]
           s == stream'[fd]
           k == Len(log')
<1>1. n \in Nat /\ k \in Nat /\ msg'.len \in Nat
  <2>1. since' \in [Fds -> 0 .. Depth] /\ log' \in Seq(0 .. SeqMod - 1) /\ msg' \in Message
      BY DEF TypeOK
  <2>2. msg'.len \in Nat
      BY <2>1, ServerAssumption DEF Message
  <2> QED
      BY <2>1, <2>2, ServerAssumption
<1>2. n >= 1 /\ n <= k /\ Len(s) = n
    BY DEF Partial
<1>3. \A i \in 1 .. n - 1 : Whole(s[0 + i]) /\ s[0 + i].num = log'[k - n + i]
    BY DEF Partial, Held, Whole
<1>4. s[n] = [num |-> msg'.num, sent |-> msg'.len - 0, len |-> msg'.len]
    BY DEF Partial
<1>5. log'[k] = msg'.num
    BY DEF SendInv
<1> HIDE DEF n, s, k
<1>6. ASSUME NEW i \in 1 .. n
      PROVE  Whole(s[0 + i]) /\ s[0 + i].num = log'[k - n + i]
  <2>1. CASE i = n
    <3>1. 0 + i = n /\ k - n + i = k /\ msg'.len - 0 = msg'.len
        BY <1>1, <2>1
    <3> QED
        BY <1>4, <1>5, <3>1 DEF Whole
  <2>2. CASE i # n
    <3>1. i \in 1 .. n - 1
        BY <1>1, <2>2
    <3> QED
        BY <1>3, <3>1
  <2> QED
      BY <2>1, <2>2
<1> QED
    BY <1>2, <1>6 DEF UpToDate, Held, Whole, n, s, k

\* send() takes some bytes (exchange_simulator.cpp:202-205).
LEMMA DeliverySend ==
    ASSUME DeliveryInv, ServerInv', NEW r \in 1 .. SndBuf, SendSome(r)
    PROVE  DeliveryInv'
<1>1. /\ UNCHANGED <<log, since, clients, slow_clients, to_drop, msg, pc, todo>>
      /\ Broadcasting /\ Broadcasting' /\ cur # NoFd
      /\ remaining' = remaining - r
      /\ cur' = IF r = remaining THEN NoFd ELSE cur
      /\ stream' = [stream EXCEPT ![cur] = Written(cur, r)]
    BY DEF SendSome, loopVars, Broadcasting
<1>2. /\ msg.len \in Nat /\ remaining \in 1 .. msg.len /\ cur \notin todo
      /\ cur \in clients /\ clients \subseteq Fds /\ NoFd \notin Fds /\ SndBuf \in Nat
      /\ stream \in [Fds -> Seq(Delivery)]
  <2>1. cur \in clients /\ clients \subseteq Fds /\ stream \in [Fds -> Seq(Delivery)]
      BY <1>1 DEF DeliveryInv, ServerInv, TypeOK, BooksAgree
  <2>2. msg.len \in Nat /\ NoFd \notin Fds /\ SndBuf \in Nat
      BY ServerAssumption DEF DeliveryInv, ServerInv, TypeOK, Message
  <2> QED
      BY <1>1, <2>1, <2>2 DEF DeliveryInv, SendInv
<1>3. r \in 1 .. remaining
  <2>1. r <= Lower(remaining, space[cur])
      BY DEF SendSome
  <2>2. space[cur] \in Int
      BY <1>2 DEF DeliveryInv, ServerInv, TypeOK
  <2> QED
      BY <1>2, <2>1, <2>2 DEF Lower
<1>4. SendInv'
  <2>1. cur' # NoFd => remaining - r \in 1 .. msg.len
      BY <1>1, <1>2, <1>3
  <2> QED
      BY <1>1, <2>1 DEF DeliveryInv, SendInv
<1>5. FreshInv'
    BY <1>1, <1>2 DEF DeliveryInv, FreshInv
<1>6. ASSUME NEW g \in clients \ (slow_clients \cup to_drop) PROVE ReceivedOK(g)'
  <2>1. CASE g = cur
    <3>1. stream'[g] = Written(g, r)
        BY <1>1, <1>2, <2>1
    <3>2. PICK left \in Nat : left = remaining - r
        BY <1>2, <1>3
    <3>3. Partial(g, left)'
        BY <1>1, <1>3, <1>6, <2>1, <3>1, <3>2, WrittenPartial
    <3>4. CASE r = remaining
      <4>1. left = 0 /\ cur' = NoFd /\ g # NoFd
          BY <1>1, <1>2, <1>6, <3>2, <3>4
      <4>2. Partial(g, 0)'
          BY <3>3, <4>1
      <4>3. TypeOK' /\ g \in Fds
          BY <1>2, <1>6 DEF ServerInv
      <4>4. UpToDate(g)'
          BY <1>1, <1>4, <4>2, <4>3, PartialComplete
      <4> QED
          BY <1>1, <1>2, <2>1, <4>1, <4>4 DEF ReceivedOK
    <3>5. CASE r # remaining
      <4>1. cur' = g /\ remaining' # msg'.len /\ g \notin todo'
          BY <1>1, <1>2, <1>3, <2>1, <3>5
      <4>2. remaining' = left
          BY <1>1, <3>2
      <4> QED
          BY <3>3, <4>1, <4>2 DEF ReceivedOK, Partial
    <3> QED
        BY <3>4, <3>5
  <2>2. CASE g # cur
    <3>1. stream'[g] = stream[g] /\ g # cur'
        BY <1>1, <1>2, <1>6, <2>2
    <3>2. ReceivedOK(g)
        BY <1>6 DEF DeliveryInv, StreamInv
    <3> QED
        BY <1>1, <2>2, <3>1, <3>2 DEF ReceivedOK, Behind, UpToDate, Held
  <2> QED
      BY <2>1, <2>2
<1>7. StreamInv'
    BY <1>1, <1>6 DEF StreamInv
<1> QED
    BY <1>4, <1>5, <1>7 DEF DeliveryInv

\* Every step keeps count of what each client has received.
LEMMA DeliveryStep == DeliveryInv /\ [Next]_vars => DeliveryInv'
<1> SUFFICES ASSUME DeliveryInv, [Next]_vars PROVE DeliveryInv'
    OBVIOUS
<1>0. ServerInv /\ ServerInv'
    BY ServerStep DEF DeliveryInv
<1>1. CASE \/ Peer \/ stop \/ UNCHANGED vars
           \/ epoll_wait \/ Leave \/ EventsDone \/ NoTick \/ NoHeartbeat
           \/ \E e \in batch : ClientData(e)
  <2>1. /\ UNCHANGED <<log, stream, since, clients, slow_clients, sendVars>>
        /\ Broadcasting' => Broadcasting
      BY <1>1 DEF Peer, PeerConnect, PeerSubscribe, PeerDrain, PeerClose, PeerReset,
           stop, vars, epoll_wait, Leave, EventsDone, NoTick, NoHeartbeat,
           ClientData, loopVars, sendVars, historyVars, Broadcasting
  <2> QED
      BY <1>0, <2>1, DeliveryFrame
<1>2. CASE handle_new_connection
    BY <1>0, <1>2, DeliveryAccept
<1>3. ASSUME NEW e \in batch, ClientGone(e) PROVE DeliveryInv'
  <2>1. {e.fd} \in SUBSET clients
      BY <1>0, <1>3 DEF ClientGone, ServerInv, BooksAgree
  <2>2. /\ handle_client_disconnect({e.fd})
        /\ ~Broadcasting /\ ~Broadcasting' /\ UNCHANGED <<sendVars, log>>
      BY <1>3 DEF ClientGone, Broadcasting
  <2>3. todo = {} /\ cur = NoFd /\ to_drop = {} /\ todo' = {} /\ cur' = NoFd
      BY <1>0, <2>2 DEF ServerInv, PhaseInv, sendVars
  <2> QED
      BY <1>0, <2>1, <2>2, <2>3, DeliveryClose
<1>4. CASE generate_and_broadcast \/ Heartbeat
  <2>1. seq_no \in 0 .. SeqMod - 1 /\ seq_no \in Nat /\ NextSeq(seq_no) \in 0 .. SeqMod - 1
    <3>1. seq_no \in 0 .. SeqMod - 1 /\ seq_no \in Nat
        BY <1>0, ServerAssumption DEF ServerInv, TypeOK
    <3> QED
        BY <3>1, NextSeqType
  <2>2. \E num \in 0 .. SeqMod - 1, len \in {HeartbeatSize, TradeSize, QuoteSize} :
            StartBroadcast(num, len)
      BY <1>4, <2>1 DEF generate_and_broadcast, Heartbeat
  <2>3. ~Broadcasting /\ UNCHANGED <<clients, slow_clients>>
      BY <1>4 DEF generate_and_broadcast, Heartbeat, Broadcasting
  <2> QED
      BY <1>0, <2>2, <2>3, DeliveryStart
<1>5. ASSUME NEW fd \in Fds, NextClient(fd) PROVE DeliveryInv'
    BY <1>0, <1>5, DeliveryNextClient
<1>6. ASSUME NEW r \in 1 .. SndBuf, SendSome(r) PROVE DeliveryInv'
    BY <1>0, <1>6, DeliverySend
<1>7. CASE SendFull \/ SendError
    BY <1>0, <1>7, DeliveryFail
<1>8. CASE EndBroadcast
  <2>1. /\ to_drop \in SUBSET clients
        /\ handle_client_disconnect(to_drop)
        /\ todo = {} /\ cur = NoFd /\ UNCHANGED <<todo, cur, log>>
        /\ ~Broadcasting'
      BY <1>0, <1>8 DEF EndBroadcast, ServerInv, BooksAgree, Broadcasting
  <2> QED
      BY <1>0, <2>1, DeliveryClose
<1> QED
    BY <1>1, <1>2, <1>3, <1>4, <1>5, <1>6, <1>7, <1>8 DEF Next, Loop

\* Outside a broadcast, a client that never filled its buffer has received
\* every message since it was accepted, whole and in order: for any number of
\* clients, fast and slow, any sizes of messages and buffers, and a history of
\* any depth (exchange_simulator.cpp:194-217).
THEOREM FastClientsServed == Spec => []FastClientsMissNothing
<1>1. ASSUME DeliveryInv PROVE FastClientsMissNothing
  <2> SUFFICES ASSUME NEW fd \in clients \ slow_clients, ~Broadcasting,
                      NEW i \in 1 .. since[fd]
               PROVE  /\ Whole(stream[fd][i])
                      /\ stream[fd][i].num = Suffix(log, since[fd])[i]
      BY <1>1, QuietUpToDate DEF FastClientsMissNothing, UpToDate
  <2>1. UpToDate(fd) /\ fd \in Fds
      BY <1>1, QuietUpToDate
  <2>2. since[fd] \in Nat /\ log \in Seq(0 .. SeqMod - 1) /\ since[fd] <= Len(log)
      BY <1>1, <2>1, ServerAssumption DEF DeliveryInv, ServerInv, TypeOK, UpToDate
  <2>3. Suffix(log, since[fd])[i] = log[Len(log) - since[fd] + i]
    <3> DEFINE n == since[fd]
               m == Len(log) - n + 1
    <3>1. /\ Len(log) \in Int /\ m \in Int
          /\ i \in 1 .. Len(log) - m + 1
          /\ m + i - 1 = Len(log) - n + i
        BY <2>2
    <3>2. \A j \in m .. Len(log) : log[j] \in 0 .. SeqMod - 1
      <4>1. \A j \in m .. Len(log) : j \in 1 .. Len(log)
          BY <2>2
      <4>2. log \in [1 .. Len(log) -> 0 .. SeqMod - 1]
          BY <2>2, LenProperties
      <4> QED
          BY <4>1, <4>2
    <3>3. Suffix(log, n) = SubSeq(log, m, Len(log))
        BY DEF Suffix
    <3> HIDE DEF m
    <3>4. \A j \in 1 .. Len(log) - m + 1 : SubSeq(log, m, Len(log))[j] = log[m + j - 1]
        BY <3>1, <3>2, SubSeqProperties
    <3> QED
        BY <3>1, <3>3, <3>4
  <2>4. 0 + i = i
      BY <2>2
  <2> QED
      BY <2>1, <2>3, <2>4 DEF UpToDate, Held
<1> QED
    BY <1>1, DeliveryInit, DeliveryStep, PTL DEF Spec

=============================================================================
