------------------------------- MODULE Parser -------------------------------
(***************************************************************************)
(* src/client/parser.cpp: Parser::feed reassembles the messages of a TCP   *)
(* stream from fragments of any size, and Parser::reset clears it for a    *)
(* new connection.  One action per iteration of the scanning loop.         *)
(*                                                                         *)
(* A byte is represented by its position in the stream of its connection;  *)
(* what it holds follows from the message that owns the position.  So a    *)
(* window of the buffer holds the header of a message exactly when it      *)
(* holds the positions of that header one after the other; any other       *)
(* window (it starts inside a message, or spans the end of a truncated     *)
(* one) may read as any type at all.  The 32-bit checksum is taken to be   *)
(* ideal: it matches exactly on an intact message.                         *)
(*                                                                         *)
(* feed is called with what receive brought, at most RECV_BUF bytes.  The  *)
(* one other call in feed_handler.cpp, with SIZE_MAX after the connection  *)
(* has ended, makes buf_used_ + len wrap; it is an action of FeedHandler.  *)
(***************************************************************************)
EXTENDS Integers, Sequences

CONSTANTS
    HeaderSize, HeartbeatSize, TradeSize, QuoteSize,   \* 16, 20, 32, 44
    ParseBufSize,      \* sizeof(buf_)
    RecvBufSize,       \* RECV_BUF: the most that one feed brings
    SeqMod,            \* 2^32 in the code: seq_no is a uint32_t
    Truncation,        \* whether the server may cut a message short
    MaxMessages,       \* bound on the messages of one connection
    MaxSkip,           \* bound on the numbers skipped before a message
    MaxNum             \* bound on the server's message numbers

ASSUME SizeAssumption ==
    /\ HeaderSize \in Nat \ {0}
    /\ HeartbeatSize \in Nat /\ HeartbeatSize > HeaderSize
    /\ TradeSize \in Nat /\ TradeSize >= HeartbeatSize
    /\ QuoteSize \in Nat /\ QuoteSize >= TradeSize

ASSUME BufferAssumption ==
    /\ ParseBufSize \in Nat \ {0}
    /\ RecvBufSize \in Nat \ {0}

ASSUME SeqAssumption == SeqMod \in Nat \ {0, 1}

ASSUME EnvironmentAssumption ==
    /\ Truncation \in BOOLEAN
    /\ MaxMessages \in Nat
    /\ MaxSkip \in Nat
    /\ MaxNum \in Nat

VARIABLES
    msgs,        \* the messages sent on this connection
    num,         \* the server's next message number; seq_no is num % SeqMod
    recvd,       \* how many bytes of the connection have been received
    buf,         \* the first buf_used_ bytes of buf_
    pc,          \* "idle", or "scan" inside feed
    offset,      \* feed's local variable
    last_seq, total_parsed, seq_gaps, bad_checksums,
    \* History variables, which no guard reads:
    dispatched,  \* the indices in msgs of the messages given to a callback
    discarded    \* bytes dropped because buf_ was full

counters == <<last_seq, total_parsed, seq_gaps, bad_checksums>>
vars == <<msgs, num, recvd, buf, pc, offset, counters, dispatched, discarded>>

MsgType == {"trade", "quote", "heartbeat"}

\* A msg_type that is none of the three has size 0.
msg_total_size(t) ==
    CASE t = "trade"     -> TradeSize
      [] t = "quote"     -> QuoteSize
      [] t = "heartbeat" -> HeartbeatSize
      [] OTHER           -> 0

\* The message, its number, where it starts and how many of its bytes were sent.
Message == [type : MsgType, num : Nat, start : Nat, len : Nat]

Whole(m) == m.len = msg_total_size(m.type)

SentBytes ==
    IF msgs = <<>> THEN 0 ELSE msgs[Len(msgs)].start + msgs[Len(msgs)].len

-----------------------------------------------------------------------------

Init ==
    /\ msgs = <<>>
    /\ num = 1
    /\ recvd = 0
    /\ buf = <<>>
    /\ pc = "idle"
    /\ offset = 0
    /\ last_seq = 0
    /\ total_parsed = 0
    /\ seq_gaps = 0
    /\ bad_checksums = 0
    /\ dispatched = <<>>
    /\ discarded = 0

\* The server writes a message to the connection, all of it or, when the
\* socket buffer fills up in the middle, its first bytes.  Numbers are
\* skipped by fault injection and by ticks that found the buffer full.
Send(t, skip, len) ==
    /\ Len(msgs) < MaxMessages
    /\ num + skip <= MaxNum
    /\ len = msg_total_size(t) \/ Truncation
    /\ msgs' = Append(msgs, [type |-> t, num |-> num + skip,
                             start |-> SentBytes, len |-> len])
    /\ num' = num + skip + 1
    /\ UNCHANGED <<recvd, buf, pc, offset, counters, dispatched, discarded>>

\* The residual copied back one byte short.
CompactShort == SubSeq(buf, offset + 2, Len(buf))

\* A residual that is never moved to the front.
NotCompacted == buf

\* memmove(buf_, buf_ + offset, buf_used_)
Compacted == SubSeq(buf, offset + 1, Len(buf))

\* An append without the check against sizeof(buf_).
feedUnchecked(n) ==
    /\ pc = "idle"
    /\ n <= SentBytes - recvd
    /\ buf' = buf \o [i \in 1 .. n |-> recvd + i]
    /\ recvd' = recvd + n
    /\ pc' = "scan"
    /\ offset' = 0
    /\ UNCHANGED <<msgs, num, counters, dispatched, discarded>>

\* Entry of feed(data, n): append to buf_, or the part that fits.
feed(n) ==
    /\ pc = "idle"
    /\ n <= SentBytes - recvd
    /\ LET space == ParseBufSize - Len(buf)
           kept  == IF n > space THEN space ELSE n
       IN  /\ buf' = buf \o [i \in 1 .. kept |-> recvd + i]
           /\ discarded' = discarded + (n - kept)
    /\ recvd' = recvd + n
    /\ pc' = "scan"
    /\ offset' = 0
    /\ UNCHANGED <<msgs, num, counters, dispatched>>

\* The first n bytes from offset on are those of message k.
Holds(k, n) ==
    /\ msgs[k].len >= n
    /\ Len(buf) - offset >= n
    /\ \A i \in 1 .. n : buf[offset + i] = msgs[k].start + i

\* What hdr->msg_type may read as: the type of the message whose header is
\* here, and anything at all if it is not the header of a message.
HeaderTypes ==
    LET here == {k \in 1 .. Len(msgs) : Holds(k, HeaderSize)}
    IN  IF here = {} THEN MsgType \cup {"unknown"}
                     ELSE {msgs[k].type : k \in here}

Scanning == pc = "scan" /\ Len(buf) - offset >= HeaderSize

\* expected == 0: try the next byte.
SkipByte ==
    /\ Scanning
    /\ "unknown" \in HeaderTypes
    /\ offset' = offset + 1
    /\ UNCHANGED <<msgs, num, recvd, buf, pc, counters, dispatched, discarded>>

Intact(t) == \E k \in 1 .. Len(msgs) : Whole(msgs[k]) /\ msgs[k].type = t
                                       /\ Holds(k, msg_total_size(t))

\* A damaged message that is not stepped over.
StuckChecksum(t) ==
    /\ Scanning
    /\ t \in HeaderTypes
    /\ Len(buf) - offset >= msg_total_size(t)
    /\ ~Intact(t)
    /\ UNCHANGED vars

BadChecksum(t) ==
    /\ Scanning
    /\ t \in HeaderTypes
    /\ Len(buf) - offset >= msg_total_size(t)
    /\ ~Intact(t)
    /\ bad_checksums' = bad_checksums + 1
    /\ offset' = offset + msg_total_size(t)
    /\ UNCHANGED <<msgs, num, recvd, buf, pc, last_seq, total_parsed, seq_gaps,
                   dispatched, discarded>>

Seq32(n) == n % SeqMod

\* A gap counted with both its ends.
GapOffByOne(seq) == Seq32(seq - last_seq)

\* How many numbers are missing between last_seq_ and seq.
Gap(seq) ==
    IF last_seq > 0 /\ seq > Seq32(last_seq + 1)
    THEN Seq32(seq - last_seq - 1)
    ELSE 0

\* A complete message with a matching checksum goes to its callback.
Dispatch(k) ==
    /\ Scanning
    /\ Whole(msgs[k])
    /\ Holds(k, msg_total_size(msgs[k].type))
    /\ LET seq == Seq32(msgs[k].num) IN
         /\ seq_gaps' = seq_gaps + Gap(seq)
         /\ last_seq' = seq
    /\ total_parsed' = total_parsed + 1
    /\ dispatched' = Append(dispatched, k)
    /\ offset' = offset + msg_total_size(msgs[k].type)
    /\ UNCHANGED <<msgs, num, recvd, buf, pc, bad_checksums, discarded>>

\* A loop that waits for one byte more than the message has.
FinishEager ==
    /\ pc = "scan"
    /\ \/ Len(buf) - offset < HeaderSize
       \/ \E t \in HeaderTypes \ {"unknown"} : Len(buf) - offset <= msg_total_size(t)
    /\ buf' = Compacted
    /\ pc' = "idle"
    /\ offset' = 0
    /\ UNCHANGED <<msgs, num, recvd, counters, dispatched, discarded>>

\* The end of feed: too little is left for a header, or for the message that
\* the header announces.  The rest moves to the front of buf_.
FinishFeed ==
    /\ pc = "scan"
    /\ \/ Len(buf) - offset < HeaderSize
       \/ \E t \in HeaderTypes \ {"unknown"} : Len(buf) - offset < msg_total_size(t)
    /\ buf' = Compacted
    /\ pc' = "idle"
    /\ offset' = 0
    /\ UNCHANGED <<msgs, num, recvd, counters, dispatched, discarded>>

\* feed_handler.cpp connects again and calls reset(): what the old connection
\* still carried is gone.
reset ==
    /\ pc = "idle"
    /\ msgs' = <<>>
    /\ recvd' = 0
    /\ buf' = <<>>
    /\ last_seq' = 0
    /\ total_parsed' = 0
    /\ seq_gaps' = 0
    /\ bad_checksums' = 0
    /\ dispatched' = <<>>
    /\ discarded' = 0
    /\ UNCHANGED <<num, pc, offset>>

-----------------------------------------------------------------------------

Scan ==
    \/ SkipByte
    \/ \E t \in MsgType : BadChecksum(t)
    \/ \E k \in 1 .. Len(msgs) : Dispatch(k)
    \/ FinishFeed

ServerSends ==
    \E t \in MsgType, skip \in 0 .. MaxSkip :
        \E len \in 1 .. msg_total_size(t) : Send(t, skip, len)

Receive == \E n \in 1 .. RecvBufSize : feed(n)

Next == ServerSends \/ Receive \/ Scan \/ reset

Spec == Init /\ [][Next]_vars

\* feed is a loop that nothing outside it can stop, and the receive loop of
\* feed_handler.cpp drains the socket as long as it has bytes.
FairSpec == Spec /\ WF_vars(Scan) /\ WF_vars(Receive)

-----------------------------------------------------------------------------
(* Properties.                                                             *)

\* Each variable keeps its type: the residual never outgrows buf_, and offset
\* never passes buf_used_, so that buf_used_ - offset does not wrap.
TypeOK ==
    /\ msgs \in Seq(Message)
    /\ num \in Nat \ {0}
    /\ recvd \in Nat
    /\ buf \in Seq(Nat)
    /\ Len(buf) <= ParseBufSize
    /\ pc \in {"idle", "scan"}
    /\ offset \in 0 .. Len(buf)
    /\ pc = "idle" => offset = 0
    /\ last_seq \in 0 .. SeqMod - 1
    /\ total_parsed \in Nat
    /\ seq_gaps \in Nat
    /\ bad_checksums \in Nat
    /\ dispatched \in Seq(Nat)
    /\ discarded \in Nat

Channel == INSTANCE MessageChannel WITH sent <- msgs, got <- dispatched

\* On a stream of whole messages the parser is a channel that loses nothing,
\* however the stream is cut into fragments.
ExactChannel == Channel!Exact

\* On any stream, also one with messages cut short or bytes discarded, no
\* message is handed over twice, out of order, or in part.
LossyChannel == Channel!Lossy

\* Between two calls of feed nothing complete is left behind: on a stream of
\* whole messages the next message to hand over has not fully arrived.
PromptDispatch ==
    pc = "idle" /\ ~Truncation /\ Len(dispatched) < Len(msgs) =>
        LET m == msgs[Len(dispatched) + 1] IN m.start + m.len > recvd

\* The residual that feed leaves is shorter than one message, so a receive
\* buffer's worth always fits into buf_ and nothing is ever discarded
\* (parser.cpp:18-26, feed_handler.cpp:99).
NothingDiscarded ==
    RecvBufSize + QuoteSize <= ParseBufSize + 1 => discarded = 0

\* seq_gaps_ counts exactly the numbers missing between the first and the
\* last message of the connection that were handed over, whether the server
\* skipped them or they were lost on the way, until seq_no wraps.  A gap over
\* the wrap, or behind number 0, may be overlooked (parser.cpp:53), but never
\* are more numbers counted than are missing.
GapsExact ==
    dispatched # <<>> =>
        LET last    == msgs[dispatched[Len(dispatched)]].num
            missing == last - msgs[dispatched[1]].num - (Len(dispatched) - 1)
        IN  /\ seq_gaps <= missing
            /\ last < SeqMod => seq_gaps = missing

\* Every call of feed returns, whatever the bytes are: each iteration of the
\* loop advances or leaves it.
FeedReturns == pc = "scan" ~> pc = "idle"

\* Every message of an unbroken connection is eventually handed over.
EventuallyDispatched ==
    \A k \in 1 .. MaxMessages :
        Len(msgs) >= k ~> (Len(dispatched) >= k \/ msgs = <<>>)

=============================================================================
