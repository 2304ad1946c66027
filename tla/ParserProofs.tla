---------------------------- MODULE ParserProofs ----------------------------
(***************************************************************************)
(* Proofs about Parser::feed, for every size of header, message and        *)
(* buffer, every stream of messages and every way of cutting it up.        *)
(***************************************************************************)
EXTENDS Parser, SequenceTheorems, TLAPS

-----------------------------------------------------------------------------
(* The pieces that the actions are made of.                                *)

\* No message is longer than a quote (MAX_MSG_SIZE) or shorter than a header.
LEMMA Sizes ==
    ASSUME NEW t \in MsgType
    PROVE  msg_total_size(t) \in Nat /\ msg_total_size(t) > HeaderSize
           /\ msg_total_size(t) <= QuoteSize
<1>1. CASE t = "trade"
    BY <1>1, SizeAssumption DEF msg_total_size
<1>2. CASE t = "quote"
    BY <1>2, SizeAssumption DEF msg_total_size
<1>3. CASE t = "heartbeat"
    BY <1>3, SizeAssumption DEF msg_total_size
<1>4. QED
    BY <1>1, <1>2, <1>3 DEF MsgType

\* A message of the stream has the members of its type.
LEMMA MessageType ==
    ASSUME TypeOK, NEW k \in 1 .. Len(msgs)
    PROVE  /\ msgs[k].type \in MsgType
           /\ msgs[k].num \in Nat
           /\ msgs[k].start \in Nat
           /\ msgs[k].len \in Nat
<1>1. msgs[k] \in Message
    BY DEF TypeOK
<1>2. QED
    BY <1>1 DEF Message

\* hdr->msg_type reads as one of the types or as none (parser.cpp:34-37).
LEMMA HeaderTypesType == TypeOK => HeaderTypes \subseteq MsgType \cup {"unknown"}
<1> SUFFICES ASSUME TypeOK PROVE HeaderTypes \subseteq MsgType \cup {"unknown"}
    OBVIOUS
<1>1. \A k \in 1 .. Len(msgs) : msgs[k].type \in MsgType
    BY MessageType
<1>2. QED
    BY <1>1 DEF HeaderTypes

\* uint32_t arithmetic stays in range.
LEMMA Seq32Type ==
    ASSUME NEW x \in Int
    PROVE  Seq32(x) \in 0 .. SeqMod - 1 /\ Seq32(x) \in Nat
<1>1. x % SeqMod \in 0 .. SeqMod - 1
    BY SeqAssumption
<1>2. QED
    BY <1>1, SeqAssumption DEF Seq32

\* The number of missing messages is a natural number (parser.cpp:53-54).
LEMMA GapType ==
    ASSUME TypeOK, NEW x \in Nat
    PROVE  Gap(x) \in Nat
<1>1. x - last_seq - 1 \in Int
    BY SeqAssumption DEF TypeOK
<1>2. Seq32(x - last_seq - 1) \in Nat
    BY <1>1, Seq32Type
<1>3. QED
    BY <1>2 DEF Gap

\* The length of the stream is a natural number.
LEMMA SentType == TypeOK => SentBytes \in Nat
<1> SUFFICES ASSUME TypeOK, msgs # <<>> PROVE SentBytes \in Nat
    BY DEF SentBytes
<1>1. Len(msgs) \in 1 .. Len(msgs)
    BY DEF TypeOK
<1>2. QED
    BY <1>1, MessageType DEF SentBytes

\* What the copy at the entry of feed leaves in the buffer.
LEMMA FeedBuffer ==
    ASSUME TypeOK, NEW n \in 1 .. RecvBufSize, feed(n)
    PROVE  \E kept \in 0 .. n :
              /\ kept = (IF n > ParseBufSize - Len(buf)
                         THEN ParseBufSize - Len(buf) ELSE n)
              /\ discarded' = discarded + (n - kept)
              /\ buf' \in Seq(Nat)
              /\ Len(buf') = Len(buf) + kept
              /\ Len(buf') <= ParseBufSize
              /\ \A i \in 1 .. Len(buf) : buf'[i] = buf[i]
              /\ \A i \in 1 .. kept : buf'[Len(buf) + i] = recvd + i
<1> DEFINE kept == IF n > ParseBufSize - Len(buf)
                   THEN ParseBufSize - Len(buf) ELSE n
           new == [i \in 1 .. kept |-> recvd + i]
<1>1. /\ Len(buf) \in Nat /\ Len(buf) <= ParseBufSize /\ ParseBufSize \in Nat
      /\ n \in Nat /\ recvd \in Nat /\ buf \in Seq(Nat)
    BY BufferAssumption DEF TypeOK
<1>2. kept \in 0 .. n /\ Len(buf) + kept <= ParseBufSize
    BY <1>1
<1>3. buf' = buf \o new /\ discarded' = discarded + (n - kept)
    BY DEF feed
<1> HIDE DEF kept
<1>4. new \in Seq(Nat) /\ Len(new) = kept
    BY <1>1, <1>2
<1>5. /\ buf' \in Seq(Nat)
      /\ Len(buf') = Len(buf) + kept
      /\ \A i \in 1 .. Len(buf) : buf'[i] = buf[i]
      /\ \A i \in 1 .. kept : buf'[Len(buf) + i] = new[i]
    BY <1>1, <1>2, <1>3, <1>4
<1>6. QED
    BY <1>2, <1>3, <1>5 DEF kept

\* What the memmove at the end of feed leaves in the buffer.
LEMMA FinishBuffer ==
    ASSUME TypeOK, FinishFeed
    PROVE  /\ buf' \in Seq(Nat)
           /\ Len(buf') = Len(buf) - offset
           /\ \A i \in 1 .. Len(buf') : buf'[i] = buf[offset + i]
<1>1. /\ Len(buf) \in Nat /\ offset \in 0 .. Len(buf) /\ buf \in Seq(Nat)
    BY DEF TypeOK
<1>2. buf' = SubSeq(buf, offset + 1, Len(buf))
    BY DEF FinishFeed, Compacted
<1>3. QED
    BY <1>1, <1>2

\* The type invariant of the parser is inductive.
LEMMA TypeStep == TypeOK /\ [Next]_vars => TypeOK'
<1> SUFFICES ASSUME TypeOK, [Next]_vars PROVE TypeOK'
    OBVIOUS
<1>1. ASSUME NEW t \in MsgType, NEW skip \in 0 .. MaxSkip,
             NEW len \in 1 .. msg_total_size(t), Send(t, skip, len)
      PROVE  TypeOK'
  <2> DEFINE m == [type |-> t, num |-> num + skip, start |-> SentBytes, len |-> len]
  <2>1. len \in Nat /\ skip \in Nat /\ num \in Nat
      BY Sizes, EnvironmentAssumption DEF TypeOK
  <2>2. m \in Message /\ num' \in Nat \ {0}
      BY <1>1, <2>1, SentType DEF Message, Send
  <2>3. msgs' \in Seq(Message)
      BY <1>1, <2>2 DEF Send, TypeOK
  <2>4. QED
      BY <1>1, <2>2, <2>3 DEF Send, TypeOK, counters
<1>2. ASSUME NEW n \in 1 .. RecvBufSize, feed(n) PROVE TypeOK'
  <2>1. discarded' \in Nat /\ buf' \in Seq(Nat) /\ Len(buf') <= ParseBufSize
    <3>1. PICK kept \in 0 .. n : /\ discarded' = discarded + (n - kept)
                                /\ buf' \in Seq(Nat)
                                /\ Len(buf') <= ParseBufSize
        BY <1>2, FeedBuffer
    <3>2. discarded \in Nat
        BY DEF TypeOK
    <3>3. QED
        BY <3>1, <3>2
  <2>2. recvd' \in Nat /\ offset' \in 0 .. Len(buf')
      BY <1>2, <2>1, BufferAssumption DEF feed, TypeOK
  <2>3. QED
      BY <1>2, <2>1, <2>2 DEF feed, TypeOK, counters
<1>3. CASE SkipByte
    BY <1>3, SizeAssumption DEF SkipByte, Scanning, TypeOK, counters
<1>4. ASSUME NEW t \in MsgType, BadChecksum(t) PROVE TypeOK'
    BY <1>4, Sizes DEF BadChecksum, Scanning, TypeOK
<1>5. ASSUME NEW k \in 1 .. Len(msgs), Dispatch(k) PROVE TypeOK'
  <2>1. msgs[k].type \in MsgType /\ msgs[k].num \in Nat
      BY MessageType
  <2>2. offset' \in 0 .. Len(buf')
    <3>1. /\ msg_total_size(msgs[k].type) \in Nat
          /\ offset' = offset + msg_total_size(msgs[k].type)
          /\ Len(buf) - offset >= msg_total_size(msgs[k].type)
          /\ buf' = buf
        BY <1>5, <2>1, Sizes DEF Dispatch, Holds
    <3>2. offset \in 0 .. Len(buf) /\ Len(buf) \in Nat
        BY DEF TypeOK
    <3>3. QED
        BY <3>1, <3>2
  <2>4. /\ Seq32(msgs[k].num) \in 0 .. SeqMod - 1
        /\ Seq32(msgs[k].num) \in Nat
    <3>1. msgs[k].num \in Int
        BY <2>1
    <3>2. QED
        BY <3>1, Seq32Type
  <2>5. last_seq' \in 0 .. SeqMod - 1
      BY <1>5, <2>4 DEF Dispatch
  <2>6. Gap(Seq32(msgs[k].num)) \in Nat
      BY <2>4, GapType
  <2>7. seq_gaps' \in Nat
      BY <1>5, <2>6 DEF Dispatch, TypeOK
  <2>8. dispatched' \in Seq(Nat)
      BY <1>5 DEF Dispatch, TypeOK
  <2>9. QED
      BY <1>5, <2>2, <2>5, <2>7, <2>8 DEF Dispatch, Scanning, TypeOK
<1>6. CASE FinishFeed
  <2>1. Len(buf') <= ParseBufSize /\ offset' \in 0 .. Len(buf') /\ buf' \in Seq(Nat)
      BY <1>6, FinishBuffer, BufferAssumption DEF FinishFeed, TypeOK
  <2>2. QED
      BY <1>6, <2>1 DEF FinishFeed, TypeOK, counters
<1>7. CASE reset
    BY <1>7, BufferAssumption, SeqAssumption DEF reset, TypeOK
<1>8. CASE UNCHANGED vars
    BY <1>8 DEF vars, counters, TypeOK
<1>9. QED
    BY <1>1, <1>2, <1>3, <1>4, <1>5, <1>6, <1>7, <1>8
       DEF Next, ServerSends, Receive, Scan

\* The constructor establishes the types (parser.cpp:5-11).
LEMMA TypeInit == Init => TypeOK
BY BufferAssumption, SeqAssumption DEF Init, TypeOK

\* Every variable of the parser keeps its type: in particular offset never
\* passes buf_used_, and buf_used_ never passes sizeof(buf_).
THEOREM TypeCorrect == Spec => []TypeOK
BY TypeInit, TypeStep, PTL DEF Spec

-----------------------------------------------------------------------------
(* Nothing is discarded.                                                   *)

ResidualInv ==
    /\ TypeOK
    /\ pc = "idle" => Len(buf) < QuoteSize
    /\ NothingDiscarded

\* A new parser has no residual.
LEMMA ResidualInit == Init => ResidualInv
<1> SUFFICES ASSUME Init PROVE ResidualInv
    OBVIOUS
<1>1. TypeOK
    BY TypeInit
<1>2. Len(buf) < QuoteSize /\ discarded = 0
    BY SizeAssumption DEF Init
<1>3. QED
    BY <1>1, <1>2 DEF ResidualInv, NothingDiscarded

\* feed leaves less than one message behind, so the next one has room
\* (parser.cpp:18-30, 76-80).
LEMMA ResidualStep == ResidualInv /\ [Next]_vars => ResidualInv'
<1> SUFFICES ASSUME ResidualInv, [Next]_vars PROVE ResidualInv'
    OBVIOUS
<1>1. TypeOK /\ TypeOK'
    BY TypeStep DEF ResidualInv
<1>2. ASSUME NEW n \in 1 .. RecvBufSize, feed(n) PROVE ResidualInv'
  <2>1. ASSUME RecvBufSize + QuoteSize <= ParseBufSize + 1
        PROVE  discarded' = discarded
    <3>1. /\ Len(buf) < QuoteSize /\ Len(buf) \in Nat /\ discarded \in Nat
        BY <1>1, <1>2 DEF ResidualInv, feed, TypeOK
    <3>2. ~(n > ParseBufSize - Len(buf))
        BY <2>1, <3>1, BufferAssumption, SizeAssumption
    <3>3. PICK kept \in 0 .. n :
             /\ kept = (IF n > ParseBufSize - Len(buf)
                        THEN ParseBufSize - Len(buf) ELSE n)
             /\ discarded' = discarded + (n - kept)
        BY <1>1, <1>2, FeedBuffer
    <3>4. kept = n
        BY <3>2, <3>3
    <3>5. QED
        BY <3>1, <3>3, <3>4
  <2>2. QED
      BY <1>1, <1>2, <2>1 DEF ResidualInv, NothingDiscarded, feed
<1>3. CASE FinishFeed
  <2>1. Len(buf) - offset < QuoteSize
    <3>1. Len(buf) \in Nat /\ offset \in Nat
        BY <1>1 DEF TypeOK
    <3>2. CASE Len(buf) - offset < HeaderSize
        BY <3>1, <3>2, SizeAssumption
    <3>3. ASSUME NEW t \in MsgType, Len(buf) - offset < msg_total_size(t)
          PROVE  Len(buf) - offset < QuoteSize
        BY <3>1, <3>3, Sizes, SizeAssumption
    <3>4. QED
        BY <1>1, <1>3, <3>2, <3>3, HeaderTypesType DEF FinishFeed
  <2>2. Len(buf') < QuoteSize
      BY <1>1, <1>3, <2>1, FinishBuffer
  <2>3. QED
      BY <1>1, <1>3, <2>2 DEF ResidualInv, NothingDiscarded, FinishFeed
<1>4. CASE reset
  <2>1. Len(buf') < QuoteSize /\ discarded' = 0
      BY <1>4, SizeAssumption DEF reset
  <2>2. QED
      BY <1>1, <2>1 DEF ResidualInv, NothingDiscarded
<1>5. ASSUME pc' = pc, buf' = buf, discarded' = discarded PROVE ResidualInv'
    BY <1>1, <1>5 DEF ResidualInv, NothingDiscarded
<1>6. QED
    BY <1>2, <1>3, <1>4, <1>5
       DEF Next, ServerSends, Receive, Scan, Send, SkipByte, BadChecksum, Dispatch,
           vars

\* A call of feed leaves less than one message in the buffer, so whatever the
\* stream holds, the next receive buffer's worth fits and no byte is lost.
THEOREM NeverDiscards == Spec => []NothingDiscarded
<1>1. ResidualInv => NothingDiscarded
    BY DEF ResidualInv
<1>2. QED
    BY <1>1, ResidualInit, ResidualStep, PTL DEF Spec

-----------------------------------------------------------------------------
(* At most once, in order, intact: on every stream.                        *)

End(k) == msgs[k].start + msgs[k].len

\* Messages follow one another in the stream and in number.
MsgsInv ==
    /\ \A k \in 1 .. Len(msgs) :
          /\ msgs[k].len >= 1
          /\ End(k) <= SentBytes
          /\ 1 <= msgs[k].num /\ msgs[k].num < num /\ msgs[k].num <= MaxNum
    /\ \A k, l \in 1 .. Len(msgs) :
          k < l => End(k) <= msgs[l].start /\ msgs[k].num < msgs[l].num

\* The buffer holds received bytes in stream order.
BufInv ==
    /\ \A i \in 1 .. Len(buf) : buf[i] <= recvd
    /\ \A i, j \in 1 .. Len(buf) : i < j => buf[i] < buf[j]

\* Everything from offset on comes after the last message handed over.
PastInv ==
    /\ \A j \in 1 .. Len(dispatched) : dispatched[j] \in 1 .. Len(msgs)
    /\ dispatched # <<>> =>
          LET e == End(dispatched[Len(dispatched)])
          IN  /\ e <= recvd
              /\ \A i \in 1 .. Len(buf) : i > offset => buf[i] > e

OrderInv == TypeOK /\ MsgsInv /\ BufInv /\ PastInv

\* What the server's send adds.
LEMMA SendMessages ==
    ASSUME TypeOK, NEW t \in MsgType, NEW skip \in 0 .. MaxSkip,
           NEW len \in 1 .. msg_total_size(t), Send(t, skip, len)
    PROVE  /\ Len(msgs') = Len(msgs) + 1
           /\ \A k \in 1 .. Len(msgs) : msgs'[k] = msgs[k]
           /\ msgs'[Len(msgs) + 1] = [type |-> t, num |-> num + skip,
                                      start |-> SentBytes, len |-> len]
           /\ SentBytes' = SentBytes + len
           /\ num' = num + skip + 1
           /\ num + skip <= MaxNum
           /\ len \in Nat \ {0} /\ skip \in Nat
<1>1. msgs \in Seq(Message) /\ Len(msgs) \in Nat
    BY DEF TypeOK
<1>2. /\ Len(msgs') = Len(msgs) + 1
      /\ \A k \in 1 .. Len(msgs) : msgs'[k] = msgs[k]
      /\ msgs'[Len(msgs) + 1] = [type |-> t, num |-> num + skip,
                                 start |-> SentBytes, len |-> len]
    BY <1>1 DEF Send
<1>3. msgs' # <<>>
    BY <1>1, <1>2
<1>4. SentBytes' = msgs'[Len(msgs')].start + msgs'[Len(msgs')].len
    BY <1>3 DEF SentBytes
<1>5. len \in Nat \ {0} /\ skip \in Nat
    BY Sizes, EnvironmentAssumption
<1>6. QED
    BY <1>2, <1>4, <1>5 DEF Send

\* A message added to the stream comes after all others.
LEMMA MsgsSend ==
    ASSUME TypeOK, MsgsInv, NEW t \in MsgType, NEW skip \in 0 .. MaxSkip,
           NEW len \in 1 .. msg_total_size(t), Send(t, skip, len)
    PROVE  MsgsInv'
<1>0. PICK n \in Nat : n = Len(msgs) + 1
    BY DEF TypeOK
<1>1. /\ Len(msgs') = n
      /\ \A k \in 1 .. Len(msgs) : msgs'[k] = msgs[k]
      /\ msgs'[n].num = num + skip
      /\ msgs'[n].start = SentBytes
      /\ msgs'[n].len = len
      /\ SentBytes' = SentBytes + len
      /\ num' = num + skip + 1
      /\ num + skip <= MaxNum
      /\ len \in Nat \ {0} /\ skip \in Nat
  <2>1. msgs'[n] = [type |-> t, num |-> num + skip, start |-> SentBytes, len |-> len]
      BY <1>0, SendMessages
  <2>2. QED
      BY <1>0, <2>1, SendMessages
<1>2. Len(msgs) \in Nat /\ SentBytes \in Nat /\ num \in Nat \ {0}
    BY SentType DEF TypeOK
<1>3. ASSUME NEW k \in 1 .. Len(msgs)
      PROVE  /\ End(k)' = End(k) /\ End(k) \in Nat /\ End(k) <= SentBytes
             /\ msgs'[k].num = msgs[k].num /\ msgs[k].num \in Nat
             /\ msgs[k].num < num /\ 1 <= msgs[k].num /\ msgs[k].num <= MaxNum
             /\ msgs'[k].len = msgs[k].len /\ msgs[k].len >= 1
             /\ msgs'[k].start = msgs[k].start
    BY <1>1, MessageType DEF End, MsgsInv
<1>4. End(n)' = SentBytes'
    BY <1>1 DEF End
<1>5. ASSUME NEW k \in 1 .. n
      PROVE  /\ msgs'[k].len >= 1
             /\ End(k)' <= SentBytes'
             /\ 1 <= msgs'[k].num /\ msgs'[k].num < num' /\ msgs'[k].num <= MaxNum
  <2>1. CASE k = n
      BY <1>1, <1>2, <1>4, <2>1, EnvironmentAssumption
  <2>2. CASE k \in 1 .. Len(msgs)
      BY <1>1, <1>2, <1>3, <2>2, EnvironmentAssumption
  <2>3. QED
      BY <1>0, <1>2, <2>1, <2>2
<1>6. ASSUME NEW k \in 1 .. n, NEW l \in 1 .. n, k < l
      PROVE  End(k)' <= msgs'[l].start /\ msgs'[k].num < msgs'[l].num
  <2>1. k \in 1 .. Len(msgs)
      BY <1>0, <1>2, <1>6
  <2>2. CASE l = n
      BY <1>1, <1>2, <1>3, <2>1, <2>2
  <2>3. CASE l \in 1 .. Len(msgs)
      BY <1>3, <1>6, <2>1, <2>3 DEF MsgsInv
  <2>4. QED
      BY <1>0, <1>2, <2>2, <2>3
<1>7. QED
    BY <1>1, <1>5, <1>6 DEF MsgsInv

\* Appending fresh bytes keeps the buffer in stream order, also when some of
\* them are discarded (parser.cpp:18-30).
LEMMA OrderFeed ==
    ASSUME OrderInv, NEW n \in 1 .. RecvBufSize, feed(n)
    PROVE  BufInv' /\ PastInv'
<1>1. TypeOK
    BY DEF OrderInv
<1>2. PICK kept \in 0 .. n :
          /\ Len(buf') = Len(buf) + kept
          /\ \A i \in 1 .. Len(buf) : buf'[i] = buf[i]
          /\ \A i \in 1 .. kept : buf'[Len(buf) + i] = recvd + i
    BY <1>1, FeedBuffer
<1>3. /\ Len(buf) \in Nat /\ recvd \in Nat /\ offset = 0
      /\ \A i \in 1 .. Len(buf) : buf[i] \in Nat
      /\ n \in Nat /\ kept \in Nat /\ kept <= n
      /\ recvd' = recvd + n /\ offset' = 0
      /\ msgs' = msgs /\ dispatched' = dispatched
    BY <1>1, BufferAssumption DEF TypeOK, feed
<1>4. ASSUME NEW i \in 1 .. Len(buf'), ~(i \in 1 .. Len(buf))
      PROVE  buf'[i] = recvd + (i - Len(buf)) /\ i - Len(buf) \in 1 .. kept
  <2>1. i - Len(buf) \in 1 .. kept /\ i = Len(buf) + (i - Len(buf))
      BY <1>2, <1>3, <1>4
  <2>2. QED
      BY <1>2, <2>1
<1>5. BufInv'
  <2>1. ASSUME NEW i \in 1 .. Len(buf') PROVE buf'[i] <= recvd'
    <3>1. CASE i \in 1 .. Len(buf)
        BY <1>2, <1>3, <3>1 DEF OrderInv, BufInv
    <3>2. CASE ~(i \in 1 .. Len(buf))
        BY <1>3, <1>4, <3>2
    <3>3. QED
        BY <3>1, <3>2
  <2>2. ASSUME NEW i \in 1 .. Len(buf'), NEW j \in 1 .. Len(buf'), i < j
        PROVE  buf'[i] < buf'[j]
    <3>1. CASE i \in 1 .. Len(buf) /\ j \in 1 .. Len(buf)
        BY <1>2, <2>2, <3>1 DEF OrderInv, BufInv
    <3>2. CASE i \in 1 .. Len(buf) /\ ~(j \in 1 .. Len(buf))
      <4>1. buf'[i] <= recvd /\ buf'[i] \in Nat
          BY <1>2, <1>3, <3>2 DEF OrderInv, BufInv
      <4>2. QED
          BY <1>3, <1>4, <3>2, <4>1
    <3>3. CASE ~(i \in 1 .. Len(buf))
      <4>1. ~(j \in 1 .. Len(buf))
          BY <1>2, <1>3, <2>2, <3>3
      <4>2. QED
          BY <1>2, <1>3, <1>4, <2>2, <3>3, <4>1
    <3>4. QED
        BY <3>1, <3>2, <3>3
  <2>3. QED
      BY <2>1, <2>2 DEF BufInv
<1>6. PastInv'
  <2> SUFFICES ASSUME dispatched # <<>>
               PROVE  LET e == End(dispatched[Len(dispatched)])
                      IN  /\ e <= recvd'
                          /\ \A i \in 1 .. Len(buf') : buf'[i] > e
      BY <1>3 DEF OrderInv, PastInv, End
  <2> DEFINE e == End(dispatched[Len(dispatched)])
  <2>1. dispatched[Len(dispatched)] \in 1 .. Len(msgs)
      BY <1>1 DEF OrderInv, PastInv, TypeOK
  <2>2. e \in Nat /\ e <= recvd
      BY <1>1, <2>1, MessageType DEF OrderInv, PastInv, End
  <2>3. \A i \in 1 .. Len(buf) : buf[i] > e
      BY <1>3 DEF OrderInv, PastInv
  <2> HIDE DEF e
  <2>4. ASSUME NEW i \in 1 .. Len(buf') PROVE buf'[i] > e
    <3>1. CASE i \in 1 .. Len(buf)
        BY <1>2, <2>3, <3>1
    <3>2. CASE ~(i \in 1 .. Len(buf))
        BY <1>3, <1>4, <2>2, <3>2
    <3>3. QED
        BY <3>1, <3>2
  <2>5. e <= recvd'
      BY <1>3, <2>2
  <2>6. QED
      BY <2>4, <2>5 DEF e
<1>7. QED
    BY <1>5, <1>6

\* A message is handed over only after all earlier ones.
LEMMA DispatchNewer ==
    ASSUME OrderInv, NEW k \in 1 .. Len(msgs), Dispatch(k), dispatched # <<>>
    PROVE  k > dispatched[Len(dispatched)]
<1> DEFINE d == dispatched[Len(dispatched)]
<1>1. TypeOK /\ d \in 1 .. Len(msgs) /\ Len(msgs) \in Nat
    BY DEF OrderInv, PastInv, TypeOK
<1>2. msg_total_size(msgs[k].type) \in Nat \ {0}
    BY <1>1, MessageType, Sizes, SizeAssumption
<1>3. /\ buf[offset + 1] = msgs[k].start + 1
      /\ offset + 1 \in 1 .. Len(buf)
  <2>1. offset \in Nat /\ Len(buf) \in Nat
      BY <1>1 DEF TypeOK
  <2>2. 1 \in 1 .. msg_total_size(msgs[k].type)
      BY <1>2
  <2>3. /\ Len(buf) - offset >= msg_total_size(msgs[k].type)
        /\ buf[offset + 1] = msgs[k].start + 1
      BY <2>2 DEF Dispatch, Holds
  <2>4. QED
      BY <1>2, <2>1, <2>3
<1>4. buf[offset + 1] > End(d)
  <2>1. offset \in Nat
      BY <1>1 DEF TypeOK
  <2>2. QED
      BY <1>3, <2>1 DEF OrderInv, PastInv
<1> HIDE DEF d
<1>5. /\ msgs[k].start \in Nat /\ msgs[d].start \in Nat /\ msgs[d].len \in Nat
      /\ msgs[k].len \in Nat
    BY <1>1, MessageType
<1>6. msgs[k].start >= End(d)
  <2>1. End(d) \in Nat
      BY <1>5 DEF End
  <2>2. msgs[k].start + 1 > End(d)
      BY <1>3, <1>4
  <2>3. QED
      BY <1>5, <2>1, <2>2
<1>7. /\ msgs[d].len >= 1 /\ msgs[k].len >= 1
      /\ k < d => End(k) <= msgs[d].start
    BY <1>1 DEF OrderInv, MsgsInv
<1>8. k # d
    BY <1>5, <1>6, <1>7 DEF End
<1>9. ~(k < d)
    BY <1>5, <1>6, <1>7 DEF End
<1>10. QED
    BY <1>1, <1>8, <1>9 DEF d

\* What is left after a message was handed over comes after that message
\* (parser.cpp:52-73).
LEMMA OrderDispatch ==
    ASSUME OrderInv, NEW k \in 1 .. Len(msgs), Dispatch(k)
    PROVE  PastInv'
<1> DEFINE z == msg_total_size(msgs[k].type)
<1>1. TypeOK
    BY DEF OrderInv
<1>2. /\ z \in Nat \ {0} /\ offset \in Nat /\ Len(buf) \in Nat /\ recvd \in Nat
      /\ \A i \in 1 .. Len(buf) : buf[i] \in Nat
      /\ dispatched \in Seq(Nat)
  <2>1. z \in Nat \ {0}
      BY <1>1, MessageType, Sizes, SizeAssumption
  <2>2. buf \in Seq(Nat) /\ offset \in 0 .. Len(buf) /\ recvd \in Nat
        /\ dispatched \in Seq(Nat)
      BY <1>1 DEF TypeOK
  <2>3. Len(buf) \in Nat /\ \A i \in 1 .. Len(buf) : buf[i] \in Nat
      BY <2>2
  <2>4. QED
      BY <2>1, <2>2, <2>3
<1>3. /\ msgs[k].len = z
      /\ offset + z <= Len(buf)
      /\ buf[offset + z] = msgs[k].start + z
      /\ offset' = offset + z
      /\ dispatched' = Append(dispatched, k)
      /\ msgs' = msgs /\ buf' = buf /\ recvd' = recvd
    BY <1>2 DEF Dispatch, Holds, Whole
<1> HIDE DEF z
<1>4. buf[offset + z] = End(k)
    BY <1>3 DEF End
<1>5. offset + z \in 1 .. Len(buf)
    BY <1>2, <1>3
<1>6. End(k) <= recvd
    BY <1>4, <1>5 DEF OrderInv, BufInv
<1>7. ASSUME NEW i \in 1 .. Len(buf), i > offset + z PROVE buf[i] > End(k)
    BY <1>2, <1>4, <1>5, <1>7 DEF OrderInv, BufInv
<1>8. /\ Len(dispatched') = Len(dispatched) + 1
      /\ dispatched'[Len(dispatched')] = k
      /\ \A j \in 1 .. Len(dispatched) : dispatched'[j] = dispatched[j]
    BY <1>2, <1>3
<1>9. \A j \in 1 .. Len(dispatched') : dispatched'[j] \in 1 .. Len(msgs)
  <2> SUFFICES ASSUME NEW j \in 1 .. Len(dispatched')
               PROVE  dispatched'[j] \in 1 .. Len(msgs)
      OBVIOUS
  <2>1. j = Len(dispatched') \/ j \in 1 .. Len(dispatched)
      BY <1>2, <1>8
  <2>2. QED
      BY <1>8, <2>1 DEF OrderInv, PastInv
<1>10. QED
    BY <1>3, <1>6, <1>7, <1>8, <1>9 DEF PastInv, End

\* Every step keeps the stream, the buffer and the callbacks in order.
LEMMA OrderStep == OrderInv /\ [Next]_vars => OrderInv'
<1> SUFFICES ASSUME OrderInv, [Next]_vars PROVE OrderInv'
    OBVIOUS
<1>1. TypeOK /\ TypeOK'
    BY TypeStep DEF OrderInv
<1>2. ASSUME NEW t \in MsgType, NEW skip \in 0 .. MaxSkip,
             NEW len \in 1 .. msg_total_size(t), Send(t, skip, len)
      PROVE  OrderInv'
  <2>1. MsgsInv'
      BY <1>1, <1>2, MsgsSend DEF OrderInv
  <2>2. BufInv'
      BY <1>2 DEF Send, OrderInv, BufInv
  <2>3. /\ Len(msgs') = Len(msgs) + 1 /\ Len(msgs) \in Nat
        /\ \A k \in 1 .. Len(msgs) : msgs'[k] = msgs[k]
    <3>1. Len(msgs) \in Nat
        BY <1>1 DEF TypeOK
    <3>2. QED
        BY <1>1, <1>2, <3>1, SendMessages
  <2>4. ASSUME NEW k \in 1 .. Len(msgs)
        PROVE  k \in 1 .. Len(msgs') /\ End(k)' = End(k)
      BY <2>3 DEF End
  <2>5. dispatched # <<>> => Len(dispatched) \in 1 .. Len(dispatched)
    <3>1. dispatched \in Seq(Nat)
        BY <1>1 DEF TypeOK
    <3>2. QED
        BY <3>1
  <2>6. PastInv'
    <3>1. UNCHANGED <<dispatched, recvd, buf, offset>>
        BY <1>2 DEF Send
    <3>2. \A j \in 1 .. Len(dispatched) : dispatched[j] \in 1 .. Len(msgs')
        BY <2>4 DEF OrderInv, PastInv
    <3>3. ASSUME dispatched # <<>>
          PROVE  End(dispatched[Len(dispatched)])' = End(dispatched[Len(dispatched)])
      <4>1. dispatched[Len(dispatched)] \in 1 .. Len(msgs)
          BY <2>5, <3>3 DEF OrderInv, PastInv
      <4>2. QED
          BY <2>3, <3>1, <4>1 DEF End
    <3>4. QED
        BY <3>1, <3>2, <3>3 DEF OrderInv, PastInv
  <2>7. QED
      BY <1>1, <2>1, <2>2, <2>6 DEF OrderInv
<1>3. ASSUME NEW n \in 1 .. RecvBufSize, feed(n) PROVE OrderInv'
  <2>1. MsgsInv'
      BY <1>3 DEF feed, OrderInv, MsgsInv, End, SentBytes
  <2>2. QED
      BY <1>1, <1>3, <2>1, OrderFeed DEF OrderInv
<1>4. ASSUME offset' >= offset, UNCHANGED <<msgs, num, recvd, buf, dispatched>>
      PROVE  OrderInv'
  <2>1. MsgsInv' /\ BufInv'
      BY <1>4 DEF OrderInv, MsgsInv, BufInv, End, SentBytes
  <2>2. offset \in Nat /\ offset' \in Nat /\ Len(buf) \in Nat
      BY <1>1, <1>4 DEF TypeOK
  <2>3. PastInv'
      BY <1>4, <2>2 DEF OrderInv, PastInv, End
  <2>4. QED
      BY <1>1, <2>1, <2>3 DEF OrderInv
<1>5. ASSUME NEW k \in 1 .. Len(msgs), Dispatch(k) PROVE OrderInv'
  <2>1. MsgsInv' /\ BufInv'
      BY <1>5 DEF Dispatch, OrderInv, MsgsInv, BufInv, End, SentBytes
  <2>2. QED
      BY <1>1, <1>5, <2>1, OrderDispatch DEF OrderInv
<1>6. CASE FinishFeed
  <2>1. MsgsInv'
      BY <1>6 DEF FinishFeed, OrderInv, MsgsInv, End, SentBytes
  <2>2. /\ Len(buf') = Len(buf) - offset
        /\ \A i \in 1 .. Len(buf') : buf'[i] = buf[offset + i]
      BY <1>1, <1>6, FinishBuffer
  <2>3. offset \in 0 .. Len(buf) /\ Len(buf) \in Nat
      BY <1>1 DEF TypeOK
  <2>4. \A i \in 1 .. Len(buf') : offset + i \in 1 .. Len(buf) /\ offset + i > offset
      BY <2>2, <2>3
  <2>5. BufInv'
    <3>1. \A i \in 1 .. Len(buf') : buf'[i] <= recvd
        BY <2>2, <2>4 DEF OrderInv, BufInv
    <3>2. ASSUME NEW i \in 1 .. Len(buf'), NEW j \in 1 .. Len(buf'), i < j
          PROVE  buf'[i] < buf'[j]
      <4>1. offset + i < offset + j
          BY <2>3, <3>2
      <4>2. QED
          BY <2>2, <2>4, <4>1 DEF OrderInv, BufInv
    <3>3. QED
        BY <1>6, <3>1, <3>2 DEF BufInv, FinishFeed
  <2>6. PastInv'
      BY <1>6, <2>2, <2>4 DEF FinishFeed, OrderInv, PastInv, End
  <2>7. QED
      BY <1>1, <2>1, <2>5, <2>6 DEF OrderInv
<1>7. CASE reset
    BY <1>1, <1>7 DEF reset, OrderInv, MsgsInv, BufInv, PastInv
<1>8. CASE SkipByte
    BY <1>1, <1>4, <1>8 DEF SkipByte, TypeOK
<1>9. ASSUME NEW t \in MsgType, BadChecksum(t) PROVE OrderInv'
    BY <1>1, <1>4, <1>9, Sizes DEF BadChecksum, TypeOK
<1>10. CASE UNCHANGED vars
    BY <1>1, <1>4, <1>10 DEF vars, TypeOK
<1>11. QED
    BY <1>2, <1>3, <1>5, <1>6, <1>7, <1>8, <1>9, <1>10
       DEF Next, ServerSends, Receive, Scan

\* An empty stream is in order.
LEMMA OrderInit == Init => OrderInv
<1> SUFFICES ASSUME Init PROVE OrderInv
    OBVIOUS
<1>1. TypeOK
    BY TypeInit
<1>2. MsgsInv /\ BufInv /\ PastInv
    BY DEF Init, MsgsInv, BufInv, PastInv
<1>3. QED
    BY <1>1, <1>2 DEF OrderInv

\* A message written by the server is a send of the abstract channel.
LEMMA ChannelSend ==
    ASSUME TypeOK, NEW t \in MsgType, NEW skip \in 0 .. MaxSkip,
           NEW len \in 1 .. msg_total_size(t), Send(t, skip, len)
    PROVE  Channel!Send
<1> DEFINE m == [type |-> t, num |-> num + skip, start |-> SentBytes, len |-> len]
<1>1. /\ Len(msgs') = Len(msgs) + 1
      /\ msgs'[Len(msgs')] = m
      /\ len \in Nat /\ skip \in Nat
    BY SendMessages
<1>2. m \in Message
    BY <1>1, SentType DEF Message, TypeOK
<1>3. msgs' = Append(msgs, m) /\ dispatched' = dispatched
    BY DEF Send
<1>4. QED
    BY <1>1, <1>2, <1>3 DEF Channel!Send

\* Every step of the parser is a step of a channel that neither repeats nor
\* reorders messages.
LEMMA LossyStep == OrderInv /\ [Next]_vars => [Channel!LossyNext]_(Channel!vars)
<1> SUFFICES ASSUME OrderInv, Next PROVE Channel!LossyNext \/ UNCHANGED Channel!vars
    BY DEF vars, Channel!vars
<1>1. TypeOK
    BY DEF OrderInv
<1>2. ASSUME NEW t \in MsgType, NEW skip \in 0 .. MaxSkip,
             NEW len \in 1 .. msg_total_size(t), Send(t, skip, len)
      PROVE  Channel!Send
    BY <1>1, <1>2, ChannelSend
<1>3. ASSUME NEW k \in 1 .. Len(msgs), Dispatch(k) PROVE Channel!LossyNext
  <2>1. Channel!Deliver(k)
      BY <1>3 DEF Dispatch, Channel!Deliver
  <2>2. k \in Channel!Last(dispatched) + 1 .. Len(msgs)
    <3>1. CASE dispatched = <<>>
        BY <3>1 DEF Channel!Last
    <3>2. CASE dispatched # <<>>
      <4>1. k > dispatched[Len(dispatched)] /\ dispatched[Len(dispatched)] \in Nat
          BY <1>1, <1>3, <3>2, DispatchNewer DEF TypeOK
      <4>2. QED
          BY <3>2, <4>1 DEF Channel!Last
    <3>3. QED
        BY <3>1, <3>2
  <2>3. QED
      BY <2>1, <2>2 DEF Channel!LossyNext
<1>4. CASE reset
    BY <1>4 DEF reset, Channel!LossyNext, Channel!Reset
<1>5. ASSUME UNCHANGED <<msgs, dispatched>> PROVE UNCHANGED Channel!vars
    BY <1>5 DEF Channel!vars
<1>6. QED
    BY <1>2, <1>3, <1>4, <1>5
       DEF Next, ServerSends, Receive, Scan, feed, SkipByte, BadChecksum,
           FinishFeed, Channel!LossyNext

\* Whatever the stream holds - whole messages, messages cut short by a full
\* socket buffer, fragments of any size - the parser implements a channel that
\* hands each message over at most once, intact and in order.
THEOREM ParserIsLossyChannel == Spec => LossyChannel
<1>1. Init => Channel!Init
    BY DEF Init, Channel!Init
<1>2. QED
    BY <1>1, OrderInit, OrderStep, LossyStep, PTL
       DEF Spec, LossyChannel, Channel!Lossy

-----------------------------------------------------------------------------
(* Sequence gaps, with a seq_no that wraps.                                *)

LastDone == dispatched[Len(dispatched)]

GapInv ==
    /\ OrderInv
    /\ dispatched = <<>> => last_seq = 0 /\ seq_gaps = 0
    /\ dispatched # <<>> => last_seq = Seq32(msgs[LastDone].num)
    /\ GapsExact

\* Division with remainder.
LEMMA Divided ==
    ASSUME NEW x \in Nat, NEW m \in Nat \ {0}
    PROVE  \E q \in Nat : x = m * q + (x % m) /\ x % m \in 0 .. m - 1
<1>1. x = m * (x \div m) + (x % m) /\ x % m \in 0 .. m - 1 /\ x \div m \in Nat
    OBVIOUS
<1> QED
    BY <1>1

\* A larger factor gives at least one multiple more.
LEMMA Multiples ==
    ASSUME NEW m \in Nat \ {0}, NEW a \in Nat, NEW b \in Nat, a < b
    PROVE  m * a + m <= m * b
<1>1. PICK d \in Nat : b = a + 1 + d
  <2>1. b - a - 1 \in Nat /\ b = a + 1 + (b - a - 1)
      OBVIOUS
  <2> QED
      BY <2>1
<1>2. m * b = m * a + m + m * d /\ m * d \in Nat /\ m * a \in Nat
    BY <1>1
<1> QED
    BY <1>2

\* Numbers that wrap are no further apart than the numbers themselves.
LEMMA WrappedDistance ==
    ASSUME NEW m \in Nat \ {0}, NEW x \in Nat, NEW y \in Nat, y < x
    PROVE  /\ (x % m) - (y % m) <= x - y
           /\ y % m = m - 1 => x % m <= x - y - 1
<1>1. PICK p \in Nat : x = m * p + (x % m) /\ x % m \in 0 .. m - 1
    BY Divided
<1>2. PICK q \in Nat : y = m * q + (y % m) /\ y % m \in 0 .. m - 1
    BY Divided
<1>3. m * p \in Nat /\ m * q \in Nat
    BY <1>1, <1>2
<1>4. CASE p = q
    BY <1>1, <1>2, <1>3, <1>4
<1>5. CASE q < p
  <2>1. m * q + m <= m * p
      BY <1>1, <1>2, <1>5, Multiples
  <2> QED
      BY <1>1, <1>2, <1>3, <2>1
<1>6. CASE p < q
  <2>1. m * p + m <= m * q
      BY <1>1, <1>2, <1>6, Multiples
  <2> QED
      BY <1>1, <1>2, <1>3, <2>1
<1> QED
    BY <1>1, <1>2, <1>4, <1>5, <1>6

\* A difference below 0 wraps to the number itself.
LEMMA WrappedBelow ==
    ASSUME NEW m \in Nat \ {0}, NEW s \in 0 .. m - 1
    PROVE  (s - m) % m = s
    OBVIOUS
\* Gap is at most the distance of two numbers, and is that below the range.
LEMMA GapValue ==
    ASSUME NEW x \in Nat, NEW y \in Nat, y < x, last_seq = Seq32(y)
    PROVE  /\ Gap(Seq32(x)) \in Nat
           /\ Gap(Seq32(x)) <= x - y - 1
           /\ x < SeqMod /\ y >= 1 => Gap(Seq32(x)) = x - y - 1
<1> DEFINE s == Seq32(x)
<1>0. SeqMod \in Nat \ {0} /\ SeqMod > 1
    BY SeqAssumption
<1>1. s \in 0 .. SeqMod - 1 /\ last_seq \in 0 .. SeqMod - 1
    BY <1>0 DEF Seq32
<1>2. s - last_seq <= x - y /\ (last_seq = SeqMod - 1 => s <= x - y - 1)
    BY <1>0, WrappedDistance DEF Seq32
<1>3. \A z \in Nat : z < SeqMod => Seq32(z) = z
    BY <1>0 DEF Seq32
<1>4. x < SeqMod => s = x /\ last_seq = y
    BY <1>0, <1>3
<1> HIDE DEF s
<1>5. CASE last_seq < SeqMod - 1
  <2>1. Seq32(last_seq + 1) = last_seq + 1
      BY <1>0, <1>1, <1>3, <1>5
  <2>2. s > last_seq + 1 => Seq32(s - last_seq - 1) = s - last_seq - 1
      BY <1>0, <1>1, <1>3
  <2>3. Gap(s) = IF last_seq > 0 /\ s > last_seq + 1 THEN s - last_seq - 1 ELSE 0
      BY <2>1, <2>2 DEF Gap
  <2> QED
      BY <1>0, <1>1, <1>2, <1>4, <2>3 DEF s
<1>6. CASE last_seq = SeqMod - 1
  <2>1. Seq32(last_seq + 1) = 0
      BY <1>0, <1>6 DEF Seq32
  <2>2. Seq32(s - last_seq - 1) = s
    <3>1. s - last_seq - 1 = s - SeqMod
        BY <1>0, <1>1, <1>6
    <3> QED
        BY <1>0, <1>1, <3>1, WrappedBelow DEF Seq32
  <2>3. Gap(s) = s
      BY <1>0, <1>1, <1>6, <2>1, <2>2 DEF Gap
  <2> QED
      BY <1>0, <1>1, <1>2, <1>4, <1>6, <2>3 DEF s
<1> QED
    BY <1>0, <1>1, <1>5, <1>6

\* The gaps counted up to a message and the one before the next add up.
LEMMA GapSum ==
    ASSUME NEW first \in Nat, NEW last \in Nat, NEW next \in Nat, last < next,
           NEW n \in Nat, NEW m \in Nat, NEW before \in Nat, NEW gap \in Nat,
           before <= last - first - (n - 1),
           last < m => before = last - first - (n - 1),
           gap <= next - last - 1,
           next < m => gap = next - last - 1
    PROVE  /\ before + gap <= next - first - ((n + 1) - 1)
           /\ next < m => before + gap = next - first - ((n + 1) - 1)
    OBVIOUS

\* Handing over a message adds the numbers missing before it, or fewer
\* (parser.cpp:52-59).
LEMMA GapDispatch ==
    ASSUME GapInv, OrderInv', NEW k \in 1 .. Len(msgs), Dispatch(k)
    PROVE  GapInv'
<1>1. /\ TypeOK /\ OrderInv
      /\ dispatched \in Seq(Nat) /\ Len(dispatched) \in Nat
      /\ msgs[k].num \in Nat
      /\ msgs[k].num <= MaxNum /\ msgs[k].num >= 1
      /\ seq_gaps \in Nat
  <2>1. TypeOK /\ OrderInv /\ MsgsInv
      BY DEF GapInv, OrderInv
  <2>2. dispatched \in Seq(Nat) /\ Len(dispatched) \in Nat /\ seq_gaps \in Nat
      BY <2>1 DEF TypeOK
  <2>3. QED
      BY <2>1, <2>2, MessageType DEF MsgsInv
<1>3. /\ last_seq' = Seq32(msgs[k].num)
      /\ seq_gaps' = seq_gaps + Gap(Seq32(msgs[k].num))
      /\ dispatched' = Append(dispatched, k)
      /\ msgs' = msgs
    BY DEF Dispatch
<1>4. /\ Len(dispatched') = Len(dispatched) + 1
      /\ dispatched'[Len(dispatched')] = k
      /\ dispatched # <<>> => dispatched'[1] = dispatched[1]
      /\ dispatched = <<>> => Len(dispatched) = 0 /\ dispatched'[1] = k
      /\ dispatched' # <<>>
    BY <1>1, <1>3
<1>5. GapsExact'
  <2>1. CASE dispatched = <<>>
    <3>1. Gap(Seq32(msgs[k].num)) = 0 /\ seq_gaps = 0
        BY <2>1 DEF GapInv, Gap
    <3>2. QED
        BY <1>1, <1>3, <1>4, <2>1, <3>1 DEF GapsExact
  <2>2. CASE dispatched # <<>>
    <3>1. k > LastDone /\ LastDone \in 1 .. Len(msgs) /\ dispatched[1] \in 1 .. Len(msgs)
      <4>1. /\ Len(dispatched) \in 1 .. Len(dispatched)
            /\ 1 \in 1 .. Len(dispatched)
          BY <1>1, <2>2
      <4>2. QED
          BY <1>1, <2>2, <4>1, DispatchNewer DEF LastDone, OrderInv, PastInv
    <3>2. /\ last_seq = Seq32(msgs[LastDone].num)
          /\ msgs[LastDone].num \in Nat /\ msgs[LastDone].num >= 1
          /\ msgs[LastDone].num < msgs[k].num
          /\ msgs[dispatched[1]].num \in Nat
        BY <1>1, <2>2, <3>1, MessageType DEF GapInv, OrderInv, MsgsInv
    <3> DEFINE first == msgs[dispatched[1]].num
               last == msgs[LastDone].num
               next == msgs[k].num
               n == Len(dispatched)
    <3>3. first \in Nat /\ last \in Nat /\ next \in Nat /\ n \in Nat /\ last < next /\ last >= 1
        BY <1>1, <3>2
    <3>4. /\ Gap(Seq32(next)) \in Nat
          /\ Gap(Seq32(next)) <= next - last - 1
          /\ next < SeqMod => Gap(Seq32(next)) = next - last - 1
        BY <3>2, <3>3, GapValue
    <3>5. /\ seq_gaps <= last - first - (n - 1)
          /\ last < SeqMod => seq_gaps = last - first - (n - 1)
        BY <2>2 DEF GapInv, GapsExact, LastDone
    <3>6. seq_gaps' = seq_gaps + Gap(Seq32(next))
        BY <1>3
    <3> HIDE DEF first, last, next, n
    <3>7. /\ seq_gaps' <= next - first - ((n + 1) - 1)
          /\ next < SeqMod => seq_gaps' = next - first - ((n + 1) - 1)
      <4> DEFINE gap == Gap(Seq32(next))
      <4>1. /\ gap \in Nat /\ gap <= next - last - 1
            /\ next < SeqMod => gap = next - last - 1
          BY <3>4
      <4>2. seq_gaps' = seq_gaps + gap /\ seq_gaps \in Nat /\ SeqMod \in Nat
          BY <1>1, <3>6, SeqAssumption
      <4> HIDE DEF gap
      <4>3. /\ seq_gaps + gap <= next - first - ((n + 1) - 1)
            /\ next < SeqMod => seq_gaps + gap = next - first - ((n + 1) - 1)
          BY <3>3, <3>5, <4>1, <4>2, GapSum
      <4> QED
          BY <4>2, <4>3
    <3>8. QED
        BY <1>3, <1>4, <2>2, <3>7 DEF GapsExact, first, next, n
  <2>3. QED
      BY <2>1, <2>2
<1>6. QED
    BY <1>3, <1>4, <1>5 DEF GapInv, LastDone

\* Every step keeps the count of gaps as exact as it is.
LEMMA GapStep == GapInv /\ [Next]_vars => GapInv'
<1> SUFFICES ASSUME GapInv, [Next]_vars PROVE GapInv'
    OBVIOUS
<1>1. OrderInv /\ OrderInv' /\ TypeOK /\ PastInv
    BY OrderStep DEF GapInv, OrderInv
<1>2. ASSUME NEW t \in MsgType, NEW skip \in 0 .. MaxSkip,
             NEW len \in 1 .. msg_total_size(t), Send(t, skip, len)
      PROVE  GapInv'
  <2>1. \A k \in 1 .. Len(msgs) : msgs'[k] = msgs[k]
      BY <1>1, <1>2, SendMessages
  <2>2. UNCHANGED <<dispatched, last_seq, seq_gaps>>
      BY <1>2 DEF Send, counters
  <2>3. ASSUME dispatched # <<>>
        PROVE  /\ msgs'[LastDone] = msgs[LastDone]
               /\ msgs'[dispatched[1]] = msgs[dispatched[1]]
    <3>1. dispatched \in Seq(Nat)
        BY <1>1 DEF TypeOK
    <3>2. Len(dispatched) \in 1 .. Len(dispatched) /\ 1 \in 1 .. Len(dispatched)
        BY <2>3, <3>1
    <3>3. QED
        BY <1>1, <2>1, <3>2 DEF PastInv, LastDone
  <2>4. QED
      BY <1>1, <2>2, <2>3 DEF GapInv, GapsExact, LastDone
<1>3. ASSUME NEW k \in 1 .. Len(msgs), Dispatch(k) PROVE GapInv'
    BY <1>1, <1>3, GapDispatch
<1>4. CASE reset
    BY <1>1, <1>4 DEF reset, GapInv, GapsExact
<1>5. ASSUME UNCHANGED <<msgs, dispatched, last_seq, seq_gaps>> PROVE GapInv'
    BY <1>1, <1>5 DEF GapInv, GapsExact, LastDone
<1>6. QED
    BY <1>2, <1>3, <1>4, <1>5
       DEF Next, ServerSends, Receive, Scan, feed, SkipByte, BadChecksum,
           FinishFeed, counters, vars

\* Until the server's numbers reach 2^32, seq_gaps_ is exactly the number of
\* messages missing between the first and the last one handed over, also when
\* the stream is damaged; and however often they wrap, it is never more
\* (parser.cpp:52-59).
THEOREM GapsCounted == Spec => []GapsExact
<1>1. Init => GapInv
    BY OrderInit DEF Init, GapInv, GapsExact
<1>2. GapInv /\ [Next]_vars => GapInv'
    BY GapStep
<1>3. GapInv => GapsExact
    BY DEF GapInv
<1>4. QED
    BY <1>1, <1>2, <1>3, PTL DEF Spec

-----------------------------------------------------------------------------
(* Nothing lost on a stream of whole messages.                             *)

\* Where the next message to hand over starts.
NextStart ==
    IF Len(dispatched) < Len(msgs) THEN msgs[Len(dispatched) + 1].start
                                   ELSE SentBytes

\* Messages are whole and follow one another without a hole.
WholeInv ==
    \A k \in 1 .. Len(msgs) :
        /\ Whole(msgs[k])
        /\ k < Len(msgs) => msgs[k + 1].start = End(k)
        /\ k = Len(msgs) => SentBytes = End(k)

\* The buffer is a window of the stream that ends with the last byte received,
\* and the parser stands at the start of a message.
WindowInv ==
    /\ Len(buf) <= recvd /\ recvd <= SentBytes
    /\ \A i \in 1 .. Len(buf) : buf[i] = (recvd - Len(buf)) + i
    /\ Len(dispatched) <= Len(msgs)
    /\ (recvd - Len(buf)) + offset = NextStart
    /\ \A j \in 1 .. Len(dispatched) : dispatched[j] = j

ExactInv == ResidualInv /\ OrderInv /\ WholeInv /\ WindowInv /\ PromptDispatch

\* A message with bytes ends after its start.
LEMMA EndPastStart ==
    ASSUME NEW j, msgs[j].start \in Nat, msgs[j].len \in Nat, msgs[j].len >= 1
    PROVE  End(j) \in Nat /\ End(j) > msgs[j].start
    BY DEF End

\* With a header's worth of bytes left, the parser reads the header of the next
\* message and of no other.
LEMMA AtNext ==
    ASSUME ExactInv, Len(buf) - offset >= HeaderSize
    PROVE  LET n == Len(dispatched) + 1
           IN  /\ n \in 1 .. Len(msgs)
               /\ \A z \in 1 .. msg_total_size(msgs[n].type) :
                     Len(buf) - offset >= z => Holds(n, z)
               /\ \A k \in 1 .. Len(msgs), z \in Nat \ {0} : Holds(k, z) => k = n
               /\ HeaderTypes = {msgs[n].type}
<1> DEFINE n == Len(dispatched) + 1
<1>1. TypeOK /\ MsgsInv /\ WholeInv /\ WindowInv
    BY DEF ExactInv, OrderInv
<1>2. /\ Len(buf) \in Nat /\ offset \in Nat /\ recvd \in Nat /\ SentBytes \in Nat
      /\ Len(dispatched) \in Nat /\ Len(msgs) \in Nat /\ offset <= Len(buf)
    BY <1>1, SentType DEF TypeOK
<1>3. n \in 1 .. Len(msgs)
  <2>1. NextStart + HeaderSize <= SentBytes
      BY <1>1, <1>2, SizeAssumption DEF WindowInv
  <2>2. ~(Len(dispatched) >= Len(msgs))
      BY <1>2, <2>1, SizeAssumption DEF NextStart
  <2>3. QED
      BY <1>2, <2>2
<1>4. /\ msgs[n].type \in MsgType /\ msgs[n].start \in Nat
      /\ msgs[n].len = msg_total_size(msgs[n].type)
      /\ msg_total_size(msgs[n].type) \in Nat
      /\ msg_total_size(msgs[n].type) > HeaderSize
    BY <1>1, <1>3, MessageType, Sizes DEF WholeInv, Whole
<1>5. msgs[n].start = (recvd - Len(buf)) + offset
    BY <1>1, <1>2, <1>3 DEF WindowInv, NextStart
<1>6. ASSUME NEW i \in Nat \ {0}, Len(buf) - offset >= i
      PROVE  buf[offset + i] = msgs[n].start + i
  <2>1. offset + i \in 1 .. Len(buf)
      BY <1>2, <1>6
  <2>2. buf[offset + i] = (recvd - Len(buf)) + (offset + i)
    <3>1. \A j \in 1 .. Len(buf) : buf[j] = (recvd - Len(buf)) + j
        BY <1>1 DEF WindowInv
    <3>2. QED
        BY <2>1, <3>1
  <2>3. QED
      BY <1>2, <1>5, <2>2
<1> HIDE DEF n
<1>7. ASSUME NEW z \in 1 .. msg_total_size(msgs[n].type), Len(buf) - offset >= z
      PROVE  Holds(n, z)
    BY <1>2, <1>4, <1>6, <1>7 DEF Holds
<1>8. ASSUME NEW k \in 1 .. Len(msgs), NEW z \in Nat \ {0}, Holds(k, z)
      PROVE  k = n
  <2>1. buf[offset + 1] = msgs[k].start + 1
      BY <1>8 DEF Holds
  <2>2. buf[offset + 1] = msgs[n].start + 1
      BY <1>2, <1>6, SizeAssumption
  <2>3. msgs[k].start \in Nat /\ msgs[k].len \in Nat /\ msgs[n].len \in Nat
      BY <1>1, <1>3, MessageType
  <2>4. msgs[k].start = msgs[n].start
    <3>1. \A x, y \in Nat : x + 1 = y + 1 => x = y
        OBVIOUS
    <3>2. msgs[k].start + 1 = msgs[n].start + 1
        BY <2>1, <2>2, Zenon
    <3>3. QED
        BY <1>4, <2>3, <3>1, <3>2
  <2>5. /\ msgs[k].len >= 1 /\ msgs[n].len >= 1
        /\ k < n => End(k) <= msgs[n].start
        /\ n < k => End(n) <= msgs[k].start
      BY <1>1, <1>3 DEF MsgsInv
  <2>6. ~(k < n) /\ ~(n < k)
    <3>1. End(k) > msgs[k].start /\ End(n) > msgs[n].start
        BY <1>4, <2>3, <2>5, EndPastStart
    <3>2. End(k) \in Nat /\ End(n) \in Nat
        BY <1>4, <2>3, <2>5, EndPastStart
    <3>3. ASSUME k < n PROVE FALSE
      <4>1. End(k) <= msgs[k].start
          BY <2>4, <2>5, <3>3, Zenon
      <4>2. QED
          BY <2>3, <3>1, <3>2, <4>1
    <3>4. ASSUME n < k PROVE FALSE
      <4>1. End(n) <= msgs[n].start
          BY <2>4, <2>5, <3>4, Zenon
      <4>2. QED
          BY <1>4, <3>1, <3>2, <4>1
    <3>5. QED
        BY <3>3, <3>4
  <2>7. QED
      BY <1>2, <1>3, <2>6
<1>9. HeaderTypes = {msgs[n].type}
  <2>1. Holds(n, HeaderSize)
      BY <1>4, <1>7, SizeAssumption
  <2>2. {k \in 1 .. Len(msgs) : Holds(k, HeaderSize)} = {n}
      BY <1>3, <1>8, <2>1, SizeAssumption
  <2>3. QED
      BY <2>2 DEF HeaderTypes
<1>10. QED
    BY <1>3, <1>7, <1>8, <1>9 DEF n

\* So on such a stream no byte is skipped and no checksum fails ...
LEMMA NeverMisframed ==
    ASSUME ExactInv
    PROVE  ~SkipByte /\ \A t \in MsgType : ~BadChecksum(t)
<1>1. SUFFICES ASSUME Scanning PROVE "unknown" \notin HeaderTypes /\
                 \A t \in HeaderTypes :
                    Len(buf) - offset >= msg_total_size(t) => Intact(t)
    BY DEF SkipByte, BadChecksum
<1> DEFINE n == Len(dispatched) + 1
<1>2. /\ n \in 1 .. Len(msgs)
      /\ \A z \in 1 .. msg_total_size(msgs[n].type) :
            Len(buf) - offset >= z => Holds(n, z)
      /\ HeaderTypes = {msgs[n].type}
    BY <1>1, AtNext DEF Scanning
<1>3. msgs[n].type \in MsgType /\ Whole(msgs[n])
    BY <1>2, MessageType DEF ExactInv, OrderInv, WholeInv
<1>4. msg_total_size(msgs[n].type) \in 1 .. msg_total_size(msgs[n].type)
    BY <1>3, Sizes, SizeAssumption
<1> HIDE DEF n
<1>5. QED
    BY <1>2, <1>3, <1>4 DEF Intact, MsgType

\* ... and what is handed over is the next message.
LEMMA DispatchNext ==
    ASSUME ExactInv, NEW k \in 1 .. Len(msgs), Dispatch(k)
    PROVE  k = Len(dispatched) + 1
<1>1. msg_total_size(msgs[k].type) \in Nat \ {0}
    BY MessageType, Sizes, SizeAssumption DEF ExactInv, OrderInv
<1>2. QED
    BY <1>1, AtNext DEF Dispatch, Scanning

\* A whole message added to the stream keeps the window.
LEMMA ExactSend ==
    ASSUME ~Truncation, ExactInv, NEW t \in MsgType, NEW skip \in 0 .. MaxSkip,
           NEW len \in 1 .. msg_total_size(t), Send(t, skip, len)
    PROVE  WholeInv' /\ WindowInv' /\ PromptDispatch'
<1>1. TypeOK /\ WholeInv /\ WindowInv /\ PromptDispatch
    BY DEF ExactInv, OrderInv
<1>2. /\ Len(msgs') = Len(msgs) + 1
      /\ \A k \in 1 .. Len(msgs) : msgs'[k] = msgs[k]
      /\ msgs'[Len(msgs) + 1] = [type |-> t, num |-> num + skip,
                                 start |-> SentBytes, len |-> len]
      /\ SentBytes' = SentBytes + len
      /\ len \in Nat \ {0}
    BY <1>1, SendMessages
<1>3. /\ Len(msgs) \in Nat /\ SentBytes \in Nat /\ Len(dispatched) \in Nat
      /\ recvd \in Nat /\ Len(buf) \in Nat
    BY <1>1, SentType DEF TypeOK
<1>4. /\ len = msg_total_size(t)
      /\ UNCHANGED <<recvd, buf, pc, offset, dispatched>>
    BY DEF Send
<1>5. /\ msgs'[Len(msgs) + 1].start = SentBytes
      /\ msgs'[Len(msgs) + 1].len = len
      /\ Whole(msgs'[Len(msgs) + 1])
    BY <1>2, <1>4 DEF Whole
<1>6. WholeInv'
  <2> SUFFICES ASSUME NEW k \in 1 .. Len(msgs')
               PROVE  /\ Whole(msgs'[k])
                      /\ k < Len(msgs') => msgs'[k + 1].start = msgs'[k].start + msgs'[k].len
                      /\ k = Len(msgs') => SentBytes' = msgs'[k].start + msgs'[k].len
      BY DEF WholeInv, End, Whole
  <2>1. CASE k = Len(msgs) + 1
      BY <1>2, <1>3, <1>5, <2>1
  <2>2. CASE k = Len(msgs)
    <3>1. Whole(msgs[k]) /\ SentBytes = msgs[k].start + msgs[k].len
        BY <1>1, <1>2, <1>3, <2>2 DEF WholeInv, End
    <3>2. QED
        BY <1>2, <1>3, <1>5, <2>2, <3>1
  <2>3. CASE k < Len(msgs)
    <3>1. k \in 1 .. Len(msgs) /\ k + 1 \in 1 .. Len(msgs)
        BY <1>2, <1>3, <2>3
    <3>2. Whole(msgs[k]) /\ msgs[k + 1].start = msgs[k].start + msgs[k].len
        BY <1>1, <2>3, <3>1 DEF WholeInv, End
    <3>3. QED
        BY <1>2, <1>3, <2>3, <3>1, <3>2
  <2>4. QED
      BY <1>2, <1>3, <2>1, <2>2, <2>3
<1>7. NextStart' = NextStart
  <2>1. CASE Len(dispatched) < Len(msgs)
    <3>1. Len(dispatched) + 1 \in 1 .. Len(msgs)
        BY <1>3, <2>1
    <3>2. QED
        BY <1>2, <1>3, <1>4, <2>1, <3>1 DEF NextStart
  <2>2. CASE Len(dispatched) = Len(msgs)
      BY <1>2, <1>3, <1>4, <1>5, <2>2 DEF NextStart
  <2>3. QED
      BY <1>1, <1>3, <2>1, <2>2 DEF WindowInv
<1>8. WindowInv'
    BY <1>1, <1>2, <1>3, <1>4, <1>7 DEF WindowInv
<1>9. PromptDispatch'
  <2>1. CASE Len(dispatched) < Len(msgs)
    <3>1. Len(dispatched) + 1 \in 1 .. Len(msgs)
        BY <1>3, <2>1
    <3>2. QED
        BY <1>1, <1>2, <1>4, <2>1, <3>1 DEF PromptDispatch
  <2>2. CASE Len(dispatched) = Len(msgs)
    <3>1. SentBytes + len > recvd
        BY <1>1, <1>2, <1>3 DEF WindowInv
    <3>2. QED
        BY <1>4, <1>5, <2>2, <3>1 DEF PromptDispatch
  <2>3. QED
      BY <1>1, <1>3, <2>1, <2>2 DEF WindowInv
<1>10. QED
    BY <1>6, <1>8, <1>9

\* On a stream without loss a piece extends the window (parser.cpp:27-30).
LEMMA ExactFeed ==
    ASSUME RecvBufSize + QuoteSize <= ParseBufSize + 1, ExactInv,
           NEW n \in 1 .. RecvBufSize, feed(n)
    PROVE  WindowInv' /\ PromptDispatch'
<1>1. TypeOK /\ WindowInv /\ ResidualInv
    BY DEF ExactInv, OrderInv
<1>2. /\ pc = "idle" /\ pc' = "scan" /\ offset = 0 /\ offset' = 0
      /\ n <= SentBytes - recvd /\ recvd' = recvd + n
      /\ msgs' = msgs /\ dispatched' = dispatched /\ SentBytes' = SentBytes
    BY <1>1 DEF feed, TypeOK, SentBytes
<1>3. /\ Len(buf) \in Nat /\ recvd \in Nat /\ SentBytes \in Nat /\ n \in Nat
      /\ Len(buf) < QuoteSize
    BY <1>1, <1>2, SentType, BufferAssumption DEF TypeOK, ResidualInv
<1>4. ~(n > ParseBufSize - Len(buf))
    BY <1>3, BufferAssumption, SizeAssumption
<1>5. /\ Len(buf') = Len(buf) + n
      /\ \A i \in 1 .. Len(buf) : buf'[i] = buf[i]
      /\ \A i \in 1 .. n : buf'[Len(buf) + i] = recvd + i
    BY <1>1, <1>4, FeedBuffer
<1>6. recvd' - Len(buf') = recvd - Len(buf)
    BY <1>2, <1>3, <1>5
<1>7. ASSUME NEW i \in 1 .. Len(buf') PROVE buf'[i] = (recvd' - Len(buf')) + i
  <2>1. CASE i \in 1 .. Len(buf)
      BY <1>1, <1>5, <1>6, <2>1 DEF WindowInv
  <2>2. CASE ~(i \in 1 .. Len(buf))
    <3>1. i - Len(buf) \in 1 .. n /\ i = Len(buf) + (i - Len(buf))
        BY <1>3, <1>5, <2>2
    <3>2. buf'[i] = recvd + (i - Len(buf))
        BY <1>5, <3>1
    <3>3. QED
        BY <1>3, <1>6, <3>1, <3>2
  <2>3. QED
      BY <2>1, <2>2
<1>8. NextStart' = NextStart
    BY <1>2 DEF NextStart
<1>9. Len(buf') <= recvd' /\ recvd' <= SentBytes'
    BY <1>1, <1>2, <1>3, <1>5 DEF WindowInv
<1>10. (recvd' - Len(buf')) + offset' = NextStart'
    BY <1>1, <1>2, <1>6, <1>8 DEF WindowInv
<1>11. QED
    BY <1>1, <1>2, <1>7, <1>9, <1>10 DEF WindowInv, PromptDispatch

\* Handing over a message moves the parser to the next one (parser.cpp:73).
LEMMA ExactDispatch ==
    ASSUME ExactInv, NEW k \in 1 .. Len(msgs), Dispatch(k)
    PROVE  WindowInv' /\ PromptDispatch'
<1>1. TypeOK /\ WindowInv /\ WholeInv
    BY DEF ExactInv, OrderInv
<1>2. k = Len(dispatched) + 1
    BY DispatchNext
<1>3. /\ UNCHANGED <<msgs, recvd, buf, pc>> /\ pc = "scan"
      /\ dispatched' = Append(dispatched, k)
      /\ offset' = offset + msgs[k].len
      /\ SentBytes' = SentBytes
    BY DEF Dispatch, Scanning, Whole, SentBytes
<1>4. /\ Len(dispatched) \in Nat /\ dispatched \in Seq(Nat) /\ Len(msgs) \in Nat
      /\ offset \in Nat /\ Len(buf) \in Nat /\ recvd \in Nat
      /\ msgs[k].len \in Nat /\ msgs[k].start \in Nat
  <2>1. msgs[k].len \in Nat /\ msgs[k].start \in Nat
      BY <1>1, MessageType
  <2>2. QED
      BY <1>1, <2>1 DEF TypeOK
<1>5. /\ Len(dispatched') = Len(dispatched) + 1
      /\ \A j \in 1 .. Len(dispatched) : dispatched'[j] = dispatched[j]
      /\ dispatched'[Len(dispatched) + 1] = k
    BY <1>3, <1>4
<1>6. NextStart' = End(k)
  <2>1. CASE k < Len(msgs)
      BY <1>1, <1>2, <1>3, <1>4, <1>5, <2>1 DEF NextStart, WholeInv
  <2>2. CASE k = Len(msgs)
      BY <1>1, <1>2, <1>3, <1>4, <1>5, <2>2 DEF NextStart, WholeInv
  <2>3. QED
      BY <1>4, <2>1, <2>2
<1>7. NextStart = msgs[k].start
    BY <1>2, <1>4 DEF NextStart
<1>8. (recvd' - Len(buf')) + offset' = NextStart'
  <2>1. (recvd - Len(buf)) + offset = msgs[k].start
      BY <1>1, <1>7 DEF WindowInv
  <2>2. NextStart' = msgs[k].start + msgs[k].len
      BY <1>6 DEF End
  <2> DEFINE from == msgs[k].start
             len == msgs[k].len
  <2>3. offset' = offset + len /\ recvd' = recvd /\ buf' = buf
      BY <1>1, <1>3, <1>4
  <2>4. from \in Nat /\ len \in Nat
      BY <1>1, <1>4
  <2>5. (recvd - Len(buf)) + offset = from /\ NextStart' = from + len
      BY <2>1, <2>2
  <2> HIDE DEF from, len
  <2>6. QED
      BY <1>4, <2>3, <2>4, <2>5
<1>9. ASSUME NEW j \in 1 .. Len(dispatched') PROVE dispatched'[j] = j
  <2>1. CASE j \in 1 .. Len(dispatched)
      BY <1>1, <1>5, <2>1 DEF WindowInv
  <2>2. CASE j = Len(dispatched) + 1
      BY <1>2, <1>5, <2>2
  <2>3. QED
      BY <1>4, <1>5, <2>1, <2>2
<1>10. Len(dispatched') <= Len(msgs')
    BY <1>2, <1>3, <1>4, <1>5
<1>11. QED
    BY <1>1, <1>3, <1>8, <1>9, <1>10 DEF WindowInv, PromptDispatch

\* feed ends only when the next message is incomplete (parser.cpp:33, 41, 76-80).
LEMMA ExactFinish ==
    ASSUME ExactInv, FinishFeed
    PROVE  WindowInv' /\ PromptDispatch'
<1>1. TypeOK /\ WindowInv /\ WholeInv
    BY DEF ExactInv, OrderInv
<1>2. /\ UNCHANGED <<msgs, recvd, dispatched>>
      /\ offset' = 0 /\ SentBytes' = SentBytes /\ NextStart' = NextStart
    BY DEF FinishFeed, SentBytes, NextStart
<1>3. /\ Len(buf) \in Nat /\ offset \in 0 .. Len(buf) /\ recvd \in Nat
      /\ Len(dispatched) \in Nat /\ Len(msgs) \in Nat
    BY <1>1 DEF TypeOK
<1>4. /\ Len(buf') = Len(buf) - offset
      /\ \A i \in 1 .. Len(buf') : buf'[i] = buf[offset + i]
    BY <1>1, FinishBuffer
<1>5. recvd' - Len(buf') = (recvd - Len(buf)) + offset
    BY <1>2, <1>3, <1>4
<1>6. ASSUME NEW i \in 1 .. Len(buf') PROVE buf'[i] = (recvd' - Len(buf')) + i
  <2>1. offset + i \in 1 .. Len(buf)
      BY <1>3, <1>4
  <2>2. buf[offset + i] = (recvd - Len(buf)) + (offset + i)
      BY <1>1, <2>1 DEF WindowInv
  <2>3. QED
      BY <1>3, <1>4, <1>5, <2>2
<1>7. Len(buf') <= recvd' /\ (recvd' - Len(buf')) + offset' = NextStart'
  <2>1. (recvd - Len(buf)) + offset = NextStart /\ Len(buf) <= recvd
      BY <1>1 DEF WindowInv
  <2>2. QED
      BY <1>2, <1>3, <1>4, <1>5, <2>1
<1>8. WindowInv'
    BY <1>1, <1>2, <1>6, <1>7 DEF WindowInv
<1>9. PromptDispatch'
  <2> SUFFICES ASSUME Len(dispatched) < Len(msgs)
               PROVE  msgs[Len(dispatched) + 1].start + msgs[Len(dispatched) + 1].len > recvd
      BY <1>2 DEF PromptDispatch
  <2> DEFINE n == Len(dispatched) + 1
  <2>1. n \in 1 .. Len(msgs)
      BY <1>3
  <2>2. /\ msgs[n].type \in MsgType /\ msgs[n].len \in Nat /\ msgs[n].start \in Nat
        /\ msgs[n].len = msg_total_size(msgs[n].type)
        /\ msgs[n].len > HeaderSize
      BY <1>1, <2>1, MessageType, Sizes DEF WholeInv, Whole
  <2>3. msgs[n].start = (recvd - Len(buf)) + offset
      BY <1>1, <1>3 DEF WindowInv, NextStart
  <2> HIDE DEF n
  <2>4. Len(buf) - offset < msgs[n].len
    <3>1. CASE Len(buf) - offset < HeaderSize
        BY <1>3, <2>2, <3>1, SizeAssumption
    <3>2. CASE Len(buf) - offset >= HeaderSize
      <4>1. HeaderTypes = {msgs[n].type}
          BY <3>2, AtNext DEF n
      <4>2. QED
          BY <1>3, <2>2, <3>2, <4>1, SizeAssumption DEF FinishFeed
    <3>3. QED
        BY <1>3, <3>1, <3>2, SizeAssumption
  <2>5. msgs[n].start + msgs[n].len > recvd
      BY <1>3, <2>2, <2>3, <2>4
  <2>6. QED
      BY <2>5 DEF n
<1>10. QED
    BY <1>8, <1>9

\* Without truncation every step keeps the window and is a step of the exact
\* channel.
LEMMA ExactStep ==
    ASSUME ~Truncation, RecvBufSize + QuoteSize <= ParseBufSize + 1
    PROVE  ExactInv /\ [Next]_vars => ExactInv' /\ [Channel!ExactNext]_(Channel!vars)
<1> SUFFICES ASSUME ExactInv, [Next]_vars
             PROVE  /\ WholeInv' /\ WindowInv' /\ PromptDispatch'
                    /\ Channel!ExactNext \/ UNCHANGED Channel!vars
    BY ResidualStep, OrderStep DEF ExactInv
<1>1. TypeOK /\ OrderInv /\ WholeInv /\ WindowInv /\ PromptDispatch
    BY DEF ExactInv, OrderInv
<1>2. ASSUME UNCHANGED msgs PROVE WholeInv'
    BY <1>1, <1>2 DEF WholeInv, End, SentBytes
<1>3. ASSUME NEW t \in MsgType, NEW skip \in 0 .. MaxSkip,
             NEW len \in 1 .. msg_total_size(t), Send(t, skip, len)
      PROVE  WholeInv' /\ WindowInv' /\ PromptDispatch' /\ Channel!Send
  <2>1. Channel!Send
      BY <1>1, <1>3, ChannelSend
  <2>2. QED
      BY <1>3, <2>1, ExactSend
<1>4. ASSUME NEW n \in 1 .. RecvBufSize, feed(n)
      PROVE  /\ WholeInv' /\ WindowInv' /\ PromptDispatch' /\ UNCHANGED Channel!vars
  <2>1. UNCHANGED msgs /\ UNCHANGED Channel!vars
      BY <1>4 DEF feed, Channel!vars
  <2>2. QED
      BY <1>2, <1>4, <2>1, ExactFeed
<1>5. ASSUME NEW k \in 1 .. Len(msgs), Dispatch(k)
      PROVE  WholeInv' /\ WindowInv' /\ PromptDispatch' /\ Channel!ExactNext
  <2>1. WindowInv' /\ PromptDispatch'
      BY <1>5, ExactDispatch
  <2>2. WholeInv'
      BY <1>2, <1>5 DEF Dispatch
  <2>3. k = Len(dispatched) + 1
      BY <1>5, DispatchNext
  <2>4. Len(dispatched) < Len(msgs)
      BY <1>1, <2>3 DEF TypeOK
  <2>5. Channel!Deliver(k)
      BY <1>5 DEF Dispatch, Channel!Deliver
  <2>6. QED
      BY <2>1, <2>2, <2>3, <2>4, <2>5 DEF Channel!ExactNext
<1>6. ASSUME FinishFeed
      PROVE  /\ WholeInv' /\ WindowInv' /\ PromptDispatch' /\ UNCHANGED Channel!vars
  <2>1. UNCHANGED msgs /\ UNCHANGED Channel!vars
      BY <1>6 DEF FinishFeed, Channel!vars
  <2>2. QED
      BY <1>2, <1>6, <2>1, ExactFinish
<1>7. ASSUME reset
      PROVE  WholeInv' /\ WindowInv' /\ PromptDispatch' /\ Channel!Reset
  <2>1. offset = 0
      BY <1>1, <1>7 DEF reset, TypeOK
  <2>2. /\ Len(msgs') = 0 /\ Len(buf') = 0 /\ Len(dispatched') = 0
        /\ recvd' = 0 /\ offset' = 0 /\ SentBytes' = 0
      BY <1>7, <2>1 DEF reset, SentBytes
  <2>3. NextStart' = 0
      BY <2>2 DEF NextStart
  <2>4. WholeInv' /\ PromptDispatch'
      BY <2>2 DEF WholeInv, PromptDispatch
  <2>5. WindowInv'
      BY <2>2, <2>3 DEF WindowInv
  <2>6. QED
      BY <1>7, <2>4, <2>5 DEF reset, Channel!Reset
<1>8. ASSUME UNCHANGED vars
      PROVE  /\ WholeInv' /\ WindowInv' /\ PromptDispatch' /\ UNCHANGED Channel!vars
    BY <1>1, <1>2, <1>8
       DEF vars, WindowInv, PromptDispatch, NextStart, SentBytes, Channel!vars
<1>9. QED
    BY <1>3, <1>4, <1>5, <1>6, <1>7, <1>8, NeverMisframed
       DEF Next, ServerSends, Receive, Scan, Channel!ExactNext

\* A new connection starts with an empty window.
LEMMA ExactInit == Init => ExactInv
<1> SUFFICES ASSUME Init PROVE ExactInv
    OBVIOUS
<1>1. /\ Len(msgs) = 0 /\ Len(buf) = 0 /\ Len(dispatched) = 0
      /\ recvd = 0 /\ offset = 0 /\ SentBytes = 0
    BY DEF Init, SentBytes
<1>2. NextStart = 0
    BY <1>1 DEF NextStart
<1>3. WholeInv /\ PromptDispatch
    BY <1>1 DEF WholeInv, PromptDispatch
<1>4. WindowInv
    BY <1>1, <1>2 DEF WindowInv
<1>5. QED
    BY <1>3, <1>4, ResidualInit, OrderInit DEF ExactInv

\* On a stream of whole messages, with buffers of the sizes in the code, the
\* parser implements a channel that loses nothing: every message is handed
\* over exactly once and in order, however the stream is fragmented.
THEOREM ParserIsExactChannel ==
    ASSUME ~Truncation, RecvBufSize + QuoteSize <= ParseBufSize + 1
    PROVE  Spec => ExactChannel
<1>1. Init => Channel!Init
    BY DEF Init, Channel!Init
<1>2. ExactInv /\ [Next]_vars => ExactInv' /\ [Channel!ExactNext]_(Channel!vars)
    BY ExactStep
<1>3. QED
    BY <1>1, <1>2, ExactInit, PTL DEF Spec, ExactChannel, Channel!Exact

\* And between two calls of feed no complete message is left in the buffer.
THEOREM DispatchIsPrompt ==
    ASSUME ~Truncation, RecvBufSize + QuoteSize <= ParseBufSize + 1
    PROVE  Spec => []PromptDispatch
<1>1. ExactInv /\ [Next]_vars => ExactInv'
    BY ExactStep
<1>2. ExactInv => PromptDispatch
    BY DEF ExactInv
<1>3. QED
    BY <1>1, <1>2, ExactInit, PTL DEF Spec

=============================================================================
