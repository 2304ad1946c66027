--------------------------- MODULE MessageChannel ---------------------------
(***************************************************************************)
(* What the client's Parser promises to the callbacks of feed_handler.cpp, *)
(* without bytes, buffers or fragments: the messages of one connection are *)
(* handed over one by one, each at most once and in the order in which the *)
(* server sent them.  A connection that breaks takes everything with it.   *)
(***************************************************************************)
EXTENDS Naturals, Sequences

CONSTANTS
    Message,     \* what the server may send
    Whole(_)     \* whether all of a message reached the connection

VARIABLES
    sent,        \* messages of this connection, in the order sent
    got          \* the indices in sent of the messages handed over

vars == <<sent, got>>

Last(s) == IF s = <<>> THEN 0 ELSE s[Len(s)]

Init == sent = <<>> /\ got = <<>>

\* A message is added at the end.
Send ==
    /\ Len(sent') = Len(sent) + 1
    /\ sent'[Len(sent')] \in Message
    /\ sent' = Append(sent, sent'[Len(sent')])
    /\ UNCHANGED got

Deliver(k) ==
    /\ Whole(sent[k])
    /\ got' = Append(got, k)
    /\ UNCHANGED sent

Reset == sent' = <<>> /\ got' = <<>>

-----------------------------------------------------------------------------

\* A channel that loses nothing: the next message is the next one sent.
ExactNext ==
    \/ Send
    \/ Len(got) < Len(sent) /\ Deliver(Len(got) + 1)
    \/ Reset

Exact == Init /\ [][ExactNext]_vars

\* A channel that may lose messages, but neither repeats nor reorders them.
LossyNext ==
    \/ Send
    \/ \E k \in Last(got) + 1 .. Len(sent) : Deliver(k)
    \/ Reset

Lossy == Init /\ [][LossyNext]_vars

=============================================================================
