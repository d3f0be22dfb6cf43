---------------------------- MODULE MessageStream ----------------------------
(* What a transport and the framing of ir_link.c promise for one direction of *)
(* a link: the messages of the write queue arrive whole, in order, each at    *)
(* most one time, and a PING with the stamp of the moment at which the        *)
(* transport took its first byte.  The end of a connection loses messages     *)
(* from the end of the stream on, and a new connection brings none of them    *)
(* back.                                                                      *)
EXTENDS Naturals, Sequences

VARIABLES
    waiting,   \* messages in the write queue
    stream,    \* messages that are on their way, the first one to arrive first
    handled,   \* the message that the receiver handled last
    pingSent   \* the send time of the last PING, as the sender remembers it

None == [kind |-> "none", value |-> 0]

Init == waiting = <<>> /\ stream = <<>> /\ handled = None /\ pingSent = 0

\* A PING in the queue has no stamp yet.
Enqueue ==
    /\ Len(waiting') = Len(waiting) + 1
    /\ SubSeq(waiting', 1, Len(waiting)) = waiting
    /\ UNCHANGED <<stream, handled>>

\* Edges go as a run.  A PING goes alone, and takes its stamp.
Send ==
    \E n \in 1..Len(waiting) :
        LET run == SubSeq(waiting, 1, n) IN
        /\ waiting' = SubSeq(waiting, n + 1, Len(waiting))
        /\ \/ /\ \A i \in 1..n : run[i].kind = "edge"
              /\ stream' = stream \o run
              /\ UNCHANGED pingSent
           \/ /\ n = 1 /\ run[1].kind = "ping"
              /\ stream' = Append(stream, [kind |-> "ping", value |-> pingSent'])
        /\ UNCHANGED <<handled>>

Receive ==
    /\ stream # <<>>
    /\ handled' = Head(stream) /\ stream' = Tail(stream)
    /\ UNCHANGED <<waiting, pingSent>>

\* The connection ends, or an end of it is closed or opened again.
Lose ==
    /\ \E n \in 0..Len(stream) : stream' = SubSeq(stream, 1, n)
    /\ waiting' \in {waiting, <<>>}
    /\ UNCHANGED <<handled, pingSent>>

\* The sender notes the time of a PING that it cannot send yet.
Time == UNCHANGED <<waiting, stream, handled>>

Next == Enqueue \/ Send \/ Receive \/ Lose \/ Time

Spec == Init /\ [][Next]_<<waiting, stream, handled, pingSent>>
=============================================================================
