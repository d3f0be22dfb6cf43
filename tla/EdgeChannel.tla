---------------------------- MODULE EdgeChannel ----------------------------
(* What an IR link promises to the two cores: on each connection, the core of *)
(* the receiver gets the edges that the link took from the sender, in order,  *)
(* each one time.  A connection can end before the last edges arrive.         *)
EXTENDS Naturals, Sequences

CONSTANTS Session, Node, Peer(_)

VARIABLES
    sent,   \* the edges the link of a node took, for each connection
    rcvd    \* the edges the link of a node gave to its core

Empty == [s \in Session |-> [n \in Node |-> <<>>]]

Init == sent = Empty /\ rcvd = Empty

\* A node gives a group of edges to its link.
Send(s, n) ==
    \E es \in {SubSeq(sent'[s][n], Len(sent[s][n]) + 1, Len(sent'[s][n]))} :
        sent' = [sent EXCEPT ![s][n] = @ \o es]

\* The next edge arrives at n.
Deliver(s, n) ==
    LET arrived == Len(rcvd[s][n]) IN
    /\ arrived < Len(sent[s][Peer(n)])
    /\ rcvd' = [rcvd EXCEPT ![s][n] = Append(@, sent[s][Peer(n)][arrived + 1])]

Next == \E s \in Session, n \in Node :
            \/ Send(s, n) /\ UNCHANGED rcvd
            \/ Deliver(s, n) /\ UNCHANGED sent

Spec == Init /\ [][Next]_<<sent, rcvd>>
=============================================================================
