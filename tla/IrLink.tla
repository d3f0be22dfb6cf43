------------------------------- MODULE IrLink -------------------------------
(* ir_link.c on two instances, over the TCP transport of ir_transport_tcp.c.  *)
(* An instance pumps its link one time for each frame: it polls the           *)
(* transport, reads each message that arrived, moves the edges of its core    *)
(* into the write queue, and writes until the transport takes no more.  The   *)
(* pump is cut at its calls into the transport.                               *)
(*                                                                            *)
(* Clock values are left out (IrLinkClock has them): a PING has a number in   *)
(* place of a send time, and a clock that runs out or a sample that has no    *)
(* meaning is a choice.  The stream is cut at its messages.                   *)
EXTENDS Naturals, Sequences, FiniteSets

CONSTANTS
    Node,          \* the two instances
    Builds,        \* the builds that can meet: IR_WIRE_VERSION of each instance
    Capacity,      \* IR_LINK_WRITE_QUEUE_CAPACITY
    CoreCapacity,  \* IR_EDGE_QUEUE_CAPACITY of the core
    WireCapacity,  \* bound: messages that the network holds in a direction
    MaxSessions,   \* bound: connections
    MaxEdges,      \* bound: edges that the app of each instance makes
    MaxPings,      \* bound: PING messages of an instance on a connection
    Faults         \* the faults that can occur

ASSUME ConstantsAssumption ==
    /\ \E m, n \in Node : m # n /\ Node = {m, n}
    /\ \A v \in Builds : DOMAIN v = Node
    /\ {Capacity, CoreCapacity, WireCapacity, MaxSessions, MaxPings} \subseteq Nat \ {0}
    /\ Capacity >= 2
    /\ MaxEdges \in [Node -> Nat]
    /\ Faults \subseteq {"open", "network", "clock", "timeout"}

Peer(n) == CHOOSE m \in Node : m # n

Session   == 1..MaxSessions
NoSession == 0

\* ir_wire_message_t.  The id of an edge names it, the id of a PING stands for
\* its t0, and the id of a PONG for the PING that it answers.  stamped: the
\* field that poll_write fills (t0 of a PING, t2 of a PONG) has its value.
Message == [kind : {"edge", "hello", "ping", "pong"}, id : Nat, stamped : BOOLEAN]

Msg(kind, id) == [kind |-> kind, id |-> id, stamped |-> FALSE]
Timed == {"ping", "pong"}

NoSample == [ping |-> 0, pong |-> 0]

VARIABLES
    build,     \* IR_WIRE_VERSION of the build of each instance
    pc,        \* where the main loop of each instance is
    link,      \* ir_link_t: state
    tp,        \* ir_transport_t: state
    session,   \* the connection that the socket of an instance belongs to
    backlog,   \* the connection that waits for accept on a listening socket
    opened,    \* the number of connections so far
    broken,    \* connections that the network lost
    wire,      \* for each connection and instance: the messages on the way to it
    core,      \* the TX queue of the core
    made,      \* the number of edges that the app made
    queue,     \* ir_link_t: write_queue
    ping,      \* ir_link_t: ping_outstanding, and the number of the last PING
    sample,    \* the newest clock sample: the PING in progress, the PONG used
    sent,      \* history: the edges that entered the write queue
    rcvd       \* history: the edges that psemu_ir_push_rx_edge got

transport == <<tp, session, backlog, opened, broken>>
vars == <<build, pc, link, transport, wire, core, made, queue, ping, sample, sent, rcvd>>

Init ==
    /\ build \in Builds
    /\ pc = [n \in Node |-> "frame"]
    /\ link = [n \in Node |-> "idle"]
    /\ tp = [n \in Node |-> "idle"]
    /\ session = [n \in Node |-> NoSession]
    /\ backlog = [n \in Node |-> NoSession]
    /\ opened = 0
    /\ broken = {}
    /\ wire = [s \in Session |-> [n \in Node |-> <<>>]]
    /\ core = [n \in Node |-> <<>>]
    /\ made = [n \in Node |-> 0]
    /\ queue = [n \in Node |-> <<>>]
    /\ ping = [n \in Node |-> [outstanding |-> FALSE, id |-> 0]]
    /\ sample = [n \in Node |-> NoSample]
    /\ sent = [s \in Session |-> [n \in Node |-> <<>>]]
    /\ rcvd = [s \in Session |-> [n \in Node |-> <<>>]]

\* The other end of connection s still has its socket.
Attached(n, s) == session[n] = s \/ backlog[n] = s

Lost(n) == session[n] \in broken \/ ~Attached(Peer(n), session[n])

\* link_carries_messages
Carries(n) == link[n] \in {"syncing", "connected"}

Goto(n, step) == pc' = [pc EXCEPT ![n] = step]
Become(n, state) == link' = [link EXCEPT ![n] = state]

\* adopt_transport_error, after the transport recorded the fault.
Fail(n) ==
    /\ tp' = [tp EXCEPT ![n] = "error"]
    /\ Become(n, "error")
    /\ Goto(n, "frame")

\* enqueue_write: a full queue drops the new message.
Enqueue(q, m) == IF Len(q) < Capacity THEN Append(q, m) ELSE q

-----------------------------------------------------------------------------
(* The frame: psemu_run and the menu                                          *)

\* An app drives the LED: the core queues an edge, or drops it at capacity.
Transmit(n) ==
    /\ pc[n] = "frame"
    /\ made[n] < MaxEdges[n]
    /\ made' = [made EXCEPT ![n] = @ + 1]
    /\ core' = [core EXCEPT ![n] =
                  IF Len(@) < CoreCapacity THEN Append(@, made'[n]) ELSE @]
    /\ UNCHANGED <<pc, link, transport, wire, build, queue, ping, sample, sent, rcvd>>

\* ir_link_disconnect, which host and connect call first: it closes the
\* sockets, and the data on the way to this instance is lost.
Close(n, linkState, tpState) ==
    /\ pc[n] = "frame"
    /\ session' = [session EXCEPT ![n] = NoSession]
    /\ backlog' = [backlog EXCEPT ![n] = NoSession]
    /\ wire' = [s \in Session |-> [m \in Node |->
                  IF m = n /\ Attached(n, s) THEN <<>> ELSE wire[s][m]]]
    /\ queue' = [queue EXCEPT ![n] = <<>>]
    /\ link' = [link EXCEPT ![n] = linkState]
    /\ tp' = [tp EXCEPT ![n] = tpState]
    /\ UNCHANGED <<pc, opened, broken, core, build, made, ping, sample, sent, rcvd>>

Disconnect(n) == link[n] # "idle" /\ Close(n, "idle", "idle")

Host(n)    == \/ Close(n, "hosting", "listening")
              \/ "open" \in Faults /\ Close(n, "error", "error")

\* The first connection attempt is left to the next pump.
Connect(n) == \/ Close(n, "connecting", "connecting")
              \/ "open" \in Faults /\ Close(n, "error", "error")

-----------------------------------------------------------------------------
(* ir_transport_poll, and the switch of ir_link_pump on its result            *)

\* on_connected of ir_link.c: HELLO and the first PING enter an empty queue.
OnConnected(n) ==
    /\ Become(n, "syncing")
    /\ queue' = [queue EXCEPT ![n] = <<Msg("hello", 0), Msg("ping", 1)>>]
    /\ ping' = [ping EXCEPT ![n] = [outstanding |-> TRUE, id |-> 1]]
    /\ sample' = [sample EXCEPT ![n] = NoSample]
    /\ tp' = [tp EXCEPT ![n] = "connected"]
    /\ Goto(n, "read")

\* tcp_poll on the host: accept, and the listening socket closes.
Accept(n) ==
    /\ pc[n] = "frame" /\ tp[n] = "listening"
    /\ backlog[n] # NoSession
    /\ session' = [session EXCEPT ![n] = backlog[n]]
    /\ backlog' = [backlog EXCEPT ![n] = NoSession]
    /\ OnConnected(n)
    /\ UNCHANGED <<opened, broken, wire, core, build, made, sent, rcvd>>

AcceptFails(n) ==
    /\ pc[n] = "frame" /\ tp[n] = "listening"
    /\ "network" \in Faults
    /\ Fail(n)
    /\ UNCHANGED <<session, backlog, opened, broken, wire, core, build, made, queue, ping,
                   sample, sent, rcvd>>

\* try_client_connect: the attempt is complete now, or at a later poll.  With
\* no listening host it changes nothing, and the next poll tries again.
Dial(n) ==
    /\ pc[n] = "frame" /\ tp[n] = "connecting"
    /\ session[n] = NoSession
    /\ tp[Peer(n)] = "listening" /\ backlog[Peer(n)] = NoSession
    /\ opened < MaxSessions
    /\ opened' = opened + 1
    /\ session' = [session EXCEPT ![n] = opened']
    /\ backlog' = [backlog EXCEPT ![Peer(n)] = opened']
    /\ \/ OnConnected(n)
       \/ UNCHANGED <<pc, link, tp, queue, ping, sample>>
    /\ UNCHANGED <<broken, wire, core, build, made, sent, rcvd>>

\* poll_client_connect
DialCompletes(n) ==
    /\ pc[n] = "frame" /\ tp[n] = "connecting"
    /\ session[n] # NoSession
    /\ OnConnected(n)
    /\ UNCHANGED <<session, backlog, opened, broken, wire, core, build, made, sent, rcvd>>

DialRefused(n) ==
    /\ pc[n] = "frame" /\ tp[n] = "connecting"
    /\ session[n] # NoSession /\ Lost(n)
    /\ session' = [session EXCEPT ![n] = NoSession]
    /\ UNCHANGED <<pc, link, tp, backlog, opened, broken, wire, core, build, made, queue,
                   ping, sample, sent, rcvd>>

\* A transport that is connected has nothing to poll.
StartPump(n) ==
    /\ pc[n] = "frame" /\ Carries(n)
    /\ Goto(n, "read")
    /\ UNCHANGED <<link, transport, wire, core, build, made, queue, ping, sample, sent, rcvd>>

-----------------------------------------------------------------------------
(* pump_messages                                                              *)

Incoming(n) == wire[session[n]][n]

Take(n) == wire' = [wire EXCEPT ![session[n]][n] = Tail(@)]

\* handle_incoming_message
HandleMismatch(n) ==
    /\ build[n] # build[Peer(n)]
    /\ Become(n, "error")
    /\ Goto(n, "frame")
    /\ UNCHANGED <<queue, ping, sample, rcvd>>

HandleHello(n, m) ==
    /\ m.kind = "hello"
    /\ UNCHANGED <<pc, link, queue, ping, sample, rcvd>>

\* Mutant: answers a PING only when this side has its own sample.
HandlePingWhenConnected(n, m) ==
    /\ m.kind = "ping"
    /\ queue' = [queue EXCEPT ![n] =
                   IF link[n] = "connected" THEN Enqueue(@, Msg("pong", m.id)) ELSE @]
    /\ UNCHANGED <<pc, link, ping, sample, rcvd>>

HandlePing(n, m) ==
    /\ m.kind = "ping"
    /\ queue' = [queue EXCEPT ![n] = Enqueue(@, Msg("pong", m.id))]
    /\ UNCHANGED <<pc, link, ping, sample, rcvd>>

\* A PONG with no PING in progress is a duplicate.
HandleDuplicate(n, m) ==
    /\ m.kind = "pong" /\ ~ping[n].outstanding
    /\ UNCHANGED <<pc, link, queue, ping, sample, rcvd>>

HandleSample(n, m) ==
    /\ m.kind = "pong" /\ ping[n].outstanding
    /\ ping' = [ping EXCEPT ![n].outstanding = FALSE]
    /\ sample' = [sample EXCEPT ![n] = [ping |-> ping[n].id, pong |-> m.id]]
    /\ Become(n, "connected")
    /\ UNCHANGED <<pc, queue, rcvd>>

\* rtt < 0: a clock moved, or the PONG answers an earlier PING than the one
\* that gives t0.
HandleBadSample(n, m) ==
    /\ m.kind = "pong" /\ ping[n].outstanding
    /\ "clock" \in Faults \/ m.id # ping[n].id
    /\ ping' = [ping EXCEPT ![n].outstanding = FALSE]
    /\ UNCHANGED <<pc, link, queue, sample, rcvd>>

\* The state of the link is not tested.
HandleEdge(n, m) ==
    /\ m.kind = "edge"
    /\ rcvd' = [rcvd EXCEPT ![session[n]][n] = Append(@, m.id)]
    /\ UNCHANGED <<pc, link, queue, ping, sample>>

Handle(n, m) ==
    \/ HandleHello(n, m) \/ HandlePing(n, m) \/ HandleDuplicate(n, m)
    \/ HandleSample(n, m) \/ HandleBadSample(n, m) \/ HandleEdge(n, m)

\* poll_read, with a complete message.
PollRead(n) ==
    /\ pc[n] = "read" /\ tp[n] = "connected"
    /\ session[n] \notin broken
    /\ Incoming(n) # <<>>
    /\ Take(n)
    /\ IF build[n] # build[Peer(n)]
       THEN HandleMismatch(n)
       ELSE Handle(n, Head(Incoming(n)))
    /\ UNCHANGED <<transport, core, build, made, sent>>

\* poll_read or poll_write finds that the peer is gone.
PeerDisconnected(n) ==
    /\ pc[n] \in {"read", "write"}
    /\ Lost(n)
    /\ Fail(n)
    /\ UNCHANGED <<session, backlog, opened, broken, wire, core, build, made, queue, ping,
                   sample, sent, rcvd>>

\* Mutant: sends a PING while the answer to the last one is on the way.
PingAtEachPump(n, q) ==
    /\ ping[n].id < MaxPings
    /\ ping' = [ping EXCEPT ![n] = [outstanding |-> TRUE, id |-> @.id + 1]]
    /\ queue' = [queue EXCEPT ![n] = Enqueue(q, Msg("ping", ping'[n].id))]

\* maybe_send_ping, with the write queue after drain_tx_edges.
PingNow(n, q) ==
    /\ ~ping[n].outstanding \/ "timeout" \in Faults
    /\ ping[n].id < MaxPings
    /\ ping' = [ping EXCEPT ![n] = [outstanding |-> TRUE, id |-> @.id + 1]]
    /\ queue' = [queue EXCEPT ![n] = Enqueue(q, Msg("ping", ping'[n].id))]

NoPingNow(n, q) ==
    /\ ping[n].outstanding \/ sample[n] # NoSample \/ ping[n].id = MaxPings
    /\ queue' = [queue EXCEPT ![n] = q]
    /\ UNCHANGED ping

\* Mutant: drains the core before the clocks are synchronized.
EndReadDrains(n) ==
    LET room  == Capacity - Len(queue[n])
        taken == SubSeq(core[n], 1, IF Len(core[n]) < room THEN Len(core[n]) ELSE room)
        q     == queue[n] \o [i \in DOMAIN taken |-> Msg("edge", taken[i])]
    IN
    /\ pc[n] = "read"
    /\ core' = [core EXCEPT ![n] = <<>>]
    /\ sent' = [sent EXCEPT ![session[n]][n] = @ \o taken]
    /\ PingNow(n, q) \/ NoPingNow(n, q)
    /\ Goto(n, "write")
    /\ UNCHANGED <<link, transport, wire, build, made, sample, rcvd>>

\* The transport has no more data for this pump: drain_tx_edges if the link is
\* connected, and maybe_send_ping.
EndRead(n) ==
    LET drained == IF link[n] = "connected" THEN core[n] ELSE <<>>
        room    == Capacity - Len(queue[n])
        taken   == SubSeq(drained, 1, IF Len(drained) < room THEN Len(drained) ELSE room)
        q       == queue[n] \o [i \in DOMAIN taken |-> Msg("edge", taken[i])]
    IN
    /\ pc[n] = "read"
    /\ core' = [core EXCEPT ![n] = IF link[n] = "connected" THEN <<>> ELSE @]
    /\ sent' = [sent EXCEPT ![session[n]][n] = @ \o taken]
    /\ PingNow(n, q) \/ NoPingNow(n, q)
    /\ Goto(n, "write")
    /\ UNCHANGED <<link, transport, wire, build, made, sample, rcvd>>

\* writable_run
Run(q) ==
    IF q # <<>> /\ Head(q).kind \in Timed THEN 1
    ELSE Cardinality({i \in DOMAIN q : \A j \in 1..i : q[j].kind \notin Timed})

\* Mutant: takes the full run from the queue, though the transport accepted
\* only a part of it.
PollWriteDropsRest(n) ==
    LET q == queue[n]
        s == session[n]
    IN
    /\ pc[n] = "write"
    /\ s \notin broken
    /\ \E k \in 1..Run(q) :
        /\ queue' = [queue EXCEPT ![n] = SubSeq(q, Run(q) + 1, Len(q))]
        /\ IF Attached(Peer(n), s)
           THEN /\ Len(wire[s][Peer(n)]) + k <= WireCapacity
                /\ wire' = [wire EXCEPT ![s][Peer(n)] = @ \o SubSeq(q, 1, k)]
           ELSE UNCHANGED wire
    /\ UNCHANGED <<pc, link, transport, core, build, made, ping, sample, sent, rcvd>>

\* Mutant: sends the run again from its start after a write that took a part.
PollWriteAgain(n) ==
    LET q == queue[n]
        s == session[n]
    IN
    /\ pc[n] = "write"
    /\ s \notin broken
    /\ \E k \in 1..Run(q) :
        /\ queue' = [queue EXCEPT ![n] = IF k < Run(q) THEN q ELSE SubSeq(q, k + 1, Len(q))]
        /\ IF Attached(Peer(n), s)
           THEN /\ Len(wire[s][Peer(n)]) + k <= WireCapacity
                /\ wire' = [wire EXCEPT ![s][Peer(n)] = @ \o SubSeq(q, 1, k)]
           ELSE UNCHANGED wire
    /\ UNCHANGED <<pc, link, transport, core, build, made, ping, sample, sent, rcvd>>

\* poll_write: the transport takes k messages of the run.  The head gets its
\* timestamp as it leaves.
PollWrite(n) ==
    LET q == queue[n]
        stampedHead == IF q # <<>> /\ Head(q).kind \in Timed
                       THEN [q EXCEPT ![1].stamped = TRUE] ELSE q
        s == session[n]
    IN
    /\ pc[n] = "write"
    /\ s \notin broken
    /\ \E k \in 1..Run(q) :
        /\ queue' = [queue EXCEPT ![n] = SubSeq(q, k + 1, Len(q))]
        /\ IF Attached(Peer(n), s)
           THEN /\ Len(wire[s][Peer(n)]) + k <= WireCapacity
                /\ wire' = [wire EXCEPT ![s][Peer(n)] = @ \o SubSeq(stampedHead, 1, k)]
           ELSE UNCHANGED wire
    /\ UNCHANGED <<pc, link, transport, core, build, made, ping, sample, sent, rcvd>>

\* The write queue is empty, or the transport takes no more in this pump.
EndPump(n) ==
    /\ pc[n] = "write"
    /\ Goto(n, "frame")
    /\ UNCHANGED <<link, transport, wire, core, build, made, queue, ping, sample, sent, rcvd>>

-----------------------------------------------------------------------------
(* The network loses a connection, with the data on the way.                  *)
Break(s) ==
    /\ "network" \in Faults
    /\ s \in 1..opened /\ s \notin broken
    /\ broken' = broken \cup {s}
    /\ UNCHANGED <<pc, link, tp, session, backlog, opened, wire, core, build, made, queue,
                   ping, sample, sent, rcvd>>

Pump(n) ==
    \/ StartPump(n) \/ PollRead(n) \/ PeerDisconnected(n)
    \/ EndRead(n) \/ PollWrite(n) \/ EndPump(n)

Establish(n) ==
    Accept(n) \/ AcceptFails(n) \/ Dial(n) \/ DialCompletes(n) \/ DialRefused(n)

User(n) == Transmit(n) \/ Disconnect(n) \/ Host(n) \/ Connect(n)

Next ==
    \/ \E n \in Node : User(n) \/ Establish(n) \/ Pump(n)
    \/ \E s \in Session : Break(s)

Spec == Init /\ [][Next]_vars

\* Each instance runs its frames.  The network delivers a message, and takes
\* one, if this stays possible from time to time.
Fairness ==
    \A n \in Node :
        /\ WF_vars(StartPump(n)) /\ WF_vars(EndRead(n)) /\ WF_vars(EndPump(n))
        /\ SF_vars(PollRead(n)) /\ SF_vars(PollWrite(n))
        /\ SF_vars(PeerDisconnected(n))
        /\ WF_vars(Accept(n)) /\ WF_vars(DialCompletes(n))

FairSpec == Spec /\ Fairness

-----------------------------------------------------------------------------
(* Properties                                                                 *)

TypeOK ==
    /\ build \in Builds
    /\ pc \in [Node -> {"frame", "read", "write"}]
    /\ link \in [Node -> {"idle", "hosting", "connecting", "syncing", "connected", "error"}]
    /\ tp \in [Node -> {"idle", "listening", "connecting", "connected", "error"}]
    /\ session \in [Node -> Session \cup {NoSession}]
    /\ backlog \in [Node -> Session \cup {NoSession}]
    /\ opened \in 0..MaxSessions
    /\ broken \subseteq Session
    /\ wire \in [Session -> [Node -> Seq(Message)]]
    /\ core \in [Node -> Seq(Nat)]
    /\ made \in [Node -> Nat]
    /\ queue \in [Node -> Seq(Message)]
    /\ \A n \in Node : Len(queue[n]) <= Capacity /\ Len(core[n]) <= CoreCapacity
    /\ ping \in [Node -> [outstanding : BOOLEAN, id : Nat]]
    /\ sample \in [Node -> [ping : Nat, pong : Nat]]
    /\ sent \in [Session -> [Node -> Seq(Nat)]]
    /\ rcvd \in [Session -> [Node -> Seq(Nat)]]

\* "The link carries no edge before it has one clock sample": an edge never
\* gets to the core of an instance that has none, because a peer that sends
\* edges sent the answer to the PING of this instance before them.
NoEdgeBeforeSync ==
    [][\A s \in Session, n \in Node :
          rcvd'[s][n] # rcvd[s][n] => link[n] = "connected"]_vars

\* "A PONG answers the one PING that has no answer": each clock sample takes
\* its two send times from one round trip.
SampleMatchesPing == \A n \in Node : sample[n].ping = sample[n].pong

\* A link does not stay in the state "Synchronizing...".
SyncEnds == \A n \in Node : link[n] = "syncing" ~> link[n] # "syncing"

\* An edge that the link took gets to the core of the peer, if the connection
\* lasts.
EdgesArrive ==
    \A s \in Session, n \in Node :
        Len(sent[s][n]) > Len(rcvd[s][Peer(n)]) ~>
            \/ Len(sent[s][n]) = Len(rcvd[s][Peer(n)])
            \/ session[n] # s \/ session[Peer(n)] # s
            \/ ~Carries(n) \/ ~Carries(Peer(n))

\* The two instances are a channel that keeps the order of the edges.
Channel == INSTANCE EdgeChannel
ImplementsEdgeChannel == Channel!Spec
=============================================================================
