------------------------------ MODULE PipeLink ------------------------------
(* One direction of an IR link over a named pipe: the write queue of the      *)
(* sender (poll_write of ir_link.c), the overlapped write of its transport    *)
(* (ir_transport_pipe.c), the pipe of the operating system, the overlapped    *)
(* read of the receiver and its framing (poll_read).  The system completes an *)
(* operation after any time, a write also with only a part of its bytes.      *)
EXTENDS Integers, Sequences

CONSTANTS
    MessageSize,   \* sizeof(ir_wire_message_t)
    QueueSlots,    \* IR_LINK_WRITE_QUEUE_CAPACITY
    WriteBuffer,   \* IR_TRANSPORT_WRITE_BUFFER_SIZE
    ReadBuffer,    \* IR_TRANSPORT_READ_BUFFER_SIZE
    OsBuffer,      \* IR_TRANSPORT_PIPE_OS_BUFFER_SIZE
    EdgeCount,     \* bound: edges of the core of the sender
    Connections    \* bound: connections

ASSUME PipeAssumption ==
    /\ {MessageSize, QueueSlots, WriteBuffer, ReadBuffer, OsBuffer, Connections} \subseteq Nat \ {0}
    /\ EdgeCount \in Nat

VARIABLES
    queue,     \* ir_link_t: write_queue from the head on, write_head, write_offset
    ping,      \* ir_link_t: ping_sent_wall_us, ping_outstanding
    writer,    \* the transport of the sender: state, write_buf, its operation
    pipe,      \* the pipe of the system: connected, its bytes
    reader,    \* the transport of the receiver: state, read_buf from read_head on
    partial,   \* ir_link_t: read_bytes up to read_fill
    handled,   \* the message that handle_incoming_message got last
    made       \* edges and connections so far, bounds

pipeVars == <<queue, ping, writer, pipe, reader, partial, handled, made>>

Stamps == 0..1   \* values of the wall clock of the sender

Edge(n) == [kind |-> "edge", value |-> n]
Ping(t) == [kind |-> "ping", value |-> t]
None    == [kind |-> "none", value |-> 0]
Torn    == [kind |-> "torn", value |-> 0]

AllBytes(ms) ==
    [i \in 1..Len(ms) * MessageSize |->
        [of |-> ms[(i - 1) \div MessageSize + 1], part |-> (i - 1) % MessageSize]]

\* The message that a group of bytes is, if it is one.
Assembled(bytes) == IF bytes = AllBytes(<<bytes[1].of>>) THEN bytes[1].of ELSE Torn

Least(a, b) == IF a < b THEN a ELSE b
From(s, n) == SubSeq(s, n + 1, Len(s))

EmptyQueue == [messages |-> <<>>, head |-> 0, offset |-> 0]
Opening == [state |-> "opening", buf |-> <<>>, op |-> "none", took |-> 0]

PipeInit ==
    /\ queue = EmptyQueue /\ ping = [sent |-> 0, outstanding |-> FALSE]
    /\ writer = Opening /\ reader = Opening
    /\ pipe = [up |-> FALSE, bytes |-> <<>>]
    /\ partial = <<>> /\ handled = None
    /\ made = [edges |-> 0, connections |-> 0]

-----------------------------------------------------------------------------
(* Connections                                                                *)

\* ConnectNamedPipe and CreateFileA of the two sides meet.
OsConnect ==
    /\ ~pipe.up /\ writer.state = "opening" /\ reader.state = "opening"
    /\ made.connections < Connections
    /\ made' = [made EXCEPT !.connections = @ + 1]
    /\ pipe' = [up |-> TRUE, bytes |-> <<>>]
    /\ UNCHANGED <<queue, ping, writer, reader, partial, handled>>

\* on_connected of the transport and of the link.
SenderConnected ==
    /\ pipe.up /\ writer.state = "opening"
    /\ writer' = [Opening EXCEPT !.state = "open"]
    /\ queue' = EmptyQueue
    /\ ping' = [ping EXCEPT !.outstanding = FALSE]
    /\ UNCHANGED <<pipe, reader, partial, handled, made>>

ReceiverConnected ==
    /\ pipe.up /\ reader.state = "opening"
    /\ reader' = [Opening EXCEPT !.state = "open", !.op = "started"]
    /\ partial' = <<>>
    /\ UNCHANGED <<queue, ping, writer, pipe, handled, made>>

Down == {[up |-> FALSE, bytes |-> <<>>], [up |-> FALSE, bytes |-> pipe.bytes]}

\* The other process ends, or its user does.  The receiver can still read what
\* the pipe holds, if the system keeps it.
Break ==
    /\ pipe.up /\ pipe' \in Down
    /\ UNCHANGED <<queue, ping, writer, reader, partial, handled, made>>

\* ir_link_disconnect, and then ir_link_host or ir_link_connect.
SenderReopens ==
    /\ writer.state # "opening"
    /\ pipe' \in Down
    /\ writer' = Opening /\ queue' = EmptyQueue
    /\ UNCHANGED <<ping, reader, partial, handled, made>>

ReceiverReopens ==
    /\ reader.state # "opening"
    /\ pipe' = [up |-> FALSE, bytes |-> <<>>]
    /\ reader' = Opening /\ partial' = <<>>
    /\ UNCHANGED <<queue, ping, writer, handled, made>>

-----------------------------------------------------------------------------
(* The operating system                                                       *)

OsWrite(n) ==
    /\ pipe.up /\ writer.op = "started"
    /\ n <= Len(writer.buf) /\ Len(pipe.bytes) + n <= OsBuffer
    /\ pipe' = [pipe EXCEPT !.bytes = @ \o SubSeq(writer.buf, 1, n)]
    /\ writer' = [writer EXCEPT !.op = "done", !.took = n]
    /\ UNCHANGED <<queue, ping, reader, partial, handled, made>>

OsRead(n) ==
    /\ reader.op = "started" /\ n <= Len(pipe.bytes)
    /\ reader' = [reader EXCEPT !.op = "done", !.buf = SubSeq(pipe.bytes, 1, n)]
    /\ pipe' = [pipe EXCEPT !.bytes = From(@, n)]
    /\ UNCHANGED <<queue, ping, writer, partial, handled, made>>

-----------------------------------------------------------------------------
(* The sender                                                                 *)

\* enqueue_write: a full queue drops the message.
Enqueued(q, m) ==
    IF Len(q.messages) < QueueSlots THEN [q EXCEPT !.messages = Append(@, m)] ELSE q

EnqueueEdge ==
    /\ writer.state = "open" /\ made.edges < EdgeCount
    /\ made' = [made EXCEPT !.edges = @ + 1]
    /\ queue' = Enqueued(queue, Edge(made'.edges))
    /\ UNCHANGED <<ping, writer, pipe, reader, partial, handled>>

\* Mutant: a clock sample is enough, and no further PING goes.
FirstPingOnly ==
    /\ writer.state = "open" /\ ~ping.outstanding /\ handled = None
    /\ ping' = [sent |-> 0, outstanding |-> TRUE]
    /\ queue' = Enqueued(queue, Ping(0))
    /\ UNCHANGED <<writer, pipe, reader, partial, handled, made>>

\* maybe_send_ping, at the end of the interval.
MaybeSendPing ==
    /\ writer.state = "open" /\ ~ping.outstanding
    /\ ping' = [sent |-> 0, outstanding |-> TRUE]
    /\ queue' = Enqueued(queue, Ping(0))
    /\ UNCHANGED <<writer, pipe, reader, partial, handled, made>>

\* The answer arrives, or the PING times out after it left the queue (one that
\* times out before is left out).
PingEnds ==
    /\ ping.outstanding
    /\ \A i \in DOMAIN queue.messages : queue.messages[i].kind # "ping"
    /\ ping' = [ping EXCEPT !.outstanding = FALSE]
    /\ UNCHANGED <<queue, writer, pipe, reader, partial, handled, made>>

\* start_write, with the bytes that the buffer holds.
Started(w, bytes) ==
    IF pipe.up THEN [w EXCEPT !.buf = bytes, !.op = "started", !.took = 0]
               ELSE [w EXCEPT !.buf = bytes, !.op = "none", !.took = 0, !.state = "error"]

\* Mutant: the new bytes take the place of the rest of a partial write.
PipeSendDropsRest(w, bytes) ==
    CASE w.op = "started" ->
             [writer |-> IF pipe.up THEN w ELSE [w EXCEPT !.state = "error"], got |-> 0]
      [] OTHER ->
             LET taken == SubSeq(bytes, 1, Least(Len(bytes), WriteBuffer)) IN
             [writer |-> Started(w, taken), got |-> IF pipe.up THEN Len(taken) ELSE 0]

\* pipe_send: the transport after it, and the number of bytes that it took.
PipeSend(w, bytes) ==
    CASE w.op = "started" ->
             [writer |-> IF pipe.up THEN w ELSE [w EXCEPT !.state = "error"], got |-> 0]
      [] w.op = "done" /\ w.took < Len(w.buf) ->
             [writer |-> Started(w, From(w.buf, w.took)), got |-> 0]
      [] OTHER ->
             LET taken == SubSeq(bytes, 1, Least(Len(bytes), WriteBuffer)) IN
             [writer |-> Started(w, taken), got |-> IF pipe.up THEN Len(taken) ELSE 0]

\* writable_run: to the end of the array, and a PING goes alone.
WritableRun(q) ==
    LET limit == Least(Len(q.messages), QueueSlots - q.head)
        timed == {i \in 1..limit : q.messages[i].kind = "ping"}
    IN CASE timed = {} -> limit
         [] 1 \in timed -> 1
         [] OTHER -> (CHOOSE i \in timed : \A j \in timed : i <= j) - 1

\* The stamp of a PING that has no byte at the transport.
Stamped(q, now) ==
    IF q.offset = 0 /\ q.messages[1].kind = "ping"
    THEN [q EXCEPT !.messages[1] = Ping(now)] ELSE q

\* The queue after the transport took n bytes from its head.
Advanced(q, n) ==
    LET whole == (q.offset + n) \div MessageSize IN
    [messages |-> From(q.messages, whole), head |-> (q.head + whole) % QueueSlots,
     offset |-> (q.offset + n) % MessageSize]

PollWrite(now) ==
    /\ writer.state = "open" /\ queue.messages # <<>>
    /\ LET q == Stamped(queue, now)
           run == SubSeq(q.messages, 1, WritableRun(q))
           sent == PipeSend(writer, From(AllBytes(run), q.offset))
       IN /\ writer' = sent.writer
          /\ queue' = Advanced(q, sent.got)
          /\ ping' = [ping EXCEPT !.sent = IF q.offset = 0 /\ q.messages[1].kind = "ping"
                                           THEN now ELSE @]
    /\ UNCHANGED <<pipe, reader, partial, handled, made>>

-----------------------------------------------------------------------------
(* The receiver                                                               *)

\* start_read: the read fails when the connection is gone and the pipe is empty.
ReadStarted(r) ==
    IF pipe.up \/ pipe.bytes # <<>> THEN [r EXCEPT !.buf = <<>>, !.op = "started"]
                                    ELSE [r EXCEPT !.buf = <<>>, !.op = "none", !.state = "error"]

\* pipe_recv, with a buffer that holds bytes, and poll_read: the message is
\* handled when its last byte is there and the transport has no error.
PollRead ==
    /\ reader.state = "open" /\ reader.buf # <<>>
    /\ LET n == Least(Len(reader.buf), MessageSize - Len(partial))
           bytes == partial \o SubSeq(reader.buf, 1, n)
           rest == From(reader.buf, n)
       IN /\ reader' = IF rest = <<>> THEN ReadStarted(reader)
                                      ELSE [reader EXCEPT !.buf = rest, !.op = "none"]
          /\ IF Len(bytes) = MessageSize /\ reader'.state = "open"
             THEN partial' = <<>> /\ handled' = Assembled(bytes)
             ELSE partial' = bytes /\ UNCHANGED handled
    /\ UNCHANGED <<queue, ping, writer, pipe, made>>

\* The same, with a read in progress that fails.
PollReadFails ==
    /\ reader.state = "open" /\ reader.op = "started"
    /\ ~pipe.up /\ pipe.bytes = <<>>
    /\ reader' = [reader EXCEPT !.state = "error", !.op = "none"]
    /\ UNCHANGED <<queue, ping, writer, pipe, partial, handled, made>>

-----------------------------------------------------------------------------
PipeSystem == \/ \E n \in 1..WriteBuffer : OsWrite(n)
              \/ \E n \in 1..ReadBuffer : OsRead(n)

PingClock  == MaybeSendPing \/ PingEnds
SenderPump == \E now \in Stamps : PollWrite(now)
ReceiverPump == ReceiverConnected \/ PollRead \/ PollReadFails

PipeNext ==
    \/ OsConnect \/ SenderConnected
    \/ Break \/ SenderReopens \/ ReceiverReopens
    \/ EnqueueEdge
    \/ PipeSystem \/ PingClock \/ SenderPump \/ ReceiverPump

\* The system completes what it can, and each main loop comes round again.  The
\* users and the core of the sender need not do anything.
PipeFairness ==
    /\ WF_pipeVars(PipeSystem) /\ WF_pipeVars(PingClock)
    /\ WF_pipeVars(SenderPump) /\ WF_pipeVars(ReceiverPump)
PipeSpec == PipeInit /\ [][PipeNext]_pipeVars /\ PipeFairness

-----------------------------------------------------------------------------
(* What the two sides promise                                                 *)

\* The bytes between the queue and handle_incoming_message, the first one to
\* arrive first, with the rest of a message that the transport took in part.
InTransit ==
    LET received == IF reader.state = "open" THEN partial \o reader.buf ELSE <<>>
        unsent   == IF writer.op = "none" THEN <<>> ELSE From(writer.buf, writer.took)
        rest     == IF queue.offset = 0 THEN <<>>
                    ELSE From(AllBytes(SubSeq(queue.messages, 1, 1)), queue.offset)
    IN received \o pipe.bytes
       \o (IF pipe.up /\ writer.state = "open" THEN unsent \o rest ELSE <<>>)

\* The whole messages among them.
OnTheWay ==
    [i \in 1..Len(InTransit) \div MessageSize |->
        Assembled(SubSeq(InTransit, (i - 1) * MessageSize + 1, i * MessageSize))]

\* The messages that the transport has not touched.
Untouched ==
    LET ms == From(queue.messages, IF queue.offset = 0 THEN 0 ELSE 1)
    IN [i \in DOMAIN ms |-> IF ms[i].kind = "ping" THEN Ping(0) ELSE ms[i]]

Messages == INSTANCE MessageStream WITH
    waiting <- Untouched, stream <- OnTheWay, pingSent <- ping.sent

\* Messages arrive whole, in order, at most one time, with the stamp of their
\* first byte, whatever parts the system takes and whatever ends a connection
\* (ir_transport_pipe.c:290, ir_link.c:384).
PipeIsAStream == Messages!Spec

\* An edge in the queue reaches the receiver or the connection ends: the rest of
\* a partial write, which only a further pipe_send starts, waits at most for the
\* next PING.
EdgeArrives ==
    \A n \in 1..EdgeCount :
        (\E i \in DOMAIN queue.messages : queue.messages[i] = Edge(n))
            ~> (handled = Edge(n) \/ ~pipe.up)
=============================================================================
