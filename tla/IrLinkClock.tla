----------------------------- MODULE IrLinkClock -----------------------------
(* The time of ir_link.c: how an edge that the core of one instance makes     *)
(* gets its place on the clock of the core of the other.                      *)
(*                                                                            *)
(* Each instance advances the clock of its core by FrameTime in each frame,   *)
(* and a frame takes FrameTime or more of wall time, so the core clocks drift.*)
(* The wall clocks of the two instances differ by Skew.  The frontends have   *)
(* one connection that is synchronized, the edges go one way, and a message   *)
(* is on the way for MaxDelay at most.                                        *)
EXTENDS Integers, Sequences

-----------------------------------------------------------------------------
(* The clock measurement of ir_link.c: the sample of one PING and its PONG,   *)
(* and the window that keeps the newest samples.                              *)

\* Division of C: the quotient goes toward 0.
CDiv2(x) == IF x >= 0 THEN x \div 2 ELSE -((-x) \div 2)

\* t0 and t3 are on the clock of this instance, t1 and t2 on the peer's.
Offset(t0, t1, t2, t3) == CDiv2((t1 - t0) + (t2 - t3))
Rtt(t0, t1, t2, t3)    == (t3 - t0) - (t2 - t1)

\* record_sync_sample, on a window of size: the oldest sample goes.
Record(w, s, size) ==
    IF Len(w) = size THEN Append(Tail(w), s) ELSE Append(w, s)

\* Mutant: takes the newest sample in place of the one with the smallest trip.
IsNewest(w, i) == i = Len(w)

\* best_peer_offset: the first sample with the smallest round trip.
IsBest(w, i) ==
    /\ i \in DOMAIN w
    /\ \A j \in DOMAIN w :
          \/ w[i].rtt < w[j].rtt
          \/ w[i].rtt = w[j].rtt /\ i <= j

BestOffset(w) ==
    IF w = <<>> THEN 0
    ELSE w[CHOOSE i \in DOMAIN w : IsBest(w, i)].offset

-----------------------------------------------------------------------------
CONSTANTS
    FrameTime,    \* core time of one frame
    MaxFrame,     \* bound: wall time of one frame
    MaxDelay,     \* bound: time of a message in the network
    SampleDelay,  \* bound: time of a PING or PONG, the wait for a frame included
    Skew,         \* wall clock of the sender minus that of the receiver
    WindowSize,   \* IR_LINK_SYNC_WINDOW
    RelatchIdle,  \* IR_LINK_OFFSET_RELATCH_IDLE_US
    Playout,      \* IR_LINK_PLAYOUT_DELAY_US
    MessageGap,   \* edges that are nearer than this belong to one message
    CoreStart,    \* the clocks of the cores at the start
    MaxEdges,     \* bound: edges that the sender makes
    MaxSamples,   \* bound: clock samples
    MaxTime       \* bound: time

ASSUME ConstantsAssumption ==
    /\ {FrameTime, MaxFrame, WindowSize, RelatchIdle, Playout} \subseteq Nat \ {0}
    /\ {MaxDelay, SampleDelay, MessageGap, MaxEdges, MaxSamples, MaxTime} \subseteq Nat
    /\ FrameTime <= MaxFrame
    /\ Skew \in Int
    /\ CoreStart \subseteq Nat

VARIABLES
    now,        \* true time, and the wall clock of the receiver
    sendFrame,  \* when the sender completed its last frame
    recvFrame,  \* when the receiver completed its last frame
    sendCore,   \* the clock of each core
    recvCore,
    sendLatch,  \* wall_minus_core_us of the sender, and last_edge_wall_us
    recvLatch,  \* the same of the receiver, with peer_wall_minus_local_wall_us
    window,     \* sync_samples of the receiver
    samples,    \* the number of samples so far
    wire,       \* edges on the way: wall timestamp, time of the send, core time
    made,       \* the number of edges made
    heard       \* the edges the core of the receiver got: core time of the
                \* sender, local time, lead

vars == <<now, sendFrame, recvFrame, sendCore, recvCore, sendLatch, recvLatch,
          window, samples, wire, made, heard>>

RecvWall(t) == t
SendWall(t) == t + Skew

\* on_connected keeps last_edge_wall_us: the connection before this one can have
\* carried an edge just now.
Unlatched(wall) == [valid |-> FALSE, offset |-> 0, peer |-> 0, lastEdge |-> wall]

\* The sample of a PING at time 0 that takes `there` to the peer and `back`.
RoundTrip(there, back) ==
    LET t == SendWall(there) IN
    [offset |-> Offset(0, t, t, RecvWall(there + back)),
     rtt    |-> Rtt(0, t, t, RecvWall(there + back))]

SampleSet == {RoundTrip(there, back) : there, back \in 0..SampleDelay}

\* The first sample is there: the link carries no edge before it.
Init ==
    /\ now = 0
    /\ sendFrame = 0 /\ recvFrame = 0
    /\ sendCore \in CoreStart /\ recvCore \in CoreStart
    /\ sendLatch = Unlatched(SendWall(0)) /\ recvLatch = Unlatched(RecvWall(0))
    /\ window \in {<<s>> : s \in SampleSet}
    /\ samples = 1
    /\ wire = <<>>
    /\ made = 0
    /\ heard = <<>>

\* Mutant: measures the offset again for each edge.
RelatchEachTime(latch, wall, core, best) ==
    [latch EXCEPT !.valid = TRUE, !.offset = wall - core, !.peer = best]

\* link_clock_offset, with wall clock wall and core clock core.
Relatch(latch, wall, core, best) ==
    IF ~latch.valid \/ wall - latch.lastEdge >= RelatchIdle
    THEN [latch EXCEPT !.valid = TRUE, !.offset = wall - core, !.peer = best]
    ELSE latch

\* wall_to_local_us, local_to_wall_us
WallToLocal(offset, wall) == IF wall - offset < 0 THEN 0 ELSE wall - offset
LocalToWall(offset, local) == local + offset

-----------------------------------------------------------------------------
Tick ==
    /\ now < MaxTime
    /\ now - sendFrame < MaxFrame /\ now - recvFrame < MaxFrame
    /\ now' = now + 1
    /\ UNCHANGED <<sendFrame, recvFrame, sendCore, recvCore, sendLatch, recvLatch,
                   window, samples, wire, made, heard>>

\* psemu_run makes edges at some moments of the frame.  drain_tx_edges puts
\* them on the wall clock.
SendPump(edges) ==
    LET latch == Relatch(sendLatch, SendWall(now), sendCore', 0)
        Message(e) == [at |-> LocalToWall(latch.offset, e), sentAt |-> now, made |-> e]
        group == [i \in DOMAIN edges |-> Message(edges[i])]
    IN
    /\ wire' = wire \o group
    /\ sendLatch' = IF edges = <<>> THEN latch
                    ELSE [latch EXCEPT !.lastEdge = SendWall(now)]

SendFrame ==
    /\ now - sendFrame >= FrameTime
    /\ sendFrame' = now
    /\ sendCore' = sendCore + FrameTime
    /\ \E n \in 0..FrameTime : \E edges \in [1..n -> sendCore + 1 .. sendCore + FrameTime] :
        /\ \A i \in 1 .. n - 1 : edges[i] < edges[i + 1]
        /\ made + n <= MaxEdges
        /\ made' = made + n
        /\ SendPump(edges)
    /\ UNCHANGED <<now, recvFrame, recvCore, recvLatch, window, samples, heard>>

\* The edge case of handle_incoming_message.
Place(m, latch, core) ==
    LET local == WallToLocal(latch.offset, m.at - latch.peer) + Playout
    IN [made |-> m.made, at |-> local, lead |-> local - core]

\* poll_read until the transport has no more: the network can hold back a
\* message for MaxDelay.
RecvPump(k) ==
    LET latch == IF k = 0 THEN recvLatch
                 ELSE [Relatch(recvLatch, RecvWall(now), recvCore', BestOffset(window))
                       EXCEPT !.lastEdge = RecvWall(now)]
    IN
    /\ \A i \in k + 1 .. Len(wire) : now - wire[i].sentAt < MaxDelay
    /\ heard' = heard \o [i \in 1..k |-> Place(wire[i], latch, recvCore')]
    /\ wire' = SubSeq(wire, k + 1, Len(wire))
    /\ recvLatch' = latch

RecvFrame ==
    /\ now - recvFrame >= FrameTime
    /\ recvFrame' = now
    /\ recvCore' = recvCore + FrameTime
    /\ \E k \in 0..Len(wire) : RecvPump(k)
    /\ UNCHANGED <<now, sendFrame, sendCore, sendLatch, window, samples, made>>

\* A PONG arrives.
Sample ==
    /\ samples < MaxSamples
    /\ samples' = samples + 1
    /\ \E s \in SampleSet : window' = Record(window, s, WindowSize)
    /\ UNCHANGED <<now, sendFrame, recvFrame, sendCore, recvCore, sendLatch,
                   recvLatch, wire, made, heard>>

Next == Tick \/ SendFrame \/ RecvFrame \/ Sample

Spec == Init /\ [][Next]_vars

-----------------------------------------------------------------------------
(* Properties                                                                 *)

TypeOK ==
    /\ now \in 0..MaxTime
    /\ {sendFrame, recvFrame} \subseteq 0..now
    /\ {sendCore, recvCore} \subseteq Nat
    /\ \A l \in {sendLatch, recvLatch} :
          l \in [valid : BOOLEAN, offset : Int, peer : Int, lastEdge : Int]
    /\ window \in Seq([offset : Int, rtt : Nat])
    /\ Len(window) \in 1..WindowSize
    /\ samples \in 1..MaxSamples
    /\ made \in 0..MaxEdges
    /\ wire \in Seq([at : Int, sentAt : 0..now, made : Nat])
    /\ heard \in Seq([made : Nat, at : Nat, lead : Int])

\* "The original relative space between them stays exact": two edges of one
\* message have the same distance on the clock of the receiver as on the clock
\* of the sender, for each drift, delay and sample.
SpacingExact ==
    \A i \in 1 .. Len(heard) - 1 :
        heard[i + 1].made - heard[i].made <= MessageGap =>
            heard[i + 1].at - heard[i].at = heard[i + 1].made - heard[i].made

\* "The delay must cover the transit time, the batching, and the clock drift
\* over one full message": no edge is due at its arrival.
NoLateEdge == \A i \in DOMAIN heard : heard[i].lead > 0

\* What the core of the receiver gets has the shape that the core of the sender
\* made, and in time (ir_link.c:141).
PlayoutIsExact == SpacingExact /\ NoLateEdge

\* "The error that remains is one half of the difference between the two
\* directions of the path": the offset that the link uses is as good as the
\* best round trip of the window.
OffsetError ==
    \A i \in DOMAIN window :
        LET e == BestOffset(window) - Skew
        IN -window[i].rtt - 1 <= 2 * e /\ 2 * e <= window[i].rtt + 1
=============================================================================
