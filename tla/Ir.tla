--------------------------------- MODULE Ir ---------------------------------
(* ir.c: the IR transceiver as a record.  The transmit side puts the edges of *)
(* the LED into a queue; the receive side takes the edges of another device   *)
(* at their time and filters glitches.  Level TRUE: the carrier is present.   *)
EXTENDS Intc, Integers, Sequences

CONSTANTS
    Debounce,    \* IR_BFLT_DEBOUNCE_CYCLES
    Stretch,     \* IR_TX_FALL_STRETCH_CYCLES
    IrCapacity,  \* IR_EDGE_QUEUE_CAPACITY
    ClockSpan    \* bound: a cycle count is a number below this, 2^64 in the code

ASSUME IrAssumption == {Debounce, Stretch, IrCapacity, ClockSpan} \subseteq Nat \ {0}

\* IRDA_MODE: IFMODE, STDBY, and BFLT with its inverted logic removed.  BGEN
\* has no effect.
Mode == [transmit : BOOLEAN, standby : BOOLEAN, filter : BOOLEAN]

ModeReset == [transmit |-> FALSE, standby |-> FALSE, filter |-> TRUE]

IrReset ==
    [clock |-> 0, mode |-> ModeReset, data |-> FALSE,
     led |-> FALSE, lastEdge |-> 0, tx |-> <<>>,
     rx |-> <<>>, level |-> FALSE,
     pending |-> [valid |-> FALSE, level |-> FALSE, since |-> 0]]

Edge(at, level) == [at |-> at, level |-> level]

\* queue_push: a full queue drops the newest edge.
QueuePush(q, edge) == IF Len(q) < IrCapacity THEN Append(q, edge) ELSE q

-----------------------------------------------------------------------------
(* Transmit                                                                   *)

EmitActive(ir) == ir.mode.transmit /\ ~ir.mode.standby

SmallerOf(a, b) == IF a < b THEN a ELSE b
LargerOf(a, b)  == IF a < b THEN b ELSE a

\* Mutant: no test against the time of the edge before it.
EdgeTimeUnordered(ir, level) ==
    LET onDuration == (ir.clock - ir.lastEdge) % ClockSpan
    IN ir.clock + IF level THEN 0 ELSE SmallerOf(onDuration, Stretch)

\* The time of an edge that software makes now.  The difference is unsigned.
EdgeTime(ir, level) ==
    LET onDuration == (ir.clock - ir.lastEdge) % ClockSpan
        delayed    == ir.clock + IF level THEN 0 ELSE SmallerOf(onDuration, Stretch)
    IN LargerOf(delayed, ir.lastEdge)

EnqueueTxEdge(ir, level) ==
    [ir EXCEPT !.lastEdge = EdgeTime(ir, level),
               !.led = level,
               !.tx = QueuePush(@, Edge(EdgeTime(ir, level), level))]

\* ir_write to IRDA_MODE: the LED goes off when the condition to emit ends.
WriteMode(ir, mode) ==
    LET w == [ir EXCEPT !.mode = mode]
    IN IF ~EmitActive(w) /\ w.led THEN EnqueueTxEdge(w, FALSE) ELSE w

\* ir_write to IRDA_DATA
WriteData(ir, led) ==
    LET w == [ir EXCEPT !.data = led]
    IN IF EmitActive(w) /\ led # w.led THEN EnqueueTxEdge(w, led) ELSE w

-----------------------------------------------------------------------------
(* Receive.  Each operator takes the pair of transceiver and controller.      *)

ListenActive(ir) == ~ir.mode.transmit /\ ~ir.mode.standby

\* Software sees the line inverted.
ApplyRxLevel(p, level) ==
    IF level = p.ir.level THEN p
    ELSE [ir   |-> [p.ir EXCEPT !.level = level],
          intc |-> IF ListenActive(p.ir)
                   THEN SetLevelAndPulse(p.intc, "irda", ~level) ELSE p.intc]

NoPending(p) == [p EXCEPT !.ir.pending.valid = FALSE]

\* Mutant: an edge back to the accepted level does not cancel the candidate.
DebounceEdgeKeepsCandidate(p, edge) ==
    IF edge.level = p.ir.level THEN p
    ELSE [p EXCEPT !.ir.pending = [valid |-> TRUE, level |-> edge.level, since |-> edge.at]]

DebounceEdge(p, edge) ==
    CASE ~p.ir.mode.filter -> NoPending(ApplyRxLevel(p, edge.level))
      [] p.ir.mode.filter /\ edge.level = p.ir.level -> NoPending(p)
      [] OTHER -> [p EXCEPT !.ir.pending =
                     [valid |-> TRUE, level |-> edge.level, since |-> edge.at]]

ResolvePending(p) ==
    IF p.ir.pending.valid /\ (p.ir.clock - p.ir.pending.since) % ClockSpan >= Debounce
    THEN NoPending(ApplyRxLevel(p, p.ir.pending.level))
    ELSE p

\* The number of edges at the front of the queue whose time came.
Due(ir) ==
    LET late == {i \in DOMAIN ir.rx : ir.rx[i].at > ir.clock}
    IN IF late = {} THEN Len(ir.rx) ELSE (CHOOSE i \in late : \A j \in late : i <= j) - 1

IrTick(ir, intc, cycles) ==
    LET now   == [ir EXCEPT !.clock = @ + cycles]
        start == [ir   |-> [now EXCEPT !.rx = SubSeq(@, Due(now) + 1, Len(@))],
                  intc |-> IF ListenActive(ir) THEN intc ELSE ClearStatusOnly(intc, "irda")]
        taken[i \in 0..Due(now)] ==
            IF i = 0 THEN start ELSE DebounceEdge(taken[i - 1], ir.rx[i])
    IN ResolvePending(taken[Due(now)])

\* ir_push_rx_edge
PushRxEdge(ir, edge) == [ir EXCEPT !.rx = QueuePush(@, edge)]

\* Mutant: forgets the end of the debounce time.
EdgesAhead(ir) == IF ir.rx = <<>> THEN {} ELSE {LargerOf(Head(ir.rx).at - ir.clock, 0)}

\* ir_cycles_to_next_event: the number of cycles to each thing that ir_tick
\* waits for.
EventsAhead(ir) ==
    LET left(at) == LargerOf(at - ir.clock, 0)
    IN (IF ir.rx = <<>> THEN {} ELSE {left(Head(ir.rx).at)})
         \cup (IF ir.pending.valid THEN {left(ir.pending.since + Debounce)} ELSE {})
=============================================================================
