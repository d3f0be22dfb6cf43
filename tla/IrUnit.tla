------------------------------- MODULE IrUnit -------------------------------
(* The transceiver of ir.c between the software that writes its registers,    *)
(* the run loop that ticks it after each instruction, and the frontend that   *)
(* relays its edges.                                                          *)
EXTENDS Ir

CONSTANTS
    Modes,     \* bound: the values that software writes to IRDA_MODE
    Steps,     \* bound: reference cycles of one call of ir_tick
    Leads,     \* bound: how far after the clock a received edge is
    Cuts,      \* bound: reference cycles of two calls that are compared with one
    MaxRx,     \* bound: received edges
    MaxTx,     \* bound: transmitted edges
    MaxSignals,  \* bound: received and transmitted edges
    MaxClock   \* bound: reference cycles

ASSUME IrBounds ==
    /\ Modes \subseteq Mode
    /\ Steps \subseteq Nat /\ Leads \subseteq Nat /\ Cuts \subseteq Nat
    /\ {MaxRx, MaxTx, MaxSignals, MaxClock} \subseteq Nat

VARIABLES
    ir,     \* ir_t
    intc,   \* intc_t
    rise,   \* history: when software turned the LED on, if it is on
    txd,    \* history: the number of transmitted edges, and the last of them
    rxd,    \* history: the edges that the frontend pushed
    seen,   \* history: the level that INT_IRDA announced last in this receive period
    plain   \* history: software turned the filter off

irVars == <<ir, intc, rise, txd, rxd, seen, plain>>

IrInit ==
    /\ ir = IrReset
    /\ intc = IntcReset
    /\ rise = 0
    /\ txd = [count |-> 0, level |-> FALSE, delay |-> 0, on |-> 0]
    /\ rxd = <<>>
    /\ seen = {}
    /\ plain = FALSE

\* An edge that a register write makes, with what the write asked for.
RecordEdge(new) ==
    IF new.led = ir.led THEN UNCHANGED <<rise, txd>>
    ELSE /\ txd' = [count |-> txd.count + 1, level |-> new.led,
                    delay |-> new.lastEdge - ir.clock,
                    on    |-> IF new.led THEN 0 ELSE ir.clock - rise]
         /\ rise' = IF new.led THEN ir.clock ELSE 0

StoreMode ==
    \E mode \in Modes \ {ir.mode} :
        /\ ir' = WriteMode(ir, mode)
        /\ RecordEdge(ir')
        /\ plain' = (plain \/ ~mode.filter)
        /\ UNCHANGED <<intc, rxd, seen>>

StoreData ==
    \E led \in BOOLEAN \ {ir.data} :
        /\ txd.count < MaxTx /\ txd.count + Len(rxd) < MaxSignals
        /\ ir' = WriteData(ir, led)
        /\ RecordEdge(ir')
        /\ UNCHANGED <<intc, rxd, seen, plain>>

\* The IR handler of software acknowledges the interrupt.
Acknowledge ==
    /\ "irda" \in intc.hold
    /\ intc' = WriteAcknowledge(intc, {"irda"})
    /\ UNCHANGED <<ir, rise, txd, rxd, seen, plain>>

\* ir_pop_tx_edge
PopTxEdge ==
    /\ ir.tx # <<>>
    /\ ir' = [ir EXCEPT !.tx = Tail(@)]
    /\ UNCHANGED <<intc, rise, txd, rxd, seen, plain>>

\* The edges of a peer come in the order of their times, with levels that
\* alternate.
PushEdge ==
    /\ Len(rxd) < MaxRx /\ txd.count + Len(rxd) < MaxSignals
    /\ \E lead \in Leads :
        LET edge == Edge(ir.clock + lead, Len(rxd) % 2 = 0) IN
        /\ rxd # <<>> => edge.at > rxd[Len(rxd)].at
        /\ ir' = PushRxEdge(ir, edge)
        /\ rxd' = Append(rxd, edge)
    /\ UNCHANGED <<intc, rise, txd, seen, plain>>

TickIr ==
    \E cycles \in Steps :
        LET p == IrTick(ir, intc, cycles) IN
        /\ ir.clock + cycles <= MaxClock
        /\ ir' = p.ir
        /\ intc' = p.intc
        /\ seen' = IF ~ListenActive(ir) THEN {}
                   ELSE IF p.ir.level # ir.level THEN {p.ir.level} ELSE seen
        /\ UNCHANGED <<rise, txd, rxd, plain>>

IrNext == StoreMode \/ StoreData \/ Acknowledge \/ PopTxEdge \/ PushEdge \/ TickIr

IrSpec == IrInit /\ [][IrNext]_irVars

-----------------------------------------------------------------------------
(* Properties                                                                 *)

\* The registers and the two queues have their types.
IrTypeOK ==
    /\ ir.clock \in 0..MaxClock /\ ir.lastEdge \in 0..MaxClock + Stretch
    /\ ir.mode \in Mode
    /\ {plain, ir.data, ir.led, ir.level, ir.pending.valid, ir.pending.level} \subseteq BOOLEAN
    /\ \A q \in {ir.tx, ir.rx} :
        /\ Len(q) <= IrCapacity
        /\ \A i \in DOMAIN q : q[i].level \in BOOLEAN /\ q[i].at \in Nat
    /\ intc.hold \subseteq Line /\ intc.status \subseteq StatusMask

\* The frontend gets the edges of the LED in the order of their times, though
\* the code moves each fall of the LED to a later time than the store.
TxInOrder ==
    \A i \in 1..Len(ir.tx) - 1 : ir.tx[i].at <= ir.tx[i + 1].at

\* Software cannot leave the LED on: when the transmitter does not drive it,
\* the last edge that went out is a fall.
LedOffAfterTransmit ==
    ~EmitActive(ir) => ~txd.level

\* What the frontend sends to the peer is what the LED did: the edges in order, and
\* a fall for each rise, whatever mode software selects in the middle of a pulse
\* (ir.c:165, 212).
TransmitIsExact == TxInOrder /\ LedOffAfterTransmit

\* "The delay is never more than the ON duration of the pulse": the code moves
\* a fall by no more than the time for which software held the LED on.
StretchIsBounded == ~txd.level => txd.delay <= txd.on

\* The edges that the filter must accept by now: the line keeps the level for
\* more than the debounce time, and that time is over.
Steady ==
    {i \in DOMAIN rxd :
        /\ rxd[i].at + Debounce <= ir.clock
        /\ i < Len(rxd) => rxd[i + 1].at > rxd[i].at + Debounce}

\* What the filter lets through is what a filter must let through: the level
\* of the last edge that no opposite edge followed in the debounce time, also
\* across times in which the transceiver transmits or sleeps.
FilterIsExact ==
    ~plain => ir.level = IF Steady = {} THEN FALSE
               ELSE rxd[CHOOSE i \in Steady : \A j \in Steady : j <= i].level

\* Before its next event, ir_tick announces nothing: a run loop that stops
\* the skip there misses no interrupt.
QuietUntilEvent ==
    [][ /\ ir'.clock > ir.clock
        /\ \A e \in EventsAhead(ir) : ir'.clock - ir.clock < e
        => ir'.rx = ir.rx /\ ir'.level = ir.level /\ intc'.hold = intc.hold ]_irVars
=============================================================================
