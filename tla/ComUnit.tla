------------------------------- MODULE ComUnit -------------------------------
(* The serial block between the PS1 side of the core API and the handlers of  *)
(* the kernel, which is not part of the repository: its steps are those that  *)
(* docs/hardware-notes.md records, "The handshake" and after it.  The user    *)
(* docks and removes the device, and the machine resets, at any time.         *)
EXTENDS Intc

-----------------------------------------------------------------------------
(* com.c: the serial block, with the interrupt controller that it drives, as  *)
(* a record of the two.  A byte is a number: the index of an exchange, or     *)
(* IdleByte.  COM_MODE has no effect but the acknowledge.                     *)

IdleByte == 0  \* COM_REPLY_IDLE

Event == {"ready", "select"}  \* bits 0 and 1 of COM_STAT2

ComReset ==
    [ctrl1 |-> {}, held |-> IdleByte, in |-> IdleByte, out |-> IdleByte,
     arrived |-> FALSE, acked |-> FALSE, events |-> {}, level |-> FALSE,
     selected |-> FALSE, dropped |-> FALSE, docked |-> FALSE]

ComState(byte) ==
    [ctrl1 : SUBSET Event, held : byte, in : byte, out : byte,
     arrived : BOOLEAN, acked : BOOLEAN, events : SUBSET Event, level : BOOLEAN,
     selected : BOOLEAN, dropped : BOOLEAN, docked : BOOLEAN]

Stat2(c) == c.events \cap c.ctrl1

\* Only the run loop reads the count of changes of the interrupt controller.
Uncounted(i) == [i EXCEPT !.changes = 0]

\* Mutant: the request latches HOLD, and its end does not clear it.
UpdateIrqPulse(p) ==
    LET on == Stat2(p.com) # {}
    IN  IF on = p.com.level THEN p
        ELSE [com  |-> [p.com EXCEPT !.level = on],
              intc |-> Uncounted(SetLevelAndPulse(p.intc, "com", on))]

\* com_update_irq: INT_COM follows the level of the request.
UpdateIrq(p) ==
    LET on == Stat2(p.com) # {}
    IN  IF on = p.com.level THEN p
        ELSE [com  |-> [p.com EXCEPT !.level = on],
              intc |-> Uncounted(SetLine(p.intc, "com", on))]

-----------------------------------------------------------------------------
(* com_write and com_read                                                     *)

StoreCtrl1(p, events) == UpdateIrq([p EXCEPT !.com.ctrl1 = events])

\* A write of 1 clears the event.
StoreCtrl2(p, events) == UpdateIrq([p EXCEPT !.com.events = @ \ events])

StoreReply(p, byte) == [p EXCEPT !.com.held = byte]

\* COM_MODE with /ACK low.
StoreAck(p) == [p EXCEPT !.com.acked = TRUE, !.com.arrived = FALSE]

\* A read of COM_DATA.
LoadData(p) == [p EXCEPT !.com.arrived = FALSE]

-----------------------------------------------------------------------------
(* The connector                                                              *)

\* com_set_docked
SetDocked(p, on) ==
    [com  |-> [p.com EXCEPT !.docked = on],
     intc |-> Uncounted(SetLevelAndPulse(p.intc, "iop", on))]

\* com_set_selected: a release shows in COM_STAT1 until the next hold, and a
\* hold is an event.
SetSelected(p, on) ==
    IF on = p.com.selected THEN p
    ELSE LET q == [p EXCEPT !.com.selected = on, !.com.dropped = ~on]
         IN  IF on THEN UpdateIrq([q EXCEPT !.com.events = @ \cup {"select"}]) ELSE q

\* com_begin_transfer: one byte moves in, and the held byte moves out.
BeginTransfer(p, byte) ==
    UpdateIrq([p EXCEPT !.com.out = p.com.held, !.com.in = byte, !.com.arrived = TRUE,
                        !.com.acked = FALSE, !.com.events = @ \cup {"ready"}])

\* Mutant: the end of the exchange takes the release of the line with it.
EndTransferTakesDrop(p) ==
    [p EXCEPT !.com.arrived = FALSE, !.com.acked = FALSE, !.com.dropped = FALSE]

\* com_end_transfer
EndTransfer(p) == [p EXCEPT !.com.arrived = FALSE, !.com.acked = FALSE]

-----------------------------------------------------------------------------
CONSTANTS MaxBytes  \* bound: bytes of one command

ASSUME ComBounds == MaxBytes \in Nat

VARIABLES
    port,    \* com_t and intc_t
    kernel,  \* where the handler of the kernel is, and the byte it took last
    host,    \* where the PS1 is in a command, and the bytes it sent
    fresh    \* history: a selection came that no handler answered yet

comVars == <<port, kernel, host, fresh>>

ComEnabled == kernel.pc # "off"

ComInit ==
    /\ port = [com |-> ComReset, intc |-> [IntcReset EXCEPT !.enable = {"com", "iop"}]]
    /\ kernel = [pc |-> "off", took |-> 0]
    /\ host = [pc |-> "idle", sent |-> 0]
    /\ fresh = FALSE

-----------------------------------------------------------------------------
(* The kernel.  A command runs in one FIQ, with each interrupt masked.        *)

Go(pc) == kernel' = [kernel EXCEPT !.pc = pc]

\* One store of the handler, and the place after it.
KernelStore(at, new, pc) ==
    /\ kernel.pc = at
    /\ port' = new
    /\ Go(pc)
    /\ UNCHANGED <<host, fresh>>

\* The IRQ handler of the docking sense reads the level, and starts or stops
\* the communication.
KernelDock ==
    /\ kernel.pc \in {"off", "wait"}
    /\ "iop" \in port.intc.hold
    /\ ~FiqAsserted(port.intc)
    /\ LET docked  == "iop" \in port.intc.status
           cleared == StoreCtrl2(StoreCtrl1(port, {}), Event)
           acked   == [cleared EXCEPT !.intc =
                          Uncounted(WriteAcknowledge(@, {"com", "iop"}))]
       IN  /\ port' = IF docked THEN StoreCtrl1(StoreReply(acked, IdleByte), {"select"})
                                ELSE acked
           /\ Go(IF docked THEN "wait" ELSE "off")
    /\ UNCHANGED <<host, fresh>>

KernelEnter ==
    /\ kernel.pc = "wait"
    /\ FiqAsserted(port.intc)
    /\ port' = StoreCtrl2(port, {"ready"})
    /\ kernel' = [pc |-> "select events", took |-> 0]
    /\ fresh' = FALSE
    /\ UNCHANGED host

KernelSelectEvents == KernelStore("select events", StoreCtrl1(port, Event), "poll")

\* Ready is set: the handler clears it and takes the byte.
KernelTake ==
    /\ kernel.pc = "poll"
    /\ "ready" \in Stat2(port.com)
    /\ port' = StoreCtrl2(port, {"ready"})
    /\ kernel' = [pc |-> "reply", took |-> kernel.took + 1]
    /\ UNCHANGED <<host, fresh>>

\* The data phase of a command does not read COM_DATA.
KernelReply ==
    \E p \in {port, LoadData(port)} : KernelStore("reply", StoreReply(p, kernel.took), "ack")

\* After the first byte the handler clears Ready again.
KernelAck == KernelStore("ack", StoreAck(port), IF kernel.took = 1 THEN "clear" ELSE "poll")

KernelClear == KernelStore("clear", StoreCtrl2(port, {"ready"}), "poll")

\* The last byte of a command has no acknowledge.
KernelLastByte == KernelStore("ack", port, "finish")

\* The wait for the release of the line, which COM_STAT1 shows.
KernelSeesRelease ==
    /\ port.com.dropped
    /\ KernelStore("poll", port, "mask") \/ KernelStore("finish", port, "mask")

KernelEnd ==
    \/ KernelStore("mask", StoreCtrl1(port, {}), "forget")
    \/ KernelStore("forget", StoreCtrl2(port, Event), "listen")
    \/ KernelStore("listen", StoreCtrl1(port, {"select"}), "wait")

Kernel ==
    \/ KernelDock \/ KernelEnter \/ KernelSelectEvents \/ KernelTake
    \/ KernelReply \/ KernelAck \/ KernelClear \/ KernelLastByte
    \/ KernelSeesRelease \/ KernelEnd

-----------------------------------------------------------------------------
(* The PS1 side: psemu_com_transfer and the calls it is made of               *)

\* PSEMU_COM_SELECT_LEAD_CYCLES: the handler polls before the first byte.
Lead == kernel.pc = "poll"

\* "A PS1 gives a byte time after each acknowledge", and "run the machine for a
\* short time after the release".
ByteTime == kernel.pc \in {"poll", "finish"}
Settled  == kernel.pc = "wait" /\ ~FiqAsserted(port.intc)

HostStep(new, pc) ==
    /\ port' = new
    /\ host' = [host EXCEPT !.pc = pc]
    /\ UNCHANGED <<kernel, fresh>>

HoldSelect ==
    /\ host.pc = "idle" /\ port.com.docked
    /\ ComEnabled /\ Settled
    /\ port' = SetSelected(port, TRUE)
    /\ host' = [pc |-> "selected", sent |-> 0]
    /\ fresh' = TRUE
    /\ UNCHANGED kernel

\* com_begin_transfer, and in psemu_com_transfer_and_select_drop the release.
SendByte ==
    /\ \/ host.pc = "selected" /\ Lead
       \/ host.pc = "between" /\ ByteTime
    /\ host.sent < MaxBytes
    /\ \E drops \in BOOLEAN :
        LET sent == BeginTransfer(port, host.sent + 1)
        IN  port' = IF drops THEN SetSelected(sent, FALSE) ELSE sent
    /\ host' = [pc |-> "exchange", sent |-> host.sent + 1]
    /\ UNCHANGED <<kernel, fresh>>

\* run_to_ack saw the acknowledge.  A host that uses psemu_com_send does not
\* call com_end_transfer.  A released line ends the command.
EndExchange ==
    /\ host.pc = "exchange"
    /\ port.com.acked
    /\ \E p \in {port, EndTransfer(port)} :
        HostStep(p, IF port.com.selected THEN "between" ELSE "idle")

\* The budget of run_to_ack ran out, at any step of the kernel.  A PS1 takes
\* this for the end of the command.
Timeout ==
    /\ host.pc = "exchange"
    /\ ~port.com.acked
    /\ HostStep(EndTransfer(port), "release")

ReleaseSelect ==
    /\ host.pc \in {"selected", "between", "release"}
    /\ HostStep(SetSelected(port, FALSE), "idle")

Dock ==
    /\ \E on \in BOOLEAN \ {port.com.docked} : port' = SetDocked(port, on)
    /\ UNCHANGED <<kernel, host, fresh>>

\* psemu_reset, after which software enables the interrupts.
ResetPort ==
    /\ port' = [com |-> ComReset, intc |-> [IntcReset EXCEPT !.enable = {"com", "iop"}]]
    /\ kernel' = [pc |-> "off", took |-> 0]
    /\ host' = [pc |-> "idle", sent |-> 0]
    /\ fresh' = FALSE

Host ==
    \/ HoldSelect \/ SendByte \/ EndExchange \/ Timeout \/ ReleaseSelect
    \/ Dock \/ ResetPort

ComNext == Kernel \/ Host

ComSpec == ComInit /\ [][ComNext]_comVars

-----------------------------------------------------------------------------
ComTypeOK ==
    /\ port.com \in ComState(0..MaxBytes)
    /\ kernel.took \in 0..MaxBytes
    /\ host.sent \in 0..MaxBytes

\* "HOLD latches when the request starts, and it clears when the request ends":
\* while the kernel waits for a command, the FIQ is pending exactly if a
\* selection came that it did not answer.  A handler does not start again after
\* its command.
HandlerRunsOncePerSelection ==
    kernel.pc = "wait" => (FiqAsserted(port.intc) <=> fresh)

\* The byte that went out in the exchange in progress: what the kernel wrote
\* for the byte before.
ReplyIsOneBehind == host.sent > 1 => port.com.out = host.sent - 1

\* An acknowledge that the host sees is the one of the byte that it sent, the
\* reply is one exchange behind, and a byte that the kernel waits for is Ready.
ExchangeIsOneByte ==
    host.pc = "exchange" =>
        /\ port.com.acked => kernel.took = host.sent /\ ReplyIsOneBehind
        /\ kernel.pc = "poll" /\ kernel.took < host.sent => "ready" \in Stat2(port.com)

\* One handler for each selection and one exchange for each byte, with any timeout,
\* undock and new selection in between (com.c, docs/hardware-notes.md).
ExchangesAreExact == HandlerRunsOncePerSelection /\ ExchangeIsOneByte

\* "Nothing else releases that wait": a kernel that is in a command, and looks
\* for the release of the line, finds it as long as the line is released.
ReleaseEndsCommand ==
    kernel.pc \in {"poll", "finish"} => (port.com.dropped <=> ~port.com.selected)
=============================================================================
