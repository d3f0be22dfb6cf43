-------------------------------- MODULE Intc --------------------------------
(* intc.c: the interrupt controller as a record of sets of lines.  Software   *)
(* stores whole words, thus the byte accumulators are left out.               *)
EXTENDS Naturals

Buttons == {"action", "right", "left", "down", "up"}
IrqMask == Buttons \cup {"unknown", "timer0", "timer1", "rtc", "battery", "iop", "irda"}
FiqMask == {"com", "timer2"}
Line    == IrqMask \cup FiqMask

\* INT_STATUS_MASK: the lines that status shows.
StatusMask == Buttons \cup {"com", "rtc", "iop", "irda"}

\* INT_LEVEL_MASK: the lines of status that an acknowledge does not clear.
LevelMask == Buttons \cup {"com", "iop", "irda"}

IntcReset == [hold |-> {}, status |-> {}, enable |-> {}, changes |-> 0]

\* The public functions count a change of hold, status or enable.
Counted(old, new) ==
    IF <<new.hold, new.status, new.enable>> = <<old.hold, old.status, old.enable>>
    THEN old ELSE [new EXCEPT !.changes = @ + 1]

SetLine(i, line, on) ==
    Counted(i, IF on
        THEN [i EXCEPT !.hold = @ \cup {line}, !.status = @ \cup ({line} \cap StatusMask)]
        ELSE [i EXCEPT !.hold = @ \ {line}, !.status = @ \ {line}])

ClearHoldOnly(i, line) == Counted(i, [i EXCEPT !.hold = @ \ {line}])

ClearStatusOnly(i, line) == Counted(i, [i EXCEPT !.status = @ \ {line}])

SetLevelAndPulse(i, line, level) ==
    Counted(i, [i EXCEPT !.hold = @ \cup {line},
        !.status = IF level THEN @ \cup ({line} \cap StatusMask) ELSE @ \ {line}])

WriteEnable(i, lines) == Counted(i, [i EXCEPT !.enable = @ \cup lines])

WriteMask(i, lines) == Counted(i, [i EXCEPT !.enable = @ \ lines])

WriteAcknowledge(i, lines) ==
    Counted(i, [i EXCEPT !.hold = @ \ lines, !.status = @ \ (lines \ LevelMask)])

IrqAsserted(i) == i.hold \cap i.enable \cap IrqMask # {}
FiqAsserted(i) == i.hold \cap i.enable \cap FiqMask # {}
=============================================================================
