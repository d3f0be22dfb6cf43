---------------------------- MODULE ArmRegisters -----------------------------
(* The registers of cpu.c: one visible set, and the copies of the registers   *)
(* that another mode has in their place.  A program status is a record, and   *)
(* the three arrays r13_bank, r14_bank and r8_12_bank are one function over   *)
(* their cells.                                                               *)
EXTENDS Integers

CONSTANTS
    Span,      \* 2^32: the values of a word
    Unbanked,  \* the registers that all modes share, with the pc
    High       \* the registers that only the FIQ mode has a copy of

ASSUME RegistersAssumption ==
    /\ Span \in Nat /\ Span > 28  \* a word holds the address of each vector
    /\ Unbanked \subseteq 0..7 \cup {15}
    /\ 15 \in Unbanked
    /\ High \subseteq 8..12

Word      == 0..(Span - 1)
Registers == Unbanked \cup High \cup {13, 14}
Banks     == {"fiq", "irq", "svc", "abt", "und", "usr"}
Modes     == Banks \cup {"sys"}
Psr       == [mode : Modes, i : BOOLEAN, f : BOOLEAN, t : BOOLEAN,
              n : BOOLEAN, z : BOOLEAN, c : BOOLEAN, v : BOOLEAN]

Cells == (Banks \X {13, 14}) \cup ({"fiq", "shared"} \X High)

Add(a, b) == (a + b) % Span

BankIndex(mode) == IF mode = "sys" THEN "usr" ELSE mode
Privileged(psr) == psr.mode \notin {"usr", "sys"}

\* The cell of register n in a bank.
Cell(bank, n) ==
    IF n \in {13, 14} THEN <<bank, n>>
    ELSE <<IF bank = "fiq" THEN "fiq" ELSE "shared", n>>

CpuState == [r : [Registers -> Word], saved : [Cells -> Word], psr : Psr, spsr : [Banks -> Psr]]

ResetPsr ==
    [mode |-> "svc", i |-> TRUE, f |-> TRUE, t |-> FALSE,
     n |-> FALSE, z |-> FALSE, c |-> FALSE, v |-> FALSE]
NoPsr == [ResetPsr EXCEPT !.mode = "usr", !.i = FALSE, !.f = FALSE]

CpuReset(vector) ==
    [r     |-> [n \in Registers |-> IF n = 15 THEN vector ELSE 0],
     saved |-> [k \in Cells |-> 0],
     psr   |-> ResetPsr,
     spsr  |-> [bank \in Banks |-> NoPsr]]

WriteReg(c, n, value) == [c EXCEPT !.r = [@ EXCEPT ![n] = value]]

\* Mutant: the FIQ mode takes its registers and does not give the others back.
SetModeKeepsHigh(c, mode) ==
    LET old   == BankIndex(c.psr.mode)
        new   == BankIndex(mode)
        moved == {13, 14} \cup (IF new = "fiq" /\ old # "fiq" THEN High ELSE {})
        cells == [k \in Cells |-> IF k[2] \in moved /\ k = Cell(old, k[2]) THEN c.r[k[2]] ELSE c.saved[k]]
    IN [c EXCEPT !.saved = cells,
                 !.r = [n \in Registers |-> IF n \in moved THEN cells[Cell(new, n)] ELSE @[n]],
                 !.psr = [@ EXCEPT !.mode = mode]]

\* arm_set_mode: the visible registers that have another copy in the new mode
\* go to their cells, and the copies of the new mode come in their place.
SetMode(c, mode) ==
    LET old   == BankIndex(c.psr.mode)
        new   == BankIndex(mode)
        moved == {13, 14} \cup (IF (old = "fiq") # (new = "fiq") THEN High ELSE {})
        cells == [k \in Cells |-> IF k[2] \in moved /\ k = Cell(old, k[2]) THEN c.r[k[2]] ELSE c.saved[k]]
    IN [c EXCEPT !.saved = cells,
                 !.r = [n \in Registers |-> IF n \in moved THEN cells[Cell(new, n)] ELSE @[n]],
                 !.psr = [@ EXCEPT !.mode = mode]]

EnterException(c, mode, vector, return) ==
    LET s == SetMode(c, mode)
    IN [s EXCEPT !.spsr = [@ EXCEPT ![BankIndex(mode)] = c.psr],
                 !.r = [@ EXCEPT ![14] = return, ![15] = vector],
                 !.psr = [@ EXCEPT !.i = TRUE, !.t = FALSE]]

FiqVector == 28
IrqVector == 24
SwiVector == 8

\* Mutant: an FIQ leaves FIQ enabled.
TakeFiqAgain(c) == EnterException(c, "fiq", FiqVector, Add(c.r[15], 4))

\* The interrupt branches of arm7tdmi_step.
TakeFiq(c) ==
    LET s == EnterException(c, "fiq", FiqVector, Add(c.r[15], 4))
    IN [s EXCEPT !.psr = [@ EXCEPT !.f = TRUE]]
TakeIrq(c) == EnterException(c, "irq", IrqVector, Add(c.r[15], 4))

\* SWI, in the ARM state and in the Thumb state.
Swi(c, pc)      == EnterException(c, "svc", SwiVector, Add(pc, 4))
ThumbSwi(c, pc) == EnterException(c, "svc", SwiVector, Add(pc, 2))

\* The return from an exception: the whole status comes from the SPSR.
RestorePsr(c) ==
    LET psr == c.spsr[BankIndex(c.psr.mode)]
    IN [SetMode(c, psr.mode) EXCEPT !.psr = psr]

\* The cell that the "^" form of a block transfer uses, which is the visible
\* register unless the mode has a copy of it.
UsesCell(c, n) == Privileged(c.psr) /\ (n \in {13, 14} \/ (n \in High /\ c.psr.mode = "fiq"))

ReadUserBankReg(c, n) == IF UsesCell(c, n) THEN c.saved[Cell("usr", n)] ELSE c.r[n]

WriteUserBankReg(c, n, value) ==
    IF UsesCell(c, n) THEN [c EXCEPT !.saved = [@ EXCEPT ![Cell("usr", n)] = value]]
    ELSE WriteReg(c, n, value)

\* LDM with "^" over a set of registers, each with its own value.
WriteUserBankRegs(c, values) ==
    LET ns == DOMAIN values
    IN [c EXCEPT
          !.saved = [k \in Cells |-> IF k[2] \in ns /\ UsesCell(c, k[2]) /\ k = Cell("usr", k[2])
                                    THEN values[k[2]] ELSE @[k]],
          !.r = [n \in Registers |-> IF n \in ns /\ ~UsesCell(c, n) THEN values[n] ELSE @[n]]]

\* MRS and MSR with the control field: User mode cannot change it.
Mrs(c, fromSpsr) == IF fromSpsr THEN c.spsr[BankIndex(c.psr.mode)] ELSE c.psr

Flags(psr, value) == [psr EXCEPT !.n = value.n, !.z = value.z, !.c = value.c, !.v = value.v]

Msr(c, value) ==
    IF c.psr.mode = "usr" THEN [c EXCEPT !.psr = Flags(@, value)]
    ELSE LET s == IF value.mode # c.psr.mode THEN SetMode(c, value.mode) ELSE c
         IN [s EXCEPT !.psr = value]

MsrSpsr(c, value) == [c EXCEPT !.spsr = [@ EXCEPT ![BankIndex(c.psr.mode)] = value]]
=============================================================================
