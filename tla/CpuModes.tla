------------------------------ MODULE CpuModes -------------------------------
(* Programs, exceptions and handlers over the register banks.  Handlers obey  *)
(* the conventions of the ARM procedure call: they use the registers of their *)
(* own bank, a handler that enables interrupts again keeps its SPSR and its   *)
(* r14 first, and the kernel moves the registers of User mode with the "^"    *)
(* form of a block transfer.                                                  *)
EXTENDS ArmRegisters, Sequences, SequencesExt

CONSTANTS
    Values,    \* what programs write to a register
    MaxNest,   \* the depth of exceptions
    MaxWork    \* the exceptions, and the steps of programs that change something

ASSUME CpuModesAssumption ==
    /\ Values \subseteq Word
    /\ MaxNest \in Nat
    /\ MaxWork \in Nat

VARIABLES
    cpu,        \* the registers of cpu.c
    suspended,  \* ghost: what each interrupted program saw, the first one first
    frames,     \* the memory of each handler: what it keeps, and its state
    work        \* the exceptions and the steps so far, at most MaxWork

modesVars == <<cpu, suspended, frames, work>>

Seen(c) == [r |-> c.r, psr |-> c.psr]

UserRegisters == High \cup {13, 14}

Frame == [nested : BOOLEAN, spsr : Psr, lr : Word, hop : Psr, hops : BOOLEAN,
          swapped : BOOLEAN, user : [UserRegisters -> Word]]

\* A handler that keeps nothing.
NewFrame == [nested |-> FALSE, spsr |-> NoPsr, lr |-> 0, hop |-> NoPsr, hops |-> FALSE,
             swapped |-> FALSE, user |-> [n \in UserRegisters |-> 0]]

Top      == Last(frames)
Handling == frames # <<>>
Works    == work < MaxWork /\ work' = work + 1
Keep(f)  == frames' = [frames EXCEPT ![Len(frames)] = f]

ModesInit ==
    /\ cpu = [CpuReset(0) EXCEPT !.psr = NoPsr]
    /\ suspended = <<>>
    /\ frames = <<>>
    /\ work = 0

\* A program writes a register: any in User mode, and in a handler those of
\* its bank except the return address.
Owned ==
    IF ~Handling THEN Registers
    ELSE IF cpu.psr.mode = "fiq" THEN High \cup {13} ELSE {13}

Compute ==
    /\ Works
    /\ ~(Handling /\ Top.hops)
    /\ \E n \in Owned, value \in Values : cpu' = WriteReg(cpu, n, value)
    /\ UNCHANGED <<suspended, frames>>

\* User code changes its instruction set with BX, or tries to mask interrupts.
ChangeState ==
    /\ Works
    /\ ~Handling
    /\ \/ cpu' = [cpu EXCEPT !.psr = [cpu.psr EXCEPT !.t = ~cpu.psr.t]]
       \/ cpu' = Msr(cpu, [cpu.psr EXCEPT !.mode = "svc", !.i = TRUE, !.c = ~@])
    /\ UNCHANGED <<suspended, frames>>

Suspend ==
    /\ Works
    /\ Len(suspended) < MaxNest
    /\ frames' = Append(frames, NewFrame)

Fiq ==
    /\ ~cpu.psr.f
    /\ Suspend
    /\ cpu' = TakeFiq(cpu)
    /\ suspended' = Append(suspended, Seen(cpu))

Irq ==
    /\ ~cpu.psr.i
    /\ Suspend
    /\ cpu' = TakeIrq(cpu)
    /\ suspended' = Append(suspended, Seen(cpu))

\* A system call of the program; what it sees after it is at the next address.
CallKernel ==
    /\ ~Handling
    /\ Suspend
    /\ LET pc   == cpu.r[15]
           next == Add(pc, IF cpu.psr.t THEN 2 ELSE 4)
       IN /\ cpu' = IF cpu.psr.t THEN ThumbSwi(cpu, pc) ELSE Swi(cpu, pc)
          /\ suspended' = Append(suspended, Seen(WriteReg(cpu, 15, next)))

\* The kernel keeps its SPSR and r14 and enables IRQ, and takes them back.
EnableNesting ==
    /\ Works
    /\ Handling /\ ~Top.nested /\ ~Top.hops
    /\ cpu.psr.mode = "svc"
    /\ Keep([Top EXCEPT !.nested = TRUE, !.spsr = Mrs(cpu, TRUE), !.lr = cpu.r[14]])
    /\ cpu' = Msr(cpu, [Mrs(cpu, FALSE) EXCEPT !.i = FALSE])
    /\ UNCHANGED suspended

EndNesting ==
    /\ Handling /\ Top.nested /\ ~Top.hops
    /\ Keep([Top EXCEPT !.nested = FALSE])
    /\ cpu' = LET masked == Msr(cpu, [Mrs(cpu, FALSE) EXCEPT !.i = TRUE])
              IN MsrSpsr(WriteReg(masked, 14, Top.lr), Top.spsr)
    /\ UNCHANGED <<suspended, work>>

\* A handler visits another mode and comes back.
Hop ==
    /\ Works
    /\ Handling /\ ~Top.hops /\ ~Top.swapped
    /\ \E mode \in Modes \ {"usr"} :
         /\ mode # cpu.psr.mode
         /\ cpu' = Msr(cpu, [Mrs(cpu, FALSE) EXCEPT !.mode = mode, !.i = TRUE, !.f = TRUE])
    /\ Keep([Top EXCEPT !.hops = TRUE, !.hop = Mrs(cpu, FALSE)])
    /\ UNCHANGED suspended

HopBack ==
    /\ Handling /\ Top.hops
    /\ cpu' = Msr(cpu, Top.hop)
    /\ Keep([Top EXCEPT !.hops = FALSE])
    /\ UNCHANGED <<suspended, work>>

\* STM {..}^ and LDM {..}^: the kernel puts another task in User mode for the
\* time of a handler.
SwapUser ==
    /\ Works
    /\ Handling /\ ~Top.swapped /\ ~Top.hops
    /\ Keep([Top EXCEPT !.swapped = TRUE,
                        !.user = [n \in UserRegisters |-> ReadUserBankReg(cpu, n)]])
    /\ \E value \in Values : cpu' = WriteUserBankRegs(cpu, [n \in UserRegisters |-> value])
    /\ UNCHANGED suspended

SwapBack ==
    /\ Handling /\ Top.swapped /\ ~Top.hops
    /\ cpu' = WriteUserBankRegs(cpu, Top.user)
    /\ Keep([Top EXCEPT !.swapped = FALSE])
    /\ UNCHANGED <<suspended, work>>

\* SUBS PC, LR, #4 of an interrupt and MOVS PC, LR of a system call; an LDM
\* with the PC and "^" has the same effect.
Return ==
    /\ Handling /\ ~Top.nested /\ ~Top.hops /\ ~Top.swapped
    /\ LET back == IF cpu.psr.mode = "svc" THEN cpu.r[14] ELSE (cpu.r[14] + Span - 4) % Span
       IN cpu' = WriteReg(RestorePsr(cpu), 15, back)
    /\ suspended' = Front(suspended)
    /\ frames' = Front(frames)
    /\ UNCHANGED work

ModesNext ==
    \/ Compute \/ ChangeState
    \/ Fiq \/ Irq \/ CallKernel
    \/ EnableNesting \/ EndNesting
    \/ Hop \/ HopBack
    \/ SwapUser \/ SwapBack
    \/ Return

\* The registers hold words in each mode, and what a handler keeps are words
\* and program statuses (arm7tdmi_t, cpu.h:52).
ModesTypeOK == cpu \in CpuState /\ frames \in Seq(Frame)

-----------------------------------------------------------------------------
\* Each register of each mode is one cell of a flat file.  The visible
\* registers are the cells of the current mode, and the cells of the others
\* hold what the mode left there (the banks of arm_set_mode and of the "^"
\* form, cpu.c:106 and arm_exec.c:466).
FileOf(c) ==
    [k \in Cells \cup ({"all"} \X Unbanked) |->
        IF k[2] \in Unbanked \/ k = Cell(BankIndex(c.psr.mode), k[2]) THEN c.r[k[2]]
        ELSE c.saved[k]]

Flat == INSTANCE RegisterFile WITH file <- FileOf(cpu), mode <- cpu.psr.mode

ImplementsRegisterFile == Flat!RegisterFileSpec

\* The code that an exception interrupts sees the same registers and the same
\* status after the handler returned, for interrupts at each step, an FIQ in
\* an IRQ, an IRQ in the kernel, and a task switch (arm_enter_exception, and
\* the return of exec_data_processing).
HandlersAreTransparent ==
    [][Len(suspended') < Len(suspended) => Seen(cpu') = Last(suspended)]_modesVars

ModesSpec == ModesInit /\ [][ModesNext]_modesVars
=============================================================================
