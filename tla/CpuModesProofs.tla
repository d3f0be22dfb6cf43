--------------------------- MODULE CpuModesProofs ----------------------------
(* The register banks of cpu.c implement a flat register file: a change of    *)
(* mode moves no value, for any set of registers and any size of a word.  So  *)
(* code that exceptions interrupt finds its registers and its status again.   *)
EXTENDS CpuModes, SequenceTheorems, TLAPS

USE DEF Word, Registers, Banks, Modes, Cells

\* No mode has a copy of a register that all modes share.
LEMMA Disjoint ==
    Unbanked \cap ({13, 14} \cup High) = {}
  <1>1. ASSUME NEW n \in Unbanked, n \in {13, 14} \cup High PROVE FALSE
    <2>1. n \in 0..7 \cup {15}
      BY RegistersAssumption
    <2>2. n \in {13, 14} \cup 8..12
      BY <1>1, RegistersAssumption
    <2> QED BY <2>1, <2>2
  <1> QED BY <1>1

\* A change of mode keeps the types.
LEMMA SetModeType ==
    ASSUME NEW c \in CpuState, NEW m \in Modes
    PROVE  SetMode(c, m) \in CpuState /\ SetMode(c, m).psr.mode = m
  <1> DEFINE old   == BankIndex(c.psr.mode)
             new   == BankIndex(m)
             moved == {13, 14} \cup (IF (old = "fiq") # (new = "fiq") THEN High ELSE {})
             cells == [k \in Cells |-> IF k[2] \in moved /\ k = Cell(old, k[2]) THEN c.r[k[2]] ELSE c.saved[k]]
             regs  == [n \in Registers |-> IF n \in moved THEN cells[Cell(new, n)] ELSE c.r[n]]
  <1>0. c.psr.mode \in Modes /\ c.psr \in Psr /\ c.r \in [Registers -> Word] /\ c.saved \in [Cells -> Word]
    BY DEF CpuState, Psr
  <1>1. new \in Banks /\ old \in Banks
    BY <1>0 DEF BankIndex
  <1>2. \A k \in Cells : k[2] \in Registers
    BY RegistersAssumption
  <1>3. cells \in [Cells -> Word]
    BY <1>0, <1>2
  <1>4. \A n \in moved : Cell(new, n) \in Cells
    BY <1>1, RegistersAssumption DEF Cell
  <1>5. regs \in [Registers -> Word]
    BY <1>0, <1>3, <1>4
  <1>6. SetMode(c, m) = [c EXCEPT !.saved = cells, !.r = regs, !.psr = [@ EXCEPT !.mode = m]]
    BY <1>0 DEF SetMode
  <1> HIDE DEF cells, regs
  <1>7. [c.psr EXCEPT !.mode = m] \in Psr /\ [c.psr EXCEPT !.mode = m].mode = m
    BY <1>0 DEF Psr
  <1> QED
    BY <1>3, <1>5, <1>6, <1>7 DEF CpuState

\* A change of mode moves no value: each register of each mode has the value
\* that it had, whether it is visible or in its cell.
LEMMA SetModeMovesNothing ==
    ASSUME NEW c \in CpuState, NEW m \in Modes
    PROVE  FileOf(SetMode(c, m)) = FileOf(c)
  <1> DEFINE old   == BankIndex(c.psr.mode)
             new   == BankIndex(m)
             moved == {13, 14} \cup (IF (old = "fiq") # (new = "fiq") THEN High ELSE {})
             cells == [k \in Cells |-> IF k[2] \in moved /\ k = Cell(old, k[2]) THEN c.r[k[2]] ELSE c.saved[k]]
             regs  == [n \in Registers |-> IF n \in moved THEN cells[Cell(new, n)] ELSE c.r[n]]
             All   == Cells \cup ({"all"} \X Unbanked)
             s     == SetMode(c, m)
  <1>0. c.psr.mode \in Modes /\ c.psr \in Psr /\ c.r \in [Registers -> Word] /\ c.saved \in [Cells -> Word]
    BY DEF CpuState, Psr
  <1>1. new \in Banks /\ old \in Banks
    BY <1>0 DEF BankIndex
  <1>2. s.r = regs /\ s.saved = cells /\ s.psr.mode = m
    BY <1>0 DEF SetMode, CpuState, Psr
  <1>3. SUFFICES ASSUME NEW k \in All PROVE FileOf(s)[k] = FileOf(c)[k]
    BY DEF FileOf
  <1>4. FileOf(s)[k] = (IF k[2] \in Unbanked \/ k = Cell(new, k[2]) THEN s.r[k[2]] ELSE s.saved[k])
    BY <1>2 DEF FileOf
  <1>5. FileOf(c)[k] = (IF k[2] \in Unbanked \/ k = Cell(old, k[2]) THEN c.r[k[2]] ELSE c.saved[k])
    BY DEF FileOf
  <1>6. CASE k[2] \in Unbanked
    <2> HIDE DEF cells, regs, s
    <2>1. k[2] \notin moved
      <3>1. moved \subseteq {13, 14} \cup High
        OBVIOUS
      <3>2. k[2] \notin {13, 14} \cup High
        BY <1>6, Disjoint
      <3> QED BY <3>1, <3>2
    <2>2. k[2] \in Registers
      BY <1>6
    <2>3. s.r[k[2]] = c.r[k[2]]
      BY <1>2, <2>1, <2>2 DEF regs
    <2> QED BY <1>4, <1>5, <1>6, <2>3
  <1>7. CASE k[2] \notin Unbanked
    <2>1. k \in Cells /\ k[2] \in High \cup {13, 14} /\ k[2] \in Registers
      BY <1>7, RegistersAssumption
    <2>2. CASE k[2] \in moved
      <3>1. Cell(new, k[2]) \in Cells
        BY <1>1, <2>1, RegistersAssumption DEF Cell
      <3>2. CASE k = Cell(new, k[2])
        BY <1>2, <1>4, <1>5, <1>7, <2>1, <2>2, <3>1, <3>2
      <3>3. CASE k # Cell(new, k[2])
        BY <1>2, <1>4, <1>5, <1>7, <2>1, <2>2, <3>1, <3>3
      <3> QED BY <3>2, <3>3
    <2>3. CASE k[2] \notin moved
      <3>1. Cell(new, k[2]) = Cell(old, k[2])
        BY <2>1, <2>3, RegistersAssumption DEF Cell
      <3> QED BY <1>2, <1>4, <1>5, <1>7, <2>1, <2>3, <3>1
    <2> QED BY <2>2, <2>3
  <1> QED BY <1>6, <1>7

-----------------------------------------------------------------------------
(* What each operation of the registers writes                                *)

Spots == Cells \cup ({"all"} \X Unbanked)

\* A write of a register changes the cell of the current mode only.
LEMMA WriteRegWrites ==
    ASSUME NEW c \in CpuState, NEW n \in Registers, NEW v \in Word
    PROVE  /\ WriteReg(c, n, v) \in CpuState
           /\ WriteReg(c, n, v).psr = c.psr /\ WriteReg(c, n, v).spsr = c.spsr
           /\ \A k \in Spots : FileOf(WriteReg(c, n, v))[k] # FileOf(c)[k] => k = Flat!Home(c.psr.mode, n)
  <1> DEFINE w == WriteReg(c, n, v)
  <1>1. w.r = [c.r EXCEPT ![n] = v] /\ w.saved = c.saved /\ w.psr = c.psr /\ w.spsr = c.spsr
    BY DEF WriteReg, CpuState
  <1>2. w \in CpuState
    BY <1>1 DEF WriteReg, CpuState
  <1>3. ASSUME NEW k \in Spots, FileOf(w)[k] # FileOf(c)[k] PROVE k = Flat!Home(c.psr.mode, n)
    <2>1. FileOf(w)[k] = (IF k[2] \in Unbanked \/ k = Cell(BankIndex(c.psr.mode), k[2]) THEN w.r[k[2]] ELSE c.saved[k])
      BY <1>1 DEF FileOf, Spots
    <2>2. FileOf(c)[k] = (IF k[2] \in Unbanked \/ k = Cell(BankIndex(c.psr.mode), k[2]) THEN c.r[k[2]] ELSE c.saved[k])
      BY DEF FileOf, Spots
    <2>3. k[2] = n /\ (k[2] \in Unbanked \/ k = Cell(BankIndex(c.psr.mode), k[2]))
      BY <1>1, <1>3, <2>1, <2>2 DEF CpuState
    <2>4. CASE n \in Unbanked
      <3>1. k \in {"all"} \X Unbanked
        BY <2>3, <2>4, Disjoint DEF Spots
      <3> QED BY <2>3, <2>4, <3>1 DEF Flat!Home
    <2>5. CASE n \notin Unbanked
      BY <2>3, <2>5 DEF Flat!Home, Flat!Cell, Flat!BankIndex, Cell, BankIndex
    <2> QED BY <2>4, <2>5
  <1> QED BY <1>1, <1>2, <1>3

\* A change of the status within a mode moves nothing.
LEMMA SetPsrWrites ==
    ASSUME NEW c \in CpuState, NEW psr \in Psr, psr.mode = c.psr.mode
    PROVE  /\ [c EXCEPT !.psr = psr] \in CpuState
           /\ FileOf([c EXCEPT !.psr = psr]) = FileOf(c)
  BY DEF CpuState, FileOf

\* A change of an SPSR moves nothing.
LEMMA SetSpsrWrites ==
    ASSUME NEW c \in CpuState, NEW spsr \in [Banks -> Psr]
    PROVE  /\ [c EXCEPT !.spsr = spsr] \in CpuState
           /\ FileOf([c EXCEPT !.spsr = spsr]) = FileOf(c)
  BY DEF CpuState, FileOf

\* MSR moves nothing, whether the mode changes or not.
LEMMA MsrWrites ==
    ASSUME NEW c \in CpuState, NEW value \in Psr
    PROVE  Msr(c, value) \in CpuState /\ FileOf(Msr(c, value)) = FileOf(c)
  <1>0. c.psr \in Psr /\ value.mode \in Modes
    BY DEF CpuState, Psr
  <1>1. CASE c.psr.mode = "usr"
    <2>1. Flags(c.psr, value) \in Psr /\ Flags(c.psr, value).mode = c.psr.mode
      BY <1>0 DEF Flags, Psr
    <2>2. Msr(c, value) = [c EXCEPT !.psr = Flags(c.psr, value)]
      BY <1>1 DEF Msr, CpuState
    <2> QED BY <2>1, <2>2, SetPsrWrites
  <1>2. CASE c.psr.mode # "usr" /\ value.mode # c.psr.mode
    <2> DEFINE s == SetMode(c, value.mode)
    <2>1. s \in CpuState /\ s.psr.mode = value.mode /\ FileOf(s) = FileOf(c)
      BY <1>0, SetModeType, SetModeMovesNothing
    <2>2. Msr(c, value) = [s EXCEPT !.psr = value]
      BY <1>2 DEF Msr
    <2> HIDE DEF s
    <2> QED BY <2>1, <2>2, SetPsrWrites
  <1>3. CASE c.psr.mode # "usr" /\ value.mode = c.psr.mode
    <2>1. Msr(c, value) = [c EXCEPT !.psr = value]
      BY <1>3 DEF Msr
    <2> QED BY <1>3, <2>1, SetPsrWrites
  <1> QED BY <1>1, <1>2, <1>3

\* The return from an exception moves nothing.
LEMMA RestoreWrites ==
    ASSUME NEW c \in CpuState
    PROVE  RestorePsr(c) \in CpuState /\ FileOf(RestorePsr(c)) = FileOf(c)
  <1> DEFINE psr == c.spsr[BankIndex(c.psr.mode)]
             s   == SetMode(c, psr.mode)
  <1>1. BankIndex(c.psr.mode) \in Banks
    BY DEF CpuState, Psr, BankIndex
  <1>2. psr \in Psr /\ psr.mode \in Modes
    BY <1>1 DEF CpuState, Psr
  <1>3. s \in CpuState /\ s.psr.mode = psr.mode /\ FileOf(s) = FileOf(c)
    BY <1>2, SetModeType, SetModeMovesNothing
  <1>4. RestorePsr(c) = [s EXCEPT !.psr = psr]
    BY DEF RestorePsr
  <1> HIDE DEF psr, s
  <1> QED BY <1>2, <1>3, <1>4, SetPsrWrites

\* An exception writes the return address of its mode and the pc.
LEMMA ExceptionWrites ==
    ASSUME NEW c \in CpuState, NEW mode \in Modes, NEW vector \in Word, NEW return \in Word
    PROVE  LET e == EnterException(c, mode, vector, return)
           IN /\ e \in CpuState /\ e.psr.mode = mode
              /\ \A k \in Spots : FileOf(e)[k] # FileOf(c)[k] =>
                    k \in {Flat!Home(mode, 14), Flat!Home(mode, 15)}
  <1> DEFINE s    == SetMode(c, mode)
             spsr == [s.spsr EXCEPT ![BankIndex(mode)] = c.psr]
             t    == [s EXCEPT !.spsr = spsr]
             psr  == [s.psr EXCEPT !.i = TRUE, !.t = FALSE]
             u    == [t EXCEPT !.psr = psr]
             w    == WriteReg(u, 14, return)
             x    == WriteReg(w, 15, vector)
             e    == EnterException(c, mode, vector, return)
  <1>1. s \in CpuState /\ s.psr.mode = mode /\ FileOf(s) = FileOf(c)
    BY SetModeType, SetModeMovesNothing
  <1> HIDE DEF s
  <1>2. spsr \in [Banks -> Psr]
    BY <1>1 DEF CpuState, BankIndex
  <1>3. t \in CpuState /\ t.psr = s.psr /\ FileOf(t) = FileOf(c)
    BY <1>1, <1>2, SetSpsrWrites DEF CpuState
  <1>4. psr \in Psr /\ psr.mode = mode
    BY <1>1 DEF CpuState, Psr
  <1>5. u \in CpuState /\ u.psr.mode = mode /\ FileOf(u) = FileOf(c)
    <2> HIDE DEF t, psr
    <2>1. u \in CpuState /\ FileOf(u) = FileOf(t)
      BY <1>1, <1>3, <1>4, SetPsrWrites
    <2>2. u.psr = psr
      BY <1>3 DEF CpuState
    <2> QED BY <1>3, <1>4, <2>1, <2>2
  <1>6. e = x
    BY <1>1 DEF EnterException, s, WriteReg, CpuState
  <1> HIDE DEF u, e
  <1>7. 14 \in Registers /\ 15 \in Registers
    BY RegistersAssumption
  <1>8. w \in CpuState /\ w.psr.mode = mode
          /\ \A k \in Spots : FileOf(w)[k] # FileOf(c)[k] => k = Flat!Home(mode, 14)
    <2>1. w \in CpuState /\ w.psr = u.psr
            /\ \A k \in Spots : FileOf(w)[k] # FileOf(u)[k] => k = Flat!Home(u.psr.mode, 14)
      BY <1>5, <1>7, WriteRegWrites
    <2> QED BY <1>5, <2>1
  <1> HIDE DEF w
  <1>9. x \in CpuState /\ x.psr.mode = mode
          /\ \A k \in Spots : FileOf(x)[k] # FileOf(w)[k] => k = Flat!Home(mode, 15)
    BY <1>7, <1>8, WriteRegWrites
  <1> HIDE DEF x
  <1>10. \A k \in Spots : FileOf(x)[k] # FileOf(c)[k] => FileOf(x)[k] # FileOf(w)[k] \/ FileOf(w)[k] # FileOf(c)[k]
    OBVIOUS
  <1>11. /\ e \in CpuState /\ e.psr.mode = mode
         /\ \A k \in Spots : FileOf(e)[k] # FileOf(c)[k] => k \in {Flat!Home(mode, 14), Flat!Home(mode, 15)}
    BY <1>6, <1>8, <1>9, <1>10
  <1> QED BY <1>11 DEF e

\* A "^" transfer writes the cells of User mode only.
LEMMA UserBankWrites ==
    ASSUME NEW c \in CpuState, NEW values \in [UserRegisters -> Word]
    PROVE  LET u == WriteUserBankRegs(c, values)
           IN /\ u \in CpuState /\ u.psr = c.psr
              /\ \A k \in Spots : FileOf(u)[k] # FileOf(c)[k] => k[2] \in UserRegisters /\ k = Flat!Home("usr", k[2])
  <1> DEFINE u     == WriteUserBankRegs(c, values)
             saved == [k \in Cells |-> IF k[2] \in UserRegisters /\ UsesCell(c, k[2]) /\ k = Cell("usr", k[2])
                                       THEN values[k[2]] ELSE c.saved[k]]
             regs  == [n \in Registers |-> IF n \in UserRegisters /\ ~UsesCell(c, n) THEN values[n] ELSE c.r[n]]
  <1>1. saved \in [Cells -> Word] /\ regs \in [Registers -> Word]
    BY DEF CpuState
  <1>2. u = [[c EXCEPT !.saved = saved] EXCEPT !.r = regs]
    BY DEF WriteUserBankRegs, CpuState, UsesCell
  <1>3. u \in CpuState /\ u.psr = c.psr /\ u.r = regs /\ u.saved = saved
    BY <1>1, <1>2 DEF CpuState
  <1> HIDE DEF u
  <1>4. ASSUME NEW k \in Spots, FileOf(u)[k] # FileOf(c)[k] PROVE k[2] \in UserRegisters /\ k = Flat!Home("usr", k[2])
    <2> DEFINE seen == k[2] \in Unbanked \/ k = Cell(BankIndex(c.psr.mode), k[2])
    <2>1. FileOf(u)[k] = (IF seen THEN u.r[k[2]] ELSE u.saved[k])
      BY <1>3 DEF FileOf, Spots
    <2>2. FileOf(c)[k] = (IF seen THEN c.r[k[2]] ELSE c.saved[k])
      BY DEF FileOf, Spots
    <2>3. k[2] \in Registers
      BY DEF Spots
    <2>4. c.psr.mode \in Modes
      BY DEF CpuState, Psr
    <2>5. CASE seen
      <3>1. k[2] \in UserRegisters /\ ~UsesCell(c, k[2])
        BY <1>3, <1>4, <2>1, <2>2, <2>3, <2>5
      <3>2. k[2] \notin Unbanked
        BY <3>1, Disjoint DEF UserRegisters
      <3>3. k = Cell(BankIndex(c.psr.mode), k[2])
        BY <2>5, <3>2
      <3>4. CASE k[2] \in {13, 14}
        BY <2>4, <3>1, <3>2, <3>3, <3>4 DEF UsesCell, Privileged, Cell, BankIndex, Flat!Home, Flat!Cell, Flat!BankIndex
      <3>5. CASE k[2] \in High /\ k[2] \notin {13, 14}
        BY <2>4, <3>1, <3>2, <3>3, <3>5 DEF UsesCell, Privileged, Cell, BankIndex, Flat!Home, Flat!Cell, Flat!BankIndex
      <3> QED BY <3>1, <3>4, <3>5 DEF UserRegisters
    <2>6. CASE ~seen
      <3>1. k \in Cells
        BY <2>6 DEF Spots
      <3>2. k[2] \notin Unbanked /\ k[2] \in UserRegisters /\ k = Cell("usr", k[2])
        BY <1>3, <1>4, <2>1, <2>2, <2>6, <3>1
      <3> QED BY <3>2 DEF Cell, Flat!Home, Flat!Cell, Flat!BankIndex
    <2> QED BY <2>5, <2>6
  <1> QED BY <1>3, <1>4 DEF u

-----------------------------------------------------------------------------
(* The steps                                                                  *)

HIDE DEF Word

LEMMA InitModes == ModesInit => ModesTypeOK /\ Flat!FileInit
  <1> SUFFICES ASSUME ModesInit PROVE ModesTypeOK /\ Flat!FileInit
    OBVIOUS
  <1>1. ResetPsr \in Psr /\ NoPsr \in Psr
    BY DEF ResetPsr, NoPsr, Psr
  <1>2. 0 \in Word
    BY RegistersAssumption DEF Word
  <1>3. cpu \in CpuState
    BY <1>1, <1>2 DEF ModesInit, CpuReset, CpuState
  <1>4. FileOf(cpu) \in [Spots -> Word] /\ cpu.psr.mode \in Modes
    BY <1>3, RegistersAssumption, ZenonT(60) DEF FileOf, CpuState, Spots, Psr
  <1>5. frames \in Seq(Frame)
    BY DEF ModesInit
  <1> QED
    BY <1>3, <1>4, <1>5 DEF ModesTypeOK, Flat!FileInit, Flat!AllCells, Flat!Cells, Flat!Banks, Flat!Modes,
       Flat!Word, Spots, Word

\* A step that writes cells of one mode, or the return address and the pc of
\* the mode after it, is a step of the flat file.
LEMMA WritesAreSteps ==
    ASSUME cpu \in CpuState, cpu' \in CpuState,
           \/ /\ cpu'.psr.mode = cpu.psr.mode
              /\ \E m \in {cpu.psr.mode, "usr"} :
                    \A k \in Spots : FileOf(cpu')[k] # FileOf(cpu)[k] => k = Flat!Home(m, k[2])
           \/ \A k \in Spots : FileOf(cpu')[k] # FileOf(cpu)[k] =>
                    k \in {Flat!Home(cpu'.psr.mode, 14), Flat!Home(cpu'.psr.mode, 15)}
    PROVE  Flat!FileStep
  <1>1. FileOf(cpu') \in [Spots -> Word] /\ cpu'.psr.mode \in Modes
    <2>1. cpu'.psr.mode \in Modes
      BY DEF CpuState, Psr
    <2>2. ASSUME NEW k \in Spots PROVE FileOf(cpu')[k] \in Word
      <3>1. FileOf(cpu')[k] = (IF k[2] \in Unbanked \/ k = Cell(BankIndex(cpu'.psr.mode), k[2]) THEN cpu'.r[k[2]]
                              ELSE cpu'.saved[k])
        BY DEF FileOf, Spots
      <3>2. k[2] \in Unbanked => cpu'.r[k[2]] \in Word
        BY DEF CpuState
      <3>3. k[2] \notin Unbanked => k[2] \in Registers /\ k \in Cells
        BY DEF Spots
      <3>4. k[2] \notin Unbanked => cpu'.r[k[2]] \in Word /\ cpu'.saved[k] \in Word
        BY <3>3 DEF CpuState
      <3> QED BY <3>1, <3>2, <3>4
    <2>3. FileOf(cpu') = [k \in Spots |-> FileOf(cpu')[k]]
      BY DEF FileOf, Spots
    <2> QED BY <2>1, <2>2, <2>3
  <1>2. Flat!AllCells = Spots /\ Flat!Word = Word /\ Flat!Modes = Modes
    BY DEF Flat!AllCells, Flat!Cells, Flat!Banks, Flat!Modes, Flat!Word, Spots, Word
  <1>3. Flat!Home(cpu'.psr.mode, 14)[2] = 14 /\ Flat!Home(cpu'.psr.mode, 15)[2] = 15
    BY RegistersAssumption DEF Flat!Home, Flat!Cell
  <1>4. CASE cpu'.psr.mode # cpu.psr.mode
    BY <1>1, <1>2, <1>4 DEF Flat!FileStep, Flat!ChangeMode
  <1>5. CASE cpu'.psr.mode = cpu.psr.mode
    <2>1. \E m \in {cpu.psr.mode, "usr"} :
             \A k \in Spots : FileOf(cpu')[k] # FileOf(cpu)[k] => k = Flat!Home(m, k[2])
      BY <1>3, <1>5
    <2> QED BY <1>1, <1>2, <1>5, <2>1 DEF Flat!FileStep, Flat!Work, Flat!WritesThrough
  <1> QED BY <1>4, <1>5

\* What a handler keeps has its type.
LEMMA FramesType ==
    ASSUME frames \in Seq(Frame)
    PROVE  /\ Handling => Top \in Frame
           /\ \A f \in Frame : Handling /\ Keep(f) => frames' \in Seq(Frame)
           /\ Suspend => frames' \in Seq(Frame)
           /\ Handling /\ frames' = Front(frames) => frames' \in Seq(Frame)
  <1>1. Handling => Len(frames) \in 1..Len(frames)
    BY DEF Handling
  <1>2. Handling => Top \in Frame
    BY <1>1, ElementOfSeq DEF Top, Last
  <1>3. \A f \in Frame : Handling /\ Keep(f) => frames' \in Seq(Frame)
    BY <1>1, ExceptSeq DEF Keep
  <1>4. NewFrame \in Frame
    <2>1. 0 \in Word
      BY RegistersAssumption DEF Word
    <2>2. NoPsr \in Psr
      BY DEF NoPsr, ResetPsr, Psr
    <2> QED BY <2>1, <2>2 DEF NewFrame, Frame
  <1>5. Suspend => frames' \in Seq(Frame)
    BY <1>4, AppendProperties DEF Suspend
  <1>6. Handling /\ frames' = Front(frames) => frames' \in Seq(Frame)
    <2>1. \A i \in 1..(Len(frames) - 1) : frames[i] \in Frame
      BY ElementOfSeq
    <2>2. Len(frames) \in Nat
      OBVIOUS
    <2> QED BY <2>1, <2>2, SubSeqProperties DEF Front
  <1> QED BY <1>2, <1>3, <1>5, <1>6

LEMMA StepModes ==
    ASSUME ModesTypeOK, [ModesNext]_modesVars
    PROVE  ModesTypeOK' /\ [Flat!FileStep]_<<FileOf(cpu), cpu.psr.mode>>
  <1> DEFINE ToMode  == \A k \in Spots : FileOf(cpu')[k] # FileOf(cpu)[k] =>
                          k \in {Flat!Home(cpu'.psr.mode, 14), Flat!Home(cpu'.psr.mode, 15)}
             InMode(m) == /\ cpu'.psr.mode = cpu.psr.mode
                          /\ \A k \in Spots : FileOf(cpu')[k] # FileOf(cpu)[k] => k = Flat!Home(m, k[2])
  <1>0. cpu \in CpuState /\ frames \in Seq(Frame) /\ cpu.psr \in Psr /\ cpu.psr.mode \in Modes
          /\ cpu.r \in [Registers -> Word] /\ {13, 14, 15} \subseteq Registers
    BY RegistersAssumption DEF ModesTypeOK, CpuState, Psr
  <1>q. \A n \in Registers, m \in Modes : Flat!Home(m, n)[2] = n
    BY DEF Flat!Home, Flat!Cell
  <1> SUFFICES \/ /\ cpu' \in CpuState /\ frames' \in Seq(Frame)
                  /\ \/ ToMode \/ InMode(cpu.psr.mode) \/ InMode("usr")
               \/ cpu' = cpu /\ frames' = frames
    BY <1>0, WritesAreSteps DEF ModesTypeOK
  <1>1. CASE Compute
    <2>1. PICK n \in Owned, v \in Values : cpu' = WriteReg(cpu, n, v)
      BY <1>1 DEF Compute
    <2>2. n \in Registers /\ v \in Word
      BY <2>1, CpuModesAssumption DEF Owned
    <2>3. /\ cpu' \in CpuState /\ cpu'.psr = cpu.psr
          /\ \A k \in Spots : FileOf(cpu')[k] # FileOf(cpu)[k] => k = Flat!Home(cpu.psr.mode, n)
      BY <1>0, <2>1, <2>2, WriteRegWrites
    <2>4. InMode(cpu.psr.mode)
      BY <1>0, <1>q, <2>2, <2>3
    <2> QED BY <1>0, <1>1, <2>3, <2>4 DEF Compute
  <1>2. CASE ChangeState
    <2>1. CASE cpu' = [cpu EXCEPT !.psr = [cpu.psr EXCEPT !.t = ~cpu.psr.t]]
      <3> DEFINE psr == [cpu.psr EXCEPT !.t = ~cpu.psr.t]
      <3>0. cpu.psr.t \in BOOLEAN
        BY <1>0 DEF Psr
      <3>1. psr \in Psr /\ psr.mode = cpu.psr.mode
        BY <1>0, <3>0 DEF Psr
      <3>2. cpu' = [cpu EXCEPT !.psr = psr]
        BY <2>1
      <3> HIDE DEF psr
      <3>3. cpu' \in CpuState /\ FileOf(cpu') = FileOf(cpu)
        BY <1>0, <3>1, <3>2, SetPsrWrites
      <3> QED BY <1>0, <1>2, <3>3 DEF ChangeState
    <2>2. CASE cpu' = Msr(cpu, [cpu.psr EXCEPT !.mode = "svc", !.i = TRUE, !.c = ~@])
      <3>1. [cpu.psr EXCEPT !.mode = "svc", !.i = TRUE, !.c = ~@] \in Psr
        BY <1>0 DEF Psr
      <3>2. cpu' \in CpuState /\ FileOf(cpu') = FileOf(cpu)
        BY <1>0, <2>2, <3>1, MsrWrites
      <3> QED BY <1>0, <1>2, <3>2 DEF ChangeState
    <2> QED BY <1>2, <2>1, <2>2 DEF ChangeState
  <1>3. CASE Fiq
    <2> DEFINE e == EnterException(cpu, "fiq", FiqVector, Add(cpu.r[15], 4))
               psr == [e.psr EXCEPT !.f = TRUE]
    <2>1. Add(cpu.r[15], 4) \in Word /\ FiqVector \in Word
      BY <1>0, RegistersAssumption DEF Word, Add, FiqVector
    <2>2. /\ e \in CpuState /\ e.psr.mode = "fiq"
          /\ \A k \in Spots : FileOf(e)[k] # FileOf(cpu)[k] => k \in {Flat!Home("fiq", 14), Flat!Home("fiq", 15)}
      BY <1>0, <2>1, ExceptionWrites
    <2>3. cpu' = [e EXCEPT !.psr = psr]
      BY <1>3 DEF Fiq, TakeFiq
    <2> HIDE DEF e
    <2>4. psr \in Psr /\ psr.mode = e.psr.mode
      BY <2>2 DEF CpuState, Psr
    <2>5. cpu'.psr = psr
      BY <2>2, <2>3 DEF CpuState
    <2> HIDE DEF psr
    <2>6. cpu' \in CpuState /\ FileOf(cpu') = FileOf(e)
      BY <2>2, <2>3, <2>4, SetPsrWrites
    <2> QED BY <1>0, <1>3, <2>2, <2>4, <2>5, <2>6, FramesType DEF Fiq
  <1>4. CASE Irq
    <2>1. Add(cpu.r[15], 4) \in Word /\ IrqVector \in Word
      BY <1>0, RegistersAssumption DEF Word, Add, IrqVector
    <2> DEFINE e == EnterException(cpu, "irq", IrqVector, Add(cpu.r[15], 4))
    <2>2. /\ e \in CpuState /\ e.psr.mode = "irq"
          /\ \A k \in Spots : FileOf(e)[k] # FileOf(cpu)[k] => k \in {Flat!Home("irq", 14), Flat!Home("irq", 15)}
      BY <1>0, <2>1, ExceptionWrites
    <2>3. cpu' = e
      BY <1>4 DEF Irq, TakeIrq
    <2> HIDE DEF e
    <2> QED BY <1>0, <1>4, <2>2, <2>3, FramesType DEF Irq
  <1>5. CASE CallKernel
    <2>1. Add(cpu.r[15], 4) \in Word /\ Add(cpu.r[15], 2) \in Word /\ SwiVector \in Word
      BY <1>0, RegistersAssumption, SMTT(30) DEF Word, Add, SwiVector
    <2>2. \/ cpu' = EnterException(cpu, "svc", SwiVector, Add(cpu.r[15], 2))
          \/ cpu' = EnterException(cpu, "svc", SwiVector, Add(cpu.r[15], 4))
      BY <1>5 DEF CallKernel, Swi, ThumbSwi
    <2>3. ASSUME NEW to \in Word, cpu' = EnterException(cpu, "svc", SwiVector, to)
          PROVE  cpu' \in CpuState /\ ToMode
      <3> DEFINE e == EnterException(cpu, "svc", SwiVector, to)
      <3>1. /\ e \in CpuState /\ e.psr.mode = "svc"
            /\ \A k \in Spots : FileOf(e)[k] # FileOf(cpu)[k] => k \in {Flat!Home("svc", 14), Flat!Home("svc", 15)}
        BY <1>0, <2>1, ExceptionWrites
      <3>2. cpu' = e
        BY <2>3
      <3> HIDE DEF e
      <3> QED BY <3>1, <3>2
    <2> QED BY <1>0, <1>5, <2>1, <2>2, <2>3, FramesType DEF CallKernel
  <1>6. CASE EnableNesting
    <2> DEFINE f == [Top EXCEPT !.nested = TRUE, !.spsr = Mrs(cpu, TRUE), !.lr = cpu.r[14]]
    <2>1. Mrs(cpu, TRUE) \in Psr
      BY <1>0 DEF Mrs, CpuState, BankIndex
    <2>2. f \in Frame
      BY <1>0, <1>6, <2>1, FramesType DEF EnableNesting, Frame
    <2>3. [Mrs(cpu, FALSE) EXCEPT !.i = FALSE] \in Psr
      BY <1>0 DEF Mrs, Psr
    <2>4. cpu' \in CpuState /\ FileOf(cpu') = FileOf(cpu)
      BY <1>0, <1>6, <2>3, MsrWrites DEF EnableNesting
    <2> QED BY <1>0, <1>6, <2>2, <2>4, FramesType DEF EnableNesting
  <1>7. CASE EndNesting
    <2> DEFINE value == [Mrs(cpu, FALSE) EXCEPT !.i = TRUE]
               masked == Msr(cpu, value)
               w == WriteReg(masked, 14, Top.lr)
               spsr == [w.spsr EXCEPT ![BankIndex(w.psr.mode)] = Top.spsr]
    <2>1. Top \in Frame
      BY <1>0, <1>7, FramesType DEF EndNesting
    <2>2. value \in Psr /\ value.mode = cpu.psr.mode
      BY <1>0 DEF Mrs, Psr
    <2>3. masked \in CpuState /\ FileOf(masked) = FileOf(cpu)
      BY <1>0, <2>2, MsrWrites
    <2>4. masked.psr.mode = cpu.psr.mode
      BY <1>0, <2>2 DEF Msr, Flags, CpuState, Psr
    <2> HIDE DEF masked
    <2>5. /\ w \in CpuState /\ w.psr.mode = cpu.psr.mode
          /\ \A k \in Spots : FileOf(w)[k] # FileOf(cpu)[k] => k = Flat!Home(cpu.psr.mode, 14)
      <3>1. Top.lr \in Word /\ 14 \in Registers
        BY <2>1 DEF Frame
      <3>2. /\ w \in CpuState /\ w.psr = masked.psr
            /\ \A k \in Spots : FileOf(w)[k] # FileOf(masked)[k] => k = Flat!Home(masked.psr.mode, 14)
        BY <2>3, <3>1, WriteRegWrites
      <3> QED BY <2>3, <2>4, <3>2
    <2>6. cpu' = [w EXCEPT !.spsr = spsr]
      BY <1>7 DEF EndNesting, MsrSpsr, masked
    <2> HIDE DEF w
    <2>7. spsr \in [Banks -> Psr]
      BY <2>1, <2>5 DEF Frame, CpuState
    <2>8. cpu'.psr = w.psr
      BY <2>5, <2>6 DEF CpuState
    <2> HIDE DEF spsr
    <2>9. cpu' \in CpuState /\ FileOf(cpu') = FileOf(w)
      BY <2>5, <2>6, <2>7, SetSpsrWrites
    <2>10. frames' \in Seq(Frame)
      <3>1. [Top EXCEPT !.nested = FALSE] \in Frame
        BY <2>1 DEF Frame
      <3> QED BY <1>0, <1>7, <3>1, FramesType DEF EndNesting
    <2> QED BY <1>0, <2>5, <2>8, <2>9, <2>10
  <1>8. CASE Hop
    <2>1. PICK mode \in Modes \ {"usr"} :
             cpu' = Msr(cpu, [Mrs(cpu, FALSE) EXCEPT !.mode = mode, !.i = TRUE, !.f = TRUE])
      BY <1>8 DEF Hop
    <2>2. [Mrs(cpu, FALSE) EXCEPT !.mode = mode, !.i = TRUE, !.f = TRUE] \in Psr
      BY <1>0 DEF Mrs, Psr
    <2>3. cpu' \in CpuState /\ FileOf(cpu') = FileOf(cpu)
      BY <1>0, <2>1, <2>2, MsrWrites
    <2>4. [Top EXCEPT !.hops = TRUE, !.hop = Mrs(cpu, FALSE)] \in Frame
      BY <1>0, <1>8, FramesType DEF Hop, Frame, Mrs
    <2> QED BY <1>0, <1>8, <2>3, <2>4, FramesType DEF Hop
  <1>9. CASE HopBack
    <2>1. Top \in Frame
      BY <1>0, <1>9, FramesType DEF HopBack
    <2>2. cpu' \in CpuState /\ FileOf(cpu') = FileOf(cpu)
      BY <1>0, <1>9, <2>1, MsrWrites DEF HopBack, Frame
    <2>3. [Top EXCEPT !.hops = FALSE] \in Frame
      BY <2>1 DEF Frame
    <2> QED BY <1>0, <1>9, <2>2, <2>3, FramesType DEF HopBack
  <1>10. CASE SwapUser
    <2>1. PICK value \in Values : cpu' = WriteUserBankRegs(cpu, [n \in UserRegisters |-> value])
      BY <1>10 DEF SwapUser
    <2>2. [n \in UserRegisters |-> value] \in [UserRegisters -> Word]
      BY <2>1, CpuModesAssumption
    <2>3. cpu' \in CpuState /\ InMode("usr")
      BY <1>0, <2>1, <2>2, UserBankWrites
    <2>4. [n \in UserRegisters |-> ReadUserBankReg(cpu, n)] \in [UserRegisters -> Word]
      <3>1. SUFFICES ASSUME NEW n \in UserRegisters PROVE ReadUserBankReg(cpu, n) \in Word
        OBVIOUS
      <3>2. n \in Registers /\ Cell("usr", n) \in Cells
        BY DEF UserRegisters, Cell
      <3> QED BY <1>0, <3>2 DEF ReadUserBankReg, CpuState
    <2>5. [Top EXCEPT !.swapped = TRUE, !.user = [n \in UserRegisters |-> ReadUserBankReg(cpu, n)]] \in Frame
      BY <1>0, <1>10, <2>4, FramesType DEF SwapUser, Frame
    <2> QED BY <1>0, <1>10, <2>3, <2>5, FramesType DEF SwapUser
  <1>11. CASE SwapBack
    <2>1. Top \in Frame
      BY <1>0, <1>11, FramesType DEF SwapBack
    <2>2. cpu' \in CpuState /\ InMode("usr")
      BY <1>0, <1>11, <2>1, UserBankWrites DEF SwapBack, Frame
    <2>3. [Top EXCEPT !.swapped = FALSE] \in Frame
      BY <2>1 DEF Frame
    <2> QED BY <1>0, <1>11, <2>2, <2>3, FramesType DEF SwapBack
  <1>12. CASE Return
    <2> DEFINE s == RestorePsr(cpu)
               back == IF cpu.psr.mode = "svc" THEN cpu.r[14] ELSE (cpu.r[14] + Span - 4) % Span
    <2>1. s \in CpuState /\ FileOf(s) = FileOf(cpu)
      BY <1>0, RestoreWrites
    <2>2. back \in Word
      BY <1>0, RegistersAssumption, SMTT(30) DEF Word
    <2>3. cpu' = WriteReg(s, 15, back)
      BY <1>12 DEF Return
    <2> HIDE DEF s, back
    <2>4. cpu' \in CpuState /\ ToMode
      BY <1>0, <2>1, <2>2, <2>3, WriteRegWrites
    <2> QED BY <1>0, <1>12, <2>4, FramesType DEF Return
  <1>13. CASE UNCHANGED modesVars
    BY <1>13 DEF modesVars
  <1> QED
    BY <1>1, <1>2, <1>3, <1>4, <1>5, <1>6, <1>7, <1>8, <1>9, <1>10, <1>11, <1>12, <1>13 DEF ModesNext

\* The registers hold words and handlers keep words and statuses, at each step
\* of programs, exceptions and handlers (arm7tdmi_t, cpu.h:52).
THEOREM ModesTypeCorrect == ModesSpec => []ModesTypeOK
  <1>1. ModesInit => ModesTypeOK
    BY InitModes
  <1>2. ModesTypeOK /\ [ModesNext]_modesVars => ModesTypeOK'
    BY StepModes
  <1> QED BY <1>1, <1>2, PTL DEF ModesSpec

\* Programs, exceptions and handlers that use the banks of cpu.c behave as
\* with one flat file of registers: no change of mode loses, moves or shares a
\* value (arm_set_mode, arm_enter_exception, exec_msr, the "^" transfers).
THEOREM ModesImplementFile == ModesSpec => ImplementsRegisterFile
  <1>1. ModesInit => Flat!FileInit
    BY InitModes
  <1>2. ModesTypeOK /\ [ModesNext]_modesVars => [Flat!FileStep]_<<FileOf(cpu), cpu.psr.mode>>
    BY StepModes
  <1> QED BY <1>1, <1>2, ModesTypeCorrect, PTL DEF ModesSpec, ImplementsRegisterFile, Flat!RegisterFileSpec

-----------------------------------------------------------------------------
(* What a handler leaves for the program that it interrupted                  *)

Levels == {"usr", "svc", "irq", "fiq"}
Rank   == [usr |-> 0, svc |-> 1, irq |-> 2, fiq |-> 3]
View   == [r : [Registers -> Word], psr : Psr]

\* The cells that a mode other than User mode has to itself, and the cells of
\* User mode of which another mode has a copy.
Private(m, k) == m # "usr" /\ k = Flat!Home(m, k[2]) /\ k # Flat!Home("usr", k[2])
UserSpot(k)   == k[2] \in UserRegisters /\ k = Flat!Home("usr", k[2])

\* The status of the code at a level of nesting: what an exception suspended,
\* or the handler that runs, without the mode that it visits.
Running(c, s, fr)   == IF Len(s) > 0 /\ fr[Len(s)].hops THEN fr[Len(s)].hop ELSE c.psr
Status(c, s, fr, k) == IF k <= Len(s) THEN s[k].psr ELSE Running(c, s, fr)

\* The interrupts that each level leaves enabled.
Masks(psr, nested) ==
    /\ psr.mode = "usr" => ~psr.i /\ ~psr.f
    /\ psr.mode = "svc" => (psr.i <=> ~nested) /\ ~psr.f
    /\ psr.mode = "irq" => psr.i /\ ~psr.f
    /\ psr.mode = "fiq" => psr.i /\ psr.f

\* A level never interrupts itself or a higher one.
Ladder(c, s, fr) ==
    /\ Len(fr) = Len(s)
    /\ \A k \in 1..Len(s) + 1 : Status(c, s, fr, k).mode \in Levels
    /\ Status(c, s, fr, 1).mode = "usr"
    /\ \A k \in 1..Len(s) + 1 : \A j \in 1..k - 1 :
          Rank[Status(c, s, fr, j).mode] < Rank[Status(c, s, fr, k).mode]
    /\ \A k \in 1..Len(s) + 1 : Masks(Status(c, s, fr, k), k > 1 /\ fr[k - 1].nested)
    /\ \A k \in 1..Len(s) : fr[k].hops => k = Len(s) /\ c.psr.i /\ c.psr.f /\ c.psr.mode # "usr"

\* Where the return address and the status of the level below are: in r14 and
\* the SPSR of the mode, or in what the handler kept of them.
Link(c, f, m)     == IF f.nested THEN f.lr ELSE FileOf(c)[Flat!Home(m, 14)]
SavedPsr(c, f, m) == IF f.nested THEN f.spsr ELSE c.spsr[m]
Back(m, link)     == IF m = "svc" THEN link ELSE (link + Span - 4) % Span

\* The registers of User mode as each level sees them.
UserAt(c, s, fr, user) ==
    /\ \A n \in UserRegisters : user[Len(s) + 1][n] = FileOf(c)[Flat!Home("usr", n)]
    /\ \A k \in 1..Len(s) : \A n \in UserRegisters :
          user[k][n] = IF fr[k].swapped THEN fr[k].user[n] ELSE user[k + 1][n]

\* Each register that suspended code saw is in its cell, or a task switch
\* keeps it, and its pc and its status are where the handler returns from.
Resumes(c, s, fr, user) ==
    \A k \in 1..Len(s) :
        /\ s[k].r[15] = Back(Status(c, s, fr, k + 1).mode, Link(c, fr[k], Status(c, s, fr, k + 1).mode))
        /\ s[k].psr = SavedPsr(c, fr[k], Status(c, s, fr, k + 1).mode)
        /\ \A n \in Registers \ {15} :
              s[k].r[n] = IF UserSpot(Flat!Home(s[k].psr.mode, n)) THEN user[k][n]
                          ELSE FileOf(c)[Flat!Home(s[k].psr.mode, n)]

Keeps(c, s, fr, user) == Ladder(c, s, fr) /\ UserAt(c, s, fr, user) /\ Resumes(c, s, fr, user)

Transparent ==
    /\ ModesTypeOK
    /\ suspended \in Seq(View)
    /\ \E user : Keeps(cpu, suspended, frames, user)

-----------------------------------------------------------------------------
\* Where the registers of a mode are.
LEMMA Homes ==
    ASSUME NEW m \in Modes, NEW n \in Registers
    PROVE  Flat!Home(m, n) \in Spots /\ Flat!Home(m, n)[2] = n
  <1>1. Flat!Home(m, n)[2] = n
    BY DEF Flat!Home, Flat!Cell
  <1>2. Flat!BankIndex(m) \in Banks
    BY DEF Flat!BankIndex
  <1>3. Flat!Home(m, n) \in Spots
    <2>1. CASE n \in Unbanked
      BY <2>1 DEF Flat!Home, Spots
    <2>2. CASE n \notin Unbanked /\ n \in {13, 14}
      BY <1>2, <2>2 DEF Flat!Home, Flat!Cell, Spots
    <2>3. CASE n \notin Unbanked /\ n \notin {13, 14}
      <3>1. n \in High
        BY <2>3
      <3> QED BY <2>3, <3>1 DEF Flat!Home, Flat!Cell, Spots
    <2> QED BY <2>1, <2>2, <2>3
  <1> QED BY <1>1, <1>3

\* No level has a cell that is private to another one, and the r14 of a level
\* is private.
LEMMA PrivateCells ==
    /\ \A m, o \in Levels, n \in Registers : m # o => ~Private(o, Flat!Home(m, n))
    /\ \A m \in Levels, n \in Registers : m # "usr" /\ n \in {13, 14} => Private(m, Flat!Home(m, n))
    /\ \A n \in High : Private("fiq", Flat!Home("fiq", n))
    /\ \A m \in Levels, n \in Registers : ~(Private(m, Flat!Home(m, n)) /\ UserSpot(Flat!Home(m, n)))
  <1>1. ASSUME NEW m \in Levels, NEW o \in Levels, NEW n \in Registers, m # o, Private(o, Flat!Home(m, n))
        PROVE  FALSE
    <2>1. m \in Modes /\ o \in Modes
      BY DEF Levels
    <2>2. Flat!Home(m, n) = Flat!Home(o, n) /\ Flat!Home(m, n) # Flat!Home("usr", n) /\ o # "usr"
      BY <1>1, <2>1, Homes DEF Private
    <2>3. n \notin Unbanked
      BY <2>2 DEF Flat!Home
    <2>4. CASE n \in {13, 14}
      BY <1>1, <2>2, <2>3, <2>4 DEF Flat!Home, Flat!Cell, Flat!BankIndex, Levels
    <2>5. CASE n \notin {13, 14}
      BY <1>1, <2>2, <2>3, <2>5 DEF Flat!Home, Flat!Cell, Flat!BankIndex, Levels
    <2> QED BY <2>4, <2>5
  <1>2. ASSUME NEW m \in Levels, NEW n \in Registers, m # "usr", n \in {13, 14} PROVE Private(m, Flat!Home(m, n))
    <2>1. m \in Modes
      BY DEF Levels
    <2>2. Flat!Home(m, n)[2] = n
      BY <2>1, Homes
    <2>3. n \notin Unbanked
      BY <1>2, Disjoint
    <2> QED BY <1>2, <2>2, <2>3 DEF Private, Flat!Home, Flat!Cell, Flat!BankIndex, Levels
  <1>3. ASSUME NEW n \in High PROVE Private("fiq", Flat!Home("fiq", n))
    <2>1. Flat!Home("fiq", n)[2] = n
      BY Homes
    <2>2. n \notin Unbanked /\ n \notin {13, 14}
      BY Disjoint, RegistersAssumption
    <2> QED BY <2>1, <2>2 DEF Private, Flat!Home, Flat!Cell, Flat!BankIndex
  <1>4. ASSUME NEW m \in Levels, NEW n \in Registers, Private(m, Flat!Home(m, n)), UserSpot(Flat!Home(m, n))
        PROVE  FALSE
    BY <1>4 DEF Private, UserSpot
  <1> QED BY <1>1, <1>2, <1>3, <1>4

\* The registers of the current mode are its cells.
LEMMA SeenIsFile ==
    ASSUME NEW c \in CpuState, NEW n \in Registers
    PROVE  c.r[n] = FileOf(c)[Flat!Home(c.psr.mode, n)]
  <1>1. c.psr.mode \in Modes
    BY DEF CpuState, Psr
  <1>2. Flat!Home(c.psr.mode, n) \in Spots /\ Flat!Home(c.psr.mode, n)[2] = n
    BY <1>1, Homes
  <1>3. n \in Unbanked \/ Flat!Home(c.psr.mode, n) = Cell(BankIndex(c.psr.mode), n)
    BY DEF Flat!Home, Flat!Cell, Flat!BankIndex, Cell, BankIndex
  <1> DEFINE k == Flat!Home(c.psr.mode, n)
  <1> HIDE DEF k
  <1>4. FileOf(c)[k] = (IF k[2] \in Unbanked \/ k = Cell(BankIndex(c.psr.mode), k[2]) THEN c.r[k[2]]
                        ELSE c.saved[k])
    BY <1>2 DEF FileOf, Spots, k
  <1> QED BY <1>2, <1>3, <1>4 DEF k

\* A "^" transfer reads and writes the cells of User mode.
LEMMA UserIsFile ==
    ASSUME NEW c \in CpuState, NEW n \in UserRegisters
    PROVE  ReadUserBankReg(c, n) = FileOf(c)[Flat!Home("usr", n)]
  <1> DEFINE k == Flat!Home("usr", n)
  <1>0. c.psr.mode \in Modes /\ n \in Registers /\ n \notin Unbanked
    BY Disjoint DEF CpuState, Psr, UserRegisters
  <1>1. k \in Spots /\ k[2] = n
    BY <1>0, Homes
  <1>2. k = Cell("usr", n)
    BY <1>0 DEF Flat!Home, Flat!Cell, Flat!BankIndex, Cell
  <1>3. FileOf(c)[k] = (IF k = Cell(BankIndex(c.psr.mode), n) THEN c.r[n] ELSE c.saved[k])
    <2> HIDE DEF k
    <2> QED BY <1>0, <1>1 DEF FileOf, Spots
  <1>4. UsesCell(c, n) <=> k # Cell(BankIndex(c.psr.mode), n)
    <2>1. CASE n \in {13, 14}
      BY <1>0, <1>2, <2>1 DEF UsesCell, Privileged, Cell, BankIndex
    <2>2. CASE n \in High /\ n \notin {13, 14}
      BY <1>0, <1>2, <2>2 DEF UsesCell, Privileged, Cell, BankIndex
    <2> QED BY <2>1, <2>2 DEF UserRegisters
  <1> QED BY <1>2, <1>3, <1>4 DEF ReadUserBankReg

LEMMA UserBankValues ==
    ASSUME NEW c \in CpuState, NEW values \in [UserRegisters -> Word]
    PROVE  LET u == WriteUserBankRegs(c, values)
           IN u.spsr = c.spsr /\ \A n \in UserRegisters : FileOf(u)[Flat!Home("usr", n)] = values[n]
  <1> DEFINE u     == WriteUserBankRegs(c, values)
             saved == [k \in Cells |-> IF k[2] \in UserRegisters /\ UsesCell(c, k[2]) /\ k = Cell("usr", k[2])
                                       THEN values[k[2]] ELSE c.saved[k]]
             regs  == [n \in Registers |-> IF n \in UserRegisters /\ ~UsesCell(c, n) THEN values[n] ELSE c.r[n]]
  <1>1. u = [[c EXCEPT !.saved = saved] EXCEPT !.r = regs]
    BY DEF WriteUserBankRegs, CpuState, UsesCell
  <1>2. u.spsr = c.spsr /\ u.psr = c.psr /\ u.r = regs /\ u.saved = saved
    BY <1>1 DEF CpuState
  <1>3. u \in CpuState
    BY UserBankWrites
  <1>4. ASSUME NEW n \in UserRegisters PROVE FileOf(u)[Flat!Home("usr", n)] = values[n]
    <2>1. FileOf(u)[Flat!Home("usr", n)] = ReadUserBankReg(u, n)
      BY <1>3, UserIsFile
    <2>2. UsesCell(u, n) <=> UsesCell(c, n)
      BY <1>2 DEF UsesCell
    <2>3. n \in Registers /\ Cell("usr", n) \in Cells /\ Cell("usr", n)[2] = n
      BY DEF UserRegisters, Cell
    <2>4. UsesCell(c, n) => u.saved[Cell("usr", n)] = values[n]
      <3> HIDE DEF u
      <3> QED BY <1>2, <2>3
    <2>5. ~UsesCell(c, n) => u.r[n] = values[n]
      <3> HIDE DEF u
      <3> QED BY <1>2, <2>3
    <2> QED BY <2>1, <2>2, <2>4, <2>5 DEF ReadUserBankReg
  <1> QED BY <1>2, <1>4

LEMMA SetModeStatus ==
    ASSUME NEW c \in CpuState, NEW m \in Modes
    PROVE  SetMode(c, m).spsr = c.spsr /\ SetMode(c, m).psr = [c.psr EXCEPT !.mode = m]
  BY DEF SetMode, CpuState

LEMMA MsrStatus ==
    ASSUME NEW c \in CpuState, NEW value \in Psr
    PROVE  /\ Msr(c, value).spsr = c.spsr
           /\ c.psr.mode # "usr" => Msr(c, value).psr = value
           /\ c.psr.mode = "usr" => Msr(c, value).psr = Flags(c.psr, value)
  <1>0. value.mode \in Modes
    BY DEF Psr
  <1>1. SetMode(c, value.mode) \in CpuState /\ SetMode(c, value.mode).spsr = c.spsr
    BY <1>0, SetModeType, SetModeStatus
  <1> QED BY <1>1 DEF Msr, CpuState

LEMMA RestoreStatus ==
    ASSUME NEW c \in CpuState
    PROVE  RestorePsr(c).spsr = c.spsr /\ RestorePsr(c).psr = c.spsr[BankIndex(c.psr.mode)]
  <1> DEFINE psr == c.spsr[BankIndex(c.psr.mode)]
  <1>0. BankIndex(c.psr.mode) \in Banks
    BY DEF CpuState, Psr, BankIndex
  <1>1. psr \in Psr /\ psr.mode \in Modes
    BY <1>0 DEF CpuState, Psr
  <1> HIDE DEF psr
  <1>2. SetMode(c, psr.mode) \in CpuState /\ SetMode(c, psr.mode).spsr = c.spsr
    BY <1>1, SetModeType, SetModeStatus
  <1>3. RestorePsr(c) = [SetMode(c, psr.mode) EXCEPT !.psr = psr]
    BY DEF RestorePsr, psr
  <1> QED BY <1>2, <1>3 DEF CpuState, psr

\* An exception keeps the status in the SPSR of its mode and the return address
\* in its r14.
LEMMA ExceptionValues ==
    ASSUME NEW c \in CpuState, NEW m \in {"svc", "irq", "fiq"}, NEW vector \in Word, NEW return \in Word
    PROVE  LET e == EnterException(c, m, vector, return)
           IN /\ e.psr.i /\ (e.psr.f <=> c.psr.f)
              /\ e.spsr[m] = c.psr /\ \A bank \in Banks \ {m} : e.spsr[bank] = c.spsr[bank]
              /\ FileOf(e)[Flat!Home(m, 14)] = return
  <1> DEFINE s == SetMode(c, m)
             e == EnterException(c, m, vector, return)
  <1>0. m \in Modes /\ BankIndex(m) = m /\ m \in Banks
    BY DEF BankIndex
  <1>1. s \in CpuState /\ s.spsr = c.spsr /\ s.psr = [c.psr EXCEPT !.mode = m]
    BY <1>0, SetModeType, SetModeStatus
  <1> HIDE DEF s
  <1>2. e = [s EXCEPT !.spsr = [@ EXCEPT ![BankIndex(m)] = c.psr],
                      !.r = [@ EXCEPT ![14] = return, ![15] = vector],
                      !.psr = [@ EXCEPT !.i = TRUE, !.t = FALSE]]
    BY DEF EnterException, s
  <1>3. /\ e.psr.i /\ (e.psr.f <=> c.psr.f)
        /\ e.spsr[m] = c.psr /\ \A bank \in Banks \ {m} : e.spsr[bank] = c.spsr[bank]
    <2>1. e.spsr = [c.spsr EXCEPT ![m] = c.psr]
      BY <1>0, <1>1, <1>2 DEF CpuState
    <2>2. e.psr = [s.psr EXCEPT !.i = TRUE, !.t = FALSE]
      BY <1>1, <1>2 DEF CpuState
    <2> HIDE DEF e
    <2>3. e.psr.i /\ (e.psr.f <=> c.psr.f)
      BY <1>1, <2>2 DEF CpuState, Psr
    <2> QED BY <1>0, <2>1, <2>3 DEF CpuState
  <1>4. e.r[14] = return
    <2>1. 14 \in Registers
      OBVIOUS
    <2>2. e.r = [s.r EXCEPT ![14] = return, ![15] = vector]
      BY <1>1, <1>2 DEF CpuState
    <2> QED BY <1>1, <2>1, <2>2 DEF CpuState
  <1>5. e \in CpuState /\ e.psr.mode = m
    BY <1>0, ExceptionWrites
  <1>6. e.r[14] = FileOf(e)[Flat!Home(e.psr.mode, 14)]
    BY <1>5, SeenIsFile
  <1> QED BY <1>3, <1>4, <1>5, <1>6

-----------------------------------------------------------------------------
\* What a step does to the level that runs, in mode m: it writes cells of its
\* own, and what it changes of the cells of User mode and of its return address
\* the handler keeps.
Stays(c, d, s, fr, gr, m) ==
    /\ Len(s) > 0 /\ Len(gr) = Len(fr) /\ \A k \in 1..Len(s) - 1 : gr[k] = fr[k]
    /\ Running(c, s, fr).mode = m /\ Running(d, s, gr).mode = m
    /\ Masks(Running(d, s, gr), gr[Len(s)].nested)
    /\ gr[Len(s)].hops => d.psr.i /\ d.psr.f /\ d.psr.mode # "usr"
    /\ \A bank \in Banks \ {m} : d.spsr[bank] = c.spsr[bank]
    /\ SavedPsr(d, gr[Len(s)], m) = SavedPsr(c, fr[Len(s)], m)
    /\ Link(d, gr[Len(s)], m) = Link(c, fr[Len(s)], m)
    /\ \A k \in Spots : FileOf(d)[k] # FileOf(c)[k] => Private(m, k) \/ UserSpot(k)
    /\ \A n \in UserRegisters :
          (IF gr[Len(s)].swapped THEN gr[Len(s)].user[n] ELSE FileOf(d)[Flat!Home("usr", n)])
            = (IF fr[Len(s)].swapped THEN fr[Len(s)].user[n] ELSE FileOf(c)[Flat!Home("usr", n)])

\* Such a step keeps what the levels below need.
LEMMA InPlace ==
    ASSUME NEW c \in CpuState, NEW d \in CpuState, NEW s \in Seq(View),
           NEW fr \in Seq(Frame), NEW gr \in Seq(Frame), NEW user, Keeps(c, s, fr, user),
           NEW m, Stays(c, d, s, fr, gr, m)
    PROVE  \E to : Keeps(d, s, gr, to)
  <1> USE DEF Stays
  <1> DEFINE N == Len(s)
             to == [k \in 1..N + 1 |-> [n \in UserRegisters |->
                       IF k = N + 1 THEN FileOf(d)[Flat!Home("usr", n)] ELSE user[k][n]]]
  <1>0. N \in Nat /\ N > 0 /\ Len(fr) = N /\ Len(gr) = N
    BY DEF Keeps, Ladder
  <1>s. /\ \A k \in 1..N : Status(d, s, gr, k) = s[k].psr /\ Status(c, s, fr, k) = s[k].psr
        /\ Status(d, s, gr, N + 1) = Running(d, s, gr) /\ Status(c, s, fr, N + 1) = Running(c, s, fr)
    BY <1>0 DEF Status
  <1>m. \A k \in 1..N + 1 : Status(d, s, gr, k).mode = Status(c, s, fr, k).mode
    <2>1. ASSUME NEW k \in 1..N + 1 PROVE Status(d, s, gr, k).mode = Status(c, s, fr, k).mode
      <3>1. CASE k = N + 1
        BY <1>s, <3>1
      <3>2. CASE k # N + 1
        <4>1. k \in 1..N
          BY <1>0, <3>2
        <4> QED BY <1>s, <4>1
      <3> QED BY <3>1, <3>2
    <2> QED BY <2>1
  <1>l. /\ \A k \in 1..N + 1 : Status(c, s, fr, k).mode \in Levels
        /\ \A k \in 1..N + 1 : \A j \in 1..k - 1 :
             Rank[Status(c, s, fr, j).mode] < Rank[Status(c, s, fr, k).mode]
    BY DEF Keeps, Ladder
  <1>1. Ladder(d, s, gr)
    <2>1. Status(d, s, gr, 1).mode = "usr"
      BY <1>0, <1>m DEF Keeps, Ladder
    <2>2. \A k \in 1..N + 1 : Status(d, s, gr, k).mode \in Levels
      BY <1>l, <1>m
    <2>3. \A k \in 1..N + 1 : \A j \in 1..k - 1 : Rank[Status(d, s, gr, j).mode] < Rank[Status(d, s, gr, k).mode]
      <3>1. ASSUME NEW k \in 1..N + 1, NEW j \in 1..k - 1
            PROVE  Rank[Status(d, s, gr, j).mode] < Rank[Status(d, s, gr, k).mode]
        <4>1. j \in 1..N + 1
          BY <1>0
        <4>2. Rank[Status(c, s, fr, j).mode] < Rank[Status(c, s, fr, k).mode]
          BY <1>l
        <4> QED BY <1>m, <4>1, <4>2
      <3> QED BY <3>1
    <2>4. ASSUME NEW k \in 1..N + 1 PROVE Masks(Status(d, s, gr, k), k > 1 /\ gr[k - 1].nested)
      <3>1. CASE k = N + 1
        <4>1. k > 1 /\ k - 1 = N
          BY <1>0, <3>1
        <4>2. Status(d, s, gr, k) = Running(d, s, gr)
          BY <1>s, <3>1
        <4>3. (k > 1 /\ gr[k - 1].nested) <=> gr[N].nested
          BY <4>1
        <4> QED BY <4>2, <4>3 DEF Masks
      <3>2. CASE k \in 1..N
        <4>1. Masks(Status(c, s, fr, k), k > 1 /\ fr[k - 1].nested)
          BY DEF Keeps, Ladder
        <4>2. k > 1 => gr[k - 1] = fr[k - 1]
          <5>1. k > 1 => k - 1 \in 1..N - 1
            BY <1>0, <3>2
          <5> QED BY <5>1
        <4>3. Status(d, s, gr, k) = Status(c, s, fr, k)
          BY <1>s, <3>2
        <4>4. (k > 1 /\ gr[k - 1].nested) <=> (k > 1 /\ fr[k - 1].nested)
          BY <4>2
        <4> QED BY <4>1, <4>3, <4>4 DEF Masks
      <3> QED BY <1>0, <3>1, <3>2
    <2>5. ASSUME NEW k \in 1..N, gr[k].hops PROVE k = N /\ d.psr.i /\ d.psr.f /\ d.psr.mode # "usr"
      <3>1. CASE k = N
        BY <2>5, <3>1
      <3>2. CASE k # N
        <4>1. k \in 1..N - 1
          BY <1>0, <3>2
        <4> QED BY <2>5, <3>2, <4>1 DEF Keeps, Ladder
      <3> QED BY <3>1, <3>2
    <2> QED BY <1>0, <2>1, <2>2, <2>3, <2>4, <2>5 DEF Ladder
  <1>2. UserAt(d, s, gr, to)
    <2>1. \A n \in UserRegisters : to[N + 1][n] = FileOf(d)[Flat!Home("usr", n)]
      BY <1>0
    <2>2. ASSUME NEW k \in 1..N, NEW n \in UserRegisters
          PROVE  to[k][n] = IF gr[k].swapped THEN gr[k].user[n] ELSE to[k + 1][n]
      <3>1. to[k][n] = user[k][n]
        BY <1>0
      <3>2. user[k][n] = IF fr[k].swapped THEN fr[k].user[n] ELSE user[k + 1][n]
        BY DEF Keeps, UserAt
      <3>3. CASE k = N
        <4>1. user[N + 1][n] = FileOf(c)[Flat!Home("usr", n)]
          BY DEF Keeps, UserAt
        <4> HIDE DEF to
        <4> QED BY <2>1, <3>1, <3>2, <3>3, <4>1
      <3>4. CASE k # N
        <4>1. k \in 1..N - 1 /\ k + 1 \in 1..N
          BY <1>0, <3>4
        <4>2. to[k + 1][n] = user[k + 1][n]
          BY <1>0, <4>1
        <4>3. gr[k] = fr[k]
          BY <4>1
        <4> HIDE DEF to
        <4> QED BY <3>1, <3>2, <4>2, <4>3
      <3> QED BY <3>3, <3>4
    <2> HIDE DEF to
    <2> QED BY <2>1, <2>2 DEF UserAt
  <1>3. Resumes(d, s, gr, to)
    <2> SUFFICES ASSUME NEW k \in 1..N
                 PROVE  /\ s[k].r[15] = Back(Status(d, s, gr, k + 1).mode, Link(d, gr[k], Status(d, s, gr, k + 1).mode))
                        /\ s[k].psr = SavedPsr(d, gr[k], Status(d, s, gr, k + 1).mode)
                        /\ \A n \in Registers \ {15} :
                              s[k].r[n] = IF UserSpot(Flat!Home(s[k].psr.mode, n)) THEN to[k][n]
                                          ELSE FileOf(d)[Flat!Home(s[k].psr.mode, n)]
      BY DEF Resumes
    <2> DEFINE o == Status(c, s, fr, k + 1).mode
    <2>0. k + 1 \in 1..N + 1 /\ k \in 1..N + 1 /\ N + 1 \in 1..N + 1
      BY <1>0
    <2>1. Status(d, s, gr, k + 1).mode = o /\ o \in Levels
      BY <1>m, <1>l, <2>0
    <2>2. /\ s[k].r[15] = Back(o, Link(c, fr[k], o))
          /\ s[k].psr = SavedPsr(c, fr[k], o)
          /\ \A n \in Registers \ {15} :
                s[k].r[n] = IF UserSpot(Flat!Home(s[k].psr.mode, n)) THEN user[k][n]
                            ELSE FileOf(c)[Flat!Home(s[k].psr.mode, n)]
      BY DEF Keeps, Resumes
    <2>3. Link(d, gr[k], o) = Link(c, fr[k], o) /\ SavedPsr(d, gr[k], o) = SavedPsr(c, fr[k], o)
      <3>1. CASE k = N
        <4>1. o = m
          BY <1>s, <3>1
        <4> HIDE DEF o
        <4> QED BY <3>1, <4>1
      <3>2. CASE k # N
        <4>1. k \in 1..N - 1 /\ k + 1 \in 1..(N + 1) - 1
          BY <1>0, <3>2
        <4>2. gr[k] = fr[k]
          BY <4>1
        <4>3. Rank[o] < Rank[m]
          <5>1. Rank[Status(c, s, fr, k + 1).mode] < Rank[Status(c, s, fr, N + 1).mode]
            BY <1>l, <2>0, <4>1
          <5> QED BY <1>s, <5>1
        <4>4. o # m /\ m \in Levels
          <5>1. m \in Levels
            BY <1>l, <1>s, <2>0
          <5> HIDE DEF o
          <5> QED BY <2>1, <4>3, <5>1 DEF Rank, Levels
        <4>5. o # "usr"
          <5>1. Rank[Status(c, s, fr, k).mode] < Rank[o]
            <6>1. k \in 1..(k + 1) - 1
              BY <1>0
            <6> QED BY <1>l, <2>0, <6>1
          <5>2. Status(c, s, fr, k).mode \in Levels
            BY <1>l, <2>0
          <5> HIDE DEF o
          <5> QED BY <5>1, <5>2 DEF Rank, Levels
        <4> HIDE DEF o
        <4>6. d.spsr[o] = c.spsr[o]
          <5>1. o \in Banks \ {m}
            BY <2>1, <4>4 DEF Levels
          <5> QED BY <5>1
        <4>7. FileOf(d)[Flat!Home(o, 14)] = FileOf(c)[Flat!Home(o, 14)]
          <5>1. 14 \in Registers /\ o \in Modes
            BY <2>1 DEF Levels
          <5>2. Flat!Home(o, 14) \in Spots
            BY <5>1, Homes
          <5>3. ~Private(m, Flat!Home(o, 14)) /\ ~UserSpot(Flat!Home(o, 14))
            BY <2>1, <4>4, <4>5, <5>1, PrivateCells
          <5> QED BY <5>2, <5>3
        <4> QED BY <4>2, <4>6, <4>7 DEF Link, SavedPsr
      <3> QED BY <3>1, <3>2
    <2>4. ASSUME NEW n \in Registers \ {15}
          PROVE  s[k].r[n] = IF UserSpot(Flat!Home(s[k].psr.mode, n)) THEN to[k][n]
                             ELSE FileOf(d)[Flat!Home(s[k].psr.mode, n)]
      <3> DEFINE p == s[k].psr.mode
      <3>1. CASE UserSpot(Flat!Home(p, n))
        <4>1. p \in Levels
          BY <1>l, <1>s, <2>0
        <4>2. n \in UserRegisters
          <5>1. Flat!Home(p, n)[2] = n
            BY <4>1, Homes DEF Levels
          <5> QED BY <3>1, <5>1 DEF UserSpot
        <4>3. to[k][n] = user[k][n]
          BY <1>0, <4>2
        <4> HIDE DEF to
        <4> QED BY <2>2, <3>1, <4>3
      <3>2. CASE ~UserSpot(Flat!Home(p, n))
        <4>1. p \in Levels /\ m \in Levels
          BY <1>l, <1>s, <2>0
        <4>2. Rank[p] < Rank[m]
          <5>1. k \in 1..(N + 1) - 1
            BY <1>0
          <5>2. Rank[Status(c, s, fr, k).mode] < Rank[Status(c, s, fr, N + 1).mode]
            BY <1>l, <2>0, <5>1
          <5> QED BY <1>s, <5>2
        <4> HIDE DEF to
        <4>3. p # m
          BY <4>1, <4>2 DEF Rank, Levels
        <4>4. Flat!Home(p, n) \in Spots
          BY <4>1, Homes DEF Levels
        <4>5. ~Private(m, Flat!Home(p, n))
          BY <4>1, <4>3, PrivateCells
        <4>6. FileOf(d)[Flat!Home(p, n)] = FileOf(c)[Flat!Home(p, n)]
          BY <3>2, <4>4, <4>5
        <4> QED BY <2>2, <3>2, <4>6
      <3> QED BY <3>1, <3>2
    <2> HIDE DEF to, o
    <2> QED BY <2>1, <2>2, <2>3, <2>4
  <1> HIDE DEF to
  <1> QED BY <1>1, <1>2, <1>3 DEF Keeps

\* What an exception to mode m does to the level that runs, which is lower.
Pushes(c, e, s, fr, m, view) ==
    /\ Len(s) > 0 => ~fr[Len(s)].hops
    /\ Rank[c.psr.mode] < Rank[m]
    /\ view.psr = c.psr /\ view.r[15] = Back(m, FileOf(e)[Flat!Home(m, 14)])
    /\ \A n \in Registers \ {15} : view.r[n] = c.r[n]
    /\ e.psr.mode = m /\ Masks(e.psr, FALSE)
    /\ e.spsr[m] = c.psr /\ \A bank \in Banks \ {m} : e.spsr[bank] = c.spsr[bank]
    /\ \A k \in Spots : FileOf(e)[k] # FileOf(c)[k] => k \in {Flat!Home(m, 14), Flat!Home(m, 15)}

\* An exception suspends the level that runs.
LEMMA Push ==
    ASSUME NEW c \in CpuState, NEW e \in CpuState, NEW s \in Seq(View), NEW fr \in Seq(Frame),
           NEW user, Keeps(c, s, fr, user),
           NEW m \in {"svc", "irq", "fiq"}, NEW view \in View, Pushes(c, e, s, fr, m, view)
    PROVE  \E to : Keeps(e, Append(s, view), Append(fr, NewFrame), to)
  <1> USE DEF Pushes
  <1> DEFINE N  == Len(s)
             t  == Append(s, view)
             gr == Append(fr, NewFrame)
             to == [k \in 1..N + 2 |-> [n \in UserRegisters |->
                       IF k = N + 2 THEN FileOf(e)[Flat!Home("usr", n)] ELSE user[k][n]]]
  <1>0. N \in Nat /\ Len(fr) = N
    BY DEF Keeps, Ladder
  <1>f. NewFrame \in Frame
    <2>1. 0 \in Word
      BY RegistersAssumption DEF Word
    <2>2. NoPsr \in Psr
      BY DEF NoPsr, ResetPsr, Psr
    <2> QED BY <2>1, <2>2 DEF NewFrame, Frame
  <1>n. ~NewFrame.nested /\ ~NewFrame.hops /\ ~NewFrame.swapped
    BY DEF NewFrame
  <1>1. /\ t \in Seq(View) /\ Len(t) = N + 1 /\ t[N + 1] = view /\ \A k \in 1..N : t[k] = s[k]
        /\ gr \in Seq(Frame) /\ Len(gr) = N + 1 /\ gr[N + 1] = NewFrame /\ \A k \in 1..N : gr[k] = fr[k]
    BY <1>0, <1>f, AppendProperties
  <1> HIDE DEF t, gr
  <1>r. Running(c, s, fr) = c.psr /\ Running(e, t, gr) = e.psr
    BY <1>0, <1>1, <1>n DEF Running
  <1>s. /\ \A k \in 1..N + 1 : Status(e, t, gr, k) = Status(c, s, fr, k)
        /\ Status(e, t, gr, N + 2) = e.psr /\ Status(c, s, fr, N + 1) = c.psr
        /\ \A k \in 1..N + 1 : Status(e, t, gr, k) = t[k].psr
    <2>1. Status(e, t, gr, N + 2) = e.psr /\ Status(c, s, fr, N + 1) = c.psr
      BY <1>0, <1>1, <1>r DEF Status
    <2>2. ASSUME NEW k \in 1..N + 1 PROVE Status(e, t, gr, k) = Status(c, s, fr, k) /\ Status(e, t, gr, k) = t[k].psr
      <3>1. Status(e, t, gr, k) = t[k].psr
        BY <1>0, <1>1 DEF Status
      <3>2. CASE k = N + 1
        BY <1>1, <2>1, <3>1, <3>2
      <3>3. CASE k # N + 1
        <4>1. k \in 1..N
          BY <1>0, <3>3
        <4>2. Status(c, s, fr, k) = s[k].psr
          BY <1>0, <4>1 DEF Status
        <4> QED BY <1>1, <3>1, <4>1, <4>2
      <3> QED BY <3>2, <3>3
    <2> QED BY <2>1, <2>2
  <1>l. /\ \A k \in 1..N + 1 : Status(c, s, fr, k).mode \in Levels
        /\ \A k \in 1..N + 1 : \A j \in 1..k - 1 :
             Rank[Status(c, s, fr, j).mode] < Rank[Status(c, s, fr, k).mode]
    BY DEF Keeps, Ladder
  <1>a. c.psr.mode \in Levels /\ m \in Levels /\ m # "usr" /\ m \in Banks
    <2>1. N + 1 \in 1..N + 1
      BY <1>0
    <2> QED BY <1>l, <1>s, <2>1 DEF Levels
  <1>b. \A k \in 1..N + 1 : Rank[Status(c, s, fr, k).mode] < Rank[m]
    <2>1. ASSUME NEW k \in 1..N + 1 PROVE Rank[Status(c, s, fr, k).mode] < Rank[m]
      <3>1. CASE k = N + 1
        BY <1>s, <3>1
      <3>2. CASE k # N + 1
        <4>1. k \in 1..(N + 1) - 1 /\ N + 1 \in 1..N + 1
          BY <1>0, <3>2
        <4>2. Rank[Status(c, s, fr, k).mode] < Rank[c.psr.mode]
          BY <1>l, <1>s, <4>1
        <4>3. Status(c, s, fr, k).mode \in Levels
          BY <1>l
        <4> DEFINE o == Status(c, s, fr, k).mode
        <4> HIDE DEF o
        <4>4. Rank[o] < Rank[c.psr.mode] /\ o \in Levels
          BY <4>2, <4>3 DEF o
        <4>5. Rank[o] \in Int /\ Rank[c.psr.mode] \in Int /\ Rank[m] \in Int
          BY <1>a, <4>4 DEF Rank, Levels
        <4>6. Rank[o] < Rank[m]
          BY <4>4, <4>5
        <4> QED BY <4>6 DEF o
      <3> QED BY <3>1, <3>2
    <2> QED BY <2>1
  <1>c. \A k \in 1..N + 1 : Status(c, s, fr, k).mode # m
    BY <1>a, <1>b, <1>l DEF Rank, Levels
  <1>2. Ladder(e, t, gr)
    <2>1. Len(gr) = Len(t)
      BY <1>1
    <2>2. Status(e, t, gr, 1).mode = "usr"
      BY <1>0, <1>s DEF Keeps, Ladder
    <2>3. ASSUME NEW k \in 1..Len(t) + 1 PROVE Status(e, t, gr, k).mode \in Levels
      <3>1. CASE k = N + 2
        BY <1>a, <1>s, <3>1
      <3>2. CASE k # N + 2
        <4>1. k \in 1..N + 1
          BY <1>0, <1>1, <3>2
        <4> QED BY <1>l, <1>s, <4>1
      <3> QED BY <3>1, <3>2
    <2>4. ASSUME NEW k \in 1..Len(t) + 1, NEW j \in 1..k - 1
          PROVE  Rank[Status(e, t, gr, j).mode] < Rank[Status(e, t, gr, k).mode]
      <3>1. CASE k = N + 2
        <4>1. j \in 1..N + 1
          BY <1>0, <3>1
        <4>2. Rank[Status(c, s, fr, j).mode] < Rank[m]
          BY <1>b, <4>1
        <4> QED BY <1>s, <3>1, <4>1, <4>2
      <3>2. CASE k # N + 2
        <4>1. k \in 1..N + 1 /\ j \in 1..N + 1
          BY <1>0, <1>1, <3>2
        <4>2. Rank[Status(c, s, fr, j).mode] < Rank[Status(c, s, fr, k).mode]
          BY <1>l, <4>1
        <4> QED BY <1>s, <4>1, <4>2
      <3> QED BY <3>1, <3>2
    <2>5. ASSUME NEW k \in 1..Len(t) + 1 PROVE Masks(Status(e, t, gr, k), k > 1 /\ gr[k - 1].nested)
      <3>1. CASE k = N + 2
        <4>1. k > 1 /\ k - 1 = N + 1
          BY <1>0, <3>1
        <4>2. (k > 1 /\ gr[k - 1].nested) <=> FALSE
          BY <1>1, <1>n, <4>1
        <4>3. Status(e, t, gr, k) = e.psr
          BY <1>s, <3>1
        <4> QED BY <4>2, <4>3 DEF Masks
      <3>2. CASE k # N + 2
        <4>1. k \in 1..N + 1
          BY <1>0, <1>1, <3>2
        <4>2. Masks(Status(c, s, fr, k), k > 1 /\ fr[k - 1].nested)
          BY <4>1 DEF Keeps, Ladder
        <4>3. k > 1 => gr[k - 1] = fr[k - 1]
          <5>1. k > 1 => k - 1 \in 1..N
            BY <1>0, <4>1
          <5> QED BY <1>1, <5>1
        <4>4. Status(e, t, gr, k) = Status(c, s, fr, k)
          BY <1>s, <4>1
        <4> QED BY <4>2, <4>3, <4>4 DEF Masks
      <3> QED BY <3>1, <3>2
    <2>6. ASSUME NEW k \in 1..Len(t), gr[k].hops PROVE FALSE
      <3>1. CASE k = N + 1
        BY <1>1, <1>n, <2>6, <3>1
      <3>2. CASE k # N + 1
        <4>1. k \in 1..N /\ N > 0
          BY <1>0, <1>1, <3>2
        <4>2. fr[k].hops
          BY <1>1, <2>6, <4>1
        <4>3. k = N
          BY <4>1, <4>2 DEF Keeps, Ladder
        <4> QED BY <4>1, <4>2, <4>3
      <3> QED BY <3>1, <3>2
    <2> QED BY <2>1, <2>2, <2>3, <2>4, <2>5, <2>6 DEF Ladder
  <1>u. ASSUME NEW n \in UserRegisters
        PROVE  FileOf(e)[Flat!Home("usr", n)] = FileOf(c)[Flat!Home("usr", n)]
    <2>1. n \in Registers /\ n \notin Unbanked /\ "usr" \in Levels /\ "usr" \in Modes
      BY Disjoint DEF UserRegisters, Levels
    <2>2. Flat!Home("usr", n) \in Spots /\ Flat!Home("usr", n)[2] = n
      BY <2>1, Homes
    <2>3. Flat!Home("usr", n) # Flat!Home(m, 14)
      <3>1. Private(m, Flat!Home(m, 14))
        BY <1>a, PrivateCells
      <3>2. ~Private(m, Flat!Home("usr", n))
        BY <1>a, <2>1, PrivateCells
      <3> QED BY <3>1, <3>2
    <2>4. Flat!Home("usr", n) # Flat!Home(m, 15)
      <3>1. Flat!Home(m, 15)[2] = 15
        BY <1>a, RegistersAssumption, Homes DEF Levels
      <3>2. n # 15
        BY <2>1, RegistersAssumption
      <3> QED BY <2>2, <3>1, <3>2
    <2> QED BY <2>2, <2>3, <2>4
  <1>3. UserAt(e, t, gr, to)
    <2>1. \A n \in UserRegisters : to[N + 2][n] = FileOf(e)[Flat!Home("usr", n)]
      BY <1>0
    <2>2. \A k \in 1..N + 1, n \in UserRegisters : to[k][n] = user[k][n]
      BY <1>0
    <2>3. ASSUME NEW k \in 1..N + 1, NEW n \in UserRegisters
          PROVE  to[k][n] = IF gr[k].swapped THEN gr[k].user[n] ELSE to[k + 1][n]
      <3>1. CASE k = N + 1
        <4>1. to[k][n] = FileOf(c)[Flat!Home("usr", n)]
          BY <2>2, <3>1 DEF Keeps, UserAt
        <4>2. to[k + 1][n] = FileOf(e)[Flat!Home("usr", n)]
          <5>1. k + 1 = N + 2
            BY <1>0, <3>1
          <5> HIDE DEF to
          <5> QED BY <2>1, <5>1
        <4> HIDE DEF to
        <4>3. ~gr[k].swapped
          BY <1>1, <1>n, <3>1
        <4> QED BY <1>u, <4>1, <4>2, <4>3
      <3>2. CASE k # N + 1
        <4>1. k \in 1..N /\ k + 1 \in 1..N + 1
          BY <1>0, <3>2
        <4> HIDE DEF to
        <4>2. user[k][n] = IF fr[k].swapped THEN fr[k].user[n] ELSE user[k + 1][n]
          BY <4>1 DEF Keeps, UserAt
        <4> QED BY <1>1, <2>2, <4>1, <4>2
      <3> QED BY <3>1, <3>2
    <2> HIDE DEF to
    <2> QED BY <1>1, <2>1, <2>3, <1>0 DEF UserAt
  <1>4. Resumes(e, t, gr, to)
    <2> SUFFICES ASSUME NEW k \in 1..N + 1
                 PROVE  /\ t[k].r[15] = Back(Status(e, t, gr, k + 1).mode, Link(e, gr[k], Status(e, t, gr, k + 1).mode))
                        /\ t[k].psr = SavedPsr(e, gr[k], Status(e, t, gr, k + 1).mode)
                        /\ \A n \in Registers \ {15} :
                              t[k].r[n] = IF UserSpot(Flat!Home(t[k].psr.mode, n)) THEN to[k][n]
                                          ELSE FileOf(e)[Flat!Home(t[k].psr.mode, n)]
      BY <1>1 DEF Resumes
    <2> DEFINE p == t[k].psr.mode
    <2>p. p \in Levels /\ p \in Modes /\ p # m
      BY <1>c, <1>l, <1>s DEF Levels
    <2>t. ASSUME NEW n \in UserRegisters PROVE to[k][n] = user[k][n]
      BY <1>0
    <2> HIDE DEF to, p
    <2>f. ASSUME NEW n \in Registers \ {15} PROVE FileOf(e)[Flat!Home(p, n)] = FileOf(c)[Flat!Home(p, n)]
      <3>1. Flat!Home(p, n) \in Spots /\ Flat!Home(p, n)[2] = n
        BY <2>p, Homes
      <3>2. Flat!Home(p, n) # Flat!Home(m, 14)
        <4>1. Private(m, Flat!Home(m, 14))
          BY <1>a, PrivateCells
        <4>2. ~Private(m, Flat!Home(p, n))
          BY <1>a, <2>p, PrivateCells
        <4> QED BY <4>1, <4>2
      <3>3. Flat!Home(m, 15)[2] = 15
        BY <1>a, RegistersAssumption, Homes DEF Levels
      <3> QED BY <3>1, <3>2, <3>3
    <2>n. ASSUME NEW n \in Registers \ {15}, UserSpot(Flat!Home(p, n)) PROVE n \in UserRegisters
      <3>1. Flat!Home(p, n)[2] = n
        BY <2>p, Homes
      <3> QED BY <2>n, <3>1 DEF UserSpot
    <2>1. CASE k = N + 1
      <3>1. Status(e, t, gr, k + 1) = e.psr /\ gr[k] = NewFrame /\ t[k] = view /\ p = c.psr.mode
        <4>1. k + 1 = N + 2
          BY <1>0, <2>1
        <4> QED BY <1>1, <1>s, <2>1, <4>1 DEF p
      <3>2. Link(e, gr[k], m) = FileOf(e)[Flat!Home(m, 14)] /\ SavedPsr(e, gr[k], m) = c.psr
        BY <1>n, <3>1 DEF Link, SavedPsr
      <3>3. ASSUME NEW n \in Registers \ {15}
            PROVE  view.r[n] = IF UserSpot(Flat!Home(p, n)) THEN to[k][n] ELSE FileOf(e)[Flat!Home(p, n)]
        <4>1. view.r[n] = FileOf(c)[Flat!Home(p, n)]
          BY <3>1, SeenIsFile
        <4>2. UserSpot(Flat!Home(p, n)) => to[k][n] = FileOf(c)[Flat!Home(p, n)]
          <5>1. HAVE UserSpot(Flat!Home(p, n))
          <5>2. n \in UserRegisters /\ Flat!Home(p, n) = Flat!Home("usr", n)
            <6>1. Flat!Home(p, n)[2] = n
              BY <2>p, Homes
            <6> QED BY <5>1, <6>1 DEF UserSpot
          <5>3. user[k][n] = FileOf(c)[Flat!Home("usr", n)]
            BY <2>1, <5>2 DEF Keeps, UserAt
          <5> QED BY <2>t, <5>2, <5>3
        <4> QED BY <2>f, <4>1, <4>2
      <3> QED BY <3>1, <3>2, <3>3 DEF p
    <2>2. CASE k # N + 1
      <3>1. k \in 1..N /\ k + 1 \in 1..N + 1
        BY <1>0, <2>2
      <3> DEFINE o == Status(c, s, fr, k + 1).mode
      <3>2. Status(e, t, gr, k + 1).mode = o /\ gr[k] = fr[k] /\ t[k] = s[k]
        BY <1>1, <1>s, <3>1
      <3>3. /\ s[k].r[15] = Back(o, Link(c, fr[k], o))
            /\ s[k].psr = SavedPsr(c, fr[k], o)
            /\ \A n \in Registers \ {15} :
                  s[k].r[n] = IF UserSpot(Flat!Home(s[k].psr.mode, n)) THEN user[k][n]
                              ELSE FileOf(c)[Flat!Home(s[k].psr.mode, n)]
        BY <3>1 DEF Keeps, Resumes
      <3>4. o \in Levels /\ o # m
        BY <1>c, <1>l, <3>1
      <3> HIDE DEF o
      <3>5. e.spsr[o] = c.spsr[o]
        BY <3>4 DEF Levels
      <3>6. FileOf(e)[Flat!Home(o, 14)] = FileOf(c)[Flat!Home(o, 14)]
        <4>1. Flat!Home(o, 14) \in Spots /\ Flat!Home(o, 14)[2] = 14
          BY <3>4, Homes DEF Levels
        <4>2. Flat!Home(o, 14) # Flat!Home(m, 14)
          <5>1. Private(m, Flat!Home(m, 14))
            BY <1>a, PrivateCells
          <5>2. ~Private(m, Flat!Home(o, 14))
            BY <1>a, <3>4, PrivateCells
          <5> QED BY <5>1, <5>2
        <4>3. Flat!Home(m, 15)[2] = 15
          BY <1>a, RegistersAssumption, Homes DEF Levels
        <4> QED BY <4>1, <4>2, <4>3
      <3>7. Link(e, gr[k], o) = Link(c, fr[k], o) /\ SavedPsr(e, gr[k], o) = SavedPsr(c, fr[k], o)
        BY <3>2, <3>5, <3>6 DEF Link, SavedPsr
      <3>8. ASSUME NEW n \in Registers \ {15}
            PROVE  t[k].r[n] = IF UserSpot(Flat!Home(p, n)) THEN to[k][n] ELSE FileOf(e)[Flat!Home(p, n)]
        <4>1. s[k].r[n] = IF UserSpot(Flat!Home(p, n)) THEN user[k][n] ELSE FileOf(c)[Flat!Home(p, n)]
          BY <3>2, <3>3 DEF p
        <4> QED BY <2>f, <2>n, <2>t, <3>2, <4>1
      <3> QED BY <3>2, <3>3, <3>7, <3>8 DEF p
    <2> QED BY <2>1, <2>2
  <1> HIDE DEF to
  <1> QED BY <1>2, <1>3, <1>4 DEF Keeps, t, gr

\* A return gives the level below its registers and its status back.
LEMMA Pop ==
    ASSUME NEW c \in CpuState, NEW d \in CpuState, NEW s \in Seq(View), NEW fr \in Seq(Frame),
           NEW user, Keeps(c, s, fr, user), Len(s) > 0,
           ~fr[Len(s)].hops, ~fr[Len(s)].nested, ~fr[Len(s)].swapped,
           d.psr = c.spsr[c.psr.mode], d.spsr = c.spsr,
           d.r[15] = Back(c.psr.mode, c.r[14]),
           \A k \in Spots : FileOf(d)[k] # FileOf(c)[k] => k[2] = 15
    PROVE  /\ Seen(d) = s[Len(s)]
           /\ \E to : Keeps(d, Front(s), Front(fr), to)
  <1> DEFINE N  == Len(s)
             M  == N - 1
             t  == Front(s)
             gr == Front(fr)
             m  == c.psr.mode
  <1>0. N \in Nat /\ N > 0 /\ Len(fr) = N /\ M \in Nat /\ N = M + 1
    BY DEF Keeps, Ladder
  <1>1. /\ t \in Seq(View) /\ Len(t) = M /\ \A k \in 1..M : t[k] = s[k]
        /\ gr \in Seq(Frame) /\ Len(gr) = M /\ \A k \in 1..M : gr[k] = fr[k]
    <2>1. (\A i \in 1..M : s[i] \in View) /\ (\A i \in 1..M : fr[i] \in Frame)
      BY <1>0, ElementOfSeq
    <2> QED BY <1>0, <2>1, SubSeqProperties DEF Front
  <1>v. s[N] \in View
    BY <1>0, ElementOfSeq
  <1> HIDE DEF t, gr
  <1>r. Running(c, s, fr) = c.psr
    BY DEF Running
  <1>s. /\ Status(c, s, fr, N + 1) = c.psr /\ \A k \in 1..N : Status(c, s, fr, k) = s[k].psr
    BY <1>0, <1>r DEF Status
  <1>l. /\ \A k \in 1..N + 1 : Status(c, s, fr, k).mode \in Levels
        /\ \A k \in 1..N + 1 : \A j \in 1..k - 1 :
             Rank[Status(c, s, fr, j).mode] < Rank[Status(c, s, fr, k).mode]
    BY DEF Keeps, Ladder
  <1>a. m \in Levels
    <2>1. N + 1 \in 1..N + 1
      BY <1>0
    <2> QED BY <1>l, <1>s, <2>1
  <1>w. /\ s[N].r[15] = Back(m, Link(c, fr[N], m)) /\ s[N].psr = SavedPsr(c, fr[N], m)
        /\ \A n \in Registers \ {15} :
              s[N].r[n] = IF UserSpot(Flat!Home(s[N].psr.mode, n)) THEN user[N][n]
                          ELSE FileOf(c)[Flat!Home(s[N].psr.mode, n)]
    <2>1. N \in 1..N
      BY <1>0
    <2> QED BY <1>s, <2>1 DEF Keeps, Resumes
  <1>p. d.psr = s[N].psr
    BY <1>w DEF SavedPsr
  <1>q. d.psr.mode \in Levels /\ d.psr.mode \in Modes
    <2>1. N \in 1..N + 1 /\ N \in 1..N
      BY <1>0
    <2> QED BY <1>l, <1>p, <1>s, <2>1 DEF Levels
  <1>u. \A n \in UserRegisters : user[N][n] = FileOf(c)[Flat!Home("usr", n)]
    <2>1. N \in 1..N
      BY <1>0
    <2> QED BY <2>1 DEF Keeps, UserAt
  <1>f. ASSUME NEW o \in Levels, NEW n \in Registers \ {15}
        PROVE  FileOf(d)[Flat!Home(o, n)] = FileOf(c)[Flat!Home(o, n)]
    <2>1. Flat!Home(o, n) \in Spots /\ Flat!Home(o, n)[2] = n
      BY Homes DEF Levels
    <2> QED BY <2>1
  <1>2. Seen(d) = s[N]
    <2>1. s[N].r \in [Registers -> Word] /\ d.r \in [Registers -> Word]
      BY <1>v DEF View, CpuState
    <2>2. c.r[14] = FileOf(c)[Flat!Home(m, 14)]
      BY SeenIsFile
    <2>3. s[N].r[15] = d.r[15]
      BY <1>w, <2>2 DEF Link
    <2>4. ASSUME NEW n \in Registers \ {15} PROVE s[N].r[n] = d.r[n]
      <3>1. d.r[n] = FileOf(d)[Flat!Home(d.psr.mode, n)]
        BY SeenIsFile
      <3>2. FileOf(d)[Flat!Home(d.psr.mode, n)] = FileOf(c)[Flat!Home(d.psr.mode, n)]
        BY <1>f, <1>q
      <3>3. CASE UserSpot(Flat!Home(d.psr.mode, n))
        <4>1. Flat!Home(d.psr.mode, n)[2] = n
          BY <1>q, Homes
        <4>2. n \in UserRegisters /\ Flat!Home(d.psr.mode, n) = Flat!Home("usr", n)
          BY <3>3, <4>1 DEF UserSpot
        <4>3. s[N].r[n] = user[N][n]
          BY <1>p, <1>w, <3>3
        <4> QED BY <1>u, <3>1, <3>2, <4>2, <4>3
      <3>4. CASE ~UserSpot(Flat!Home(d.psr.mode, n))
        BY <1>p, <1>w, <3>1, <3>2, <3>4
      <3> QED BY <3>3, <3>4
    <2>5. s[N].r = d.r
      <3>1. \A n \in Registers : s[N].r[n] = d.r[n]
        BY <2>3, <2>4
      <3> QED BY <2>1, <3>1
    <2>6. s[N] = [r |-> s[N].r, psr |-> s[N].psr]
      BY <1>v DEF View
    <2> QED BY <1>p, <2>5, <2>6 DEF Seen
  <1>h. \A k \in 1..M : ~gr[k].hops
    <2>1. ASSUME NEW k \in 1..M, gr[k].hops PROVE FALSE
      <3>1. fr[k].hops /\ k \in 1..N /\ k # N
        BY <1>0, <1>1, <2>1
      <3> QED BY <3>1 DEF Keeps, Ladder
    <2> QED BY <2>1
  <1>z. /\ \A k \in 1..M + 1 : Status(d, t, gr, k) = Status(c, s, fr, k)
    <2>1. ASSUME NEW k \in 1..M + 1 PROVE Status(d, t, gr, k) = Status(c, s, fr, k)
      <3>1. Status(c, s, fr, k) = s[k].psr
        BY <1>0, <1>s
      <3>2. CASE k = M + 1
        <4>1. Running(d, t, gr) = d.psr
          <5>1. M > 0 => M \in 1..M
            BY <1>0
          <5> QED BY <1>1, <1>h, <5>1 DEF Running
        <4>2. Status(d, t, gr, k) = d.psr
          BY <1>0, <1>1, <3>2, <4>1 DEF Status
        <4> QED BY <1>0, <1>p, <3>1, <3>2, <4>2
      <3>3. CASE k # M + 1
        <4>1. k \in 1..M
          BY <1>0, <3>3
        <4> QED BY <1>1, <3>1, <4>1 DEF Status
      <3> QED BY <3>2, <3>3
    <2> QED BY <2>1
  <1>3. Ladder(d, t, gr)
    <2>0. \A k \in 1..M + 1 : k \in 1..N + 1 /\ (k > 1 => k - 1 \in 1..M)
      BY <1>0
    <2>1. Len(gr) = Len(t) /\ Len(t) = M
      BY <1>1
    <2>2. Status(d, t, gr, 1).mode = "usr"
      BY <1>0, <1>z DEF Keeps, Ladder
    <2>3. \A k \in 1..M + 1 : Status(d, t, gr, k).mode \in Levels
      BY <1>l, <1>z, <2>0
    <2>4. ASSUME NEW k \in 1..M + 1, NEW j \in 1..k - 1
          PROVE  Rank[Status(d, t, gr, j).mode] < Rank[Status(d, t, gr, k).mode]
      <3>1. j \in 1..M + 1
        BY <1>0
      <3>2. Rank[Status(c, s, fr, j).mode] < Rank[Status(c, s, fr, k).mode]
        BY <1>l, <2>0
      <3> QED BY <1>z, <3>1, <3>2
    <2>5. ASSUME NEW k \in 1..M + 1 PROVE Masks(Status(d, t, gr, k), k > 1 /\ gr[k - 1].nested)
      <3>1. Masks(Status(c, s, fr, k), k > 1 /\ fr[k - 1].nested)
        BY <2>0 DEF Keeps, Ladder
      <3>2. k > 1 => gr[k - 1] = fr[k - 1]
        BY <1>1, <2>0
      <3>3. Status(d, t, gr, k) = Status(c, s, fr, k)
        BY <1>z
      <3> QED BY <3>1, <3>2, <3>3 DEF Masks
    <2> QED BY <1>h, <2>1, <2>2, <2>3, <2>4, <2>5 DEF Ladder
  <1>4. UserAt(d, t, gr, user)
    <2>1. ASSUME NEW n \in UserRegisters PROVE user[M + 1][n] = FileOf(d)[Flat!Home("usr", n)]
      <3>1. n \in Registers \ {15} /\ "usr" \in Levels
        BY RegistersAssumption DEF UserRegisters, Levels
      <3> QED BY <1>0, <1>f, <1>u, <3>1
    <2>2. ASSUME NEW k \in 1..M, NEW n \in UserRegisters
          PROVE  user[k][n] = IF gr[k].swapped THEN gr[k].user[n] ELSE user[k + 1][n]
      <3>1. k \in 1..N
        BY <1>0
      <3> QED BY <1>1, <3>1 DEF Keeps, UserAt
    <2> QED BY <1>1, <2>1, <2>2 DEF UserAt
  <1>5. Resumes(d, t, gr, user)
    <2> SUFFICES ASSUME NEW k \in 1..M
                 PROVE  /\ t[k].r[15] = Back(Status(d, t, gr, k + 1).mode, Link(d, gr[k], Status(d, t, gr, k + 1).mode))
                        /\ t[k].psr = SavedPsr(d, gr[k], Status(d, t, gr, k + 1).mode)
                        /\ \A n \in Registers \ {15} :
                              t[k].r[n] = IF UserSpot(Flat!Home(t[k].psr.mode, n)) THEN user[k][n]
                                          ELSE FileOf(d)[Flat!Home(t[k].psr.mode, n)]
      BY <1>1 DEF Resumes
    <2>0. k \in 1..N /\ k + 1 \in 1..M + 1 /\ k \in 1..N + 1 /\ k + 1 \in 1..N + 1
      BY <1>0
    <2> DEFINE o == Status(c, s, fr, k + 1).mode
               p == s[k].psr.mode
    <2>1. Status(d, t, gr, k + 1).mode = o /\ t[k] = s[k] /\ gr[k] = fr[k]
      BY <1>1, <1>z, <2>0
    <2>2. o \in Levels /\ p \in Levels
      BY <1>l, <1>s, <2>0
    <2>3. /\ s[k].r[15] = Back(o, Link(c, fr[k], o))
          /\ s[k].psr = SavedPsr(c, fr[k], o)
          /\ \A n \in Registers \ {15} :
                s[k].r[n] = IF UserSpot(Flat!Home(p, n)) THEN user[k][n] ELSE FileOf(c)[Flat!Home(p, n)]
      BY <2>0 DEF Keeps, Resumes
    <2>4. Link(d, gr[k], o) = Link(c, fr[k], o) /\ SavedPsr(d, gr[k], o) = SavedPsr(c, fr[k], o)
      <3>1. 14 \in Registers \ {15}
        OBVIOUS
      <3> HIDE DEF o
      <3>2. FileOf(d)[Flat!Home(o, 14)] = FileOf(c)[Flat!Home(o, 14)]
        BY <1>f, <2>2, <3>1
      <3> QED BY <2>1, <3>2 DEF Link, SavedPsr
    <2>5. \A n \in Registers \ {15} : FileOf(d)[Flat!Home(p, n)] = FileOf(c)[Flat!Home(p, n)]
      BY <1>f, <2>2
    <2> HIDE DEF o
    <2> QED BY <2>1, <2>3, <2>4, <2>5
  <1>6. Keeps(d, t, gr, user)
    BY <1>3, <1>4, <1>5 DEF Keeps
  <1> QED BY <1>2, <1>6 DEF t, gr

\* A return from an interrupt goes back to the instruction that it stopped.
LEMMA BackToPc ==
    ASSUME NEW pc \in Word
    PROVE  Add(pc, 4) \in Word /\ (Add(pc, 4) + Span - 4) % Span = pc
  <1>0. pc \in Int /\ pc >= 0 /\ pc < Span /\ Span \in Int /\ Span > 28
    BY RegistersAssumption DEF Word
  <1>1. CASE pc + 4 < Span
    <2>1. (pc + 4) % Span = pc + 4
      BY <1>0, <1>1, SMTT(30)
    <2>2. (pc + Span) % Span = pc
      BY <1>0, SMTT(30)
    <2>3. (pc + 4) + Span - 4 = pc + Span
      BY <1>0
    <2> QED BY <1>0, <1>1, <2>1, <2>2, <2>3 DEF Add, Word
  <1>2. CASE pc + 4 >= Span
    <2>1. (pc + 4) % Span = pc + 4 - Span
      BY <1>0, <1>2, SMTT(30)
    <2>2. (pc + 4 - Span) + Span - 4 = pc
      BY <1>0
    <2>3. pc % Span = pc
      BY <1>0, SMTT(30)
    <2> QED BY <1>0, <1>2, <2>1, <2>2, <2>3 DEF Add, Word
  <1> QED BY <1>0, <1>1, <1>2

\* Programs with no handler run in User mode with interrupts enabled.
LEMMA Ground ==
    ASSUME NEW c \in CpuState
    PROVE  /\ \A user : Keeps(c, <<>>, <<>>, user) => c.psr.mode = "usr" /\ ~c.psr.i /\ ~c.psr.f
           /\ c.psr.mode = "usr" /\ ~c.psr.i /\ ~c.psr.f => \E user : Keeps(c, <<>>, <<>>, user)
  <1>0. Len(<<>>) = 0 /\ 1..0 = {} /\ 1..0 + 1 = {1} /\ 1 \in 1..0 + 1
    OBVIOUS
  <1>1. Running(c, <<>>, <<>>) = c.psr /\ Status(c, <<>>, <<>>, 1) = c.psr
    BY <1>0 DEF Running, Status
  <1>2. ASSUME NEW user, Keeps(c, <<>>, <<>>, user) PROVE c.psr.mode = "usr" /\ ~c.psr.i /\ ~c.psr.f
    <2>1. Status(c, <<>>, <<>>, 1).mode = "usr"
      BY <1>2 DEF Keeps, Ladder
    <2>2. \A k \in 1..0 + 1 : Masks(Status(c, <<>>, <<>>, k), k > 1 /\ <<>>[k - 1].nested)
      BY <1>0, <1>2 DEF Keeps, Ladder
    <2>3. Masks(c.psr, 1 > 1 /\ <<>>[1 - 1].nested)
      BY <1>0, <1>1, <2>2
    <2> QED BY <1>1, <2>1, <2>3 DEF Masks
  <1>3. ASSUME c.psr.mode = "usr", ~c.psr.i, ~c.psr.f PROVE \E user : Keeps(c, <<>>, <<>>, user)
    <2> DEFINE user == [k \in {1} |-> [n \in UserRegisters |-> FileOf(c)[Flat!Home("usr", n)]]]
    <2>1. \A k \in {1} : Status(c, <<>>, <<>>, k) = c.psr
      BY <1>1
    <2>2. \A k \in {1} : Masks(Status(c, <<>>, <<>>, k), k > 1 /\ <<>>[k - 1].nested)
      BY <1>3, <2>1 DEF Masks
    <2>3. \A k \in {1} : 1..k - 1 = {}
      OBVIOUS
    <2>4. \A k \in {1} : Status(c, <<>>, <<>>, k).mode \in Levels
      BY <1>3, <2>1 DEF Levels
    <2>5. Ladder(c, <<>>, <<>>)
      BY <1>0, <1>1, <1>3, <2>2, <2>3, <2>4 DEF Ladder
    <2>6. UserAt(c, <<>>, <<>>, user)
      BY <1>0 DEF UserAt
    <2>7. Resumes(c, <<>>, <<>>, user)
      BY <1>0 DEF Resumes
    <2> HIDE DEF user
    <2> QED BY <2>5, <2>6, <2>7 DEF Keeps
  <1> QED BY <1>2, <1>3

\* The level that runs.
LEMMA TopLevel ==
    ASSUME NEW c \in CpuState, NEW s \in Seq(View), NEW fr \in Seq(Frame), NEW user, Keeps(c, s, fr, user)
    PROVE  /\ Len(fr) = Len(s) /\ Len(s) \in Nat
           /\ Running(c, s, fr) \in Psr /\ Running(c, s, fr).mode \in Levels
           /\ Len(s) > 0 => /\ Running(c, s, fr).mode # "usr"
                            /\ Masks(Running(c, s, fr), fr[Len(s)].nested)
                            /\ fr[Len(s)].hops => c.psr.i /\ c.psr.f /\ c.psr.mode # "usr"
                            /\ fr[Len(s)] \in Frame
  <1> DEFINE N == Len(s)
  <1>0. Len(fr) = N /\ N \in Nat
    BY DEF Keeps, Ladder
  <1>1. N > 0 => fr[N] \in Frame
    BY <1>0, ElementOfSeq
  <1>2. Running(c, s, fr) \in Psr
    BY <1>1 DEF Running, CpuState, Frame
  <1>3. Status(c, s, fr, N + 1) = Running(c, s, fr) /\ N + 1 \in 1..N + 1
    BY <1>0 DEF Status
  <1>4. Running(c, s, fr).mode \in Levels
    BY <1>3 DEF Keeps, Ladder
  <1>5. ASSUME N > 0 PROVE Running(c, s, fr).mode # "usr"
    <2>1. 1 \in 1..(N + 1) - 1
      BY <1>0, <1>5
    <2>2. Rank[Status(c, s, fr, 1).mode] < Rank[Status(c, s, fr, N + 1).mode]
      BY <1>3, <2>1 DEF Keeps, Ladder
    <2>3. Status(c, s, fr, 1).mode = "usr"
      BY DEF Keeps, Ladder
    <2> QED BY <1>3, <2>2, <2>3 DEF Rank
  <1>6. ASSUME N > 0 PROVE Masks(Running(c, s, fr), fr[N].nested)
    <2>1. Masks(Status(c, s, fr, N + 1), N + 1 > 1 /\ fr[(N + 1) - 1].nested)
      BY <1>3 DEF Keeps, Ladder
    <2>2. N + 1 > 1 /\ (N + 1) - 1 = N
      BY <1>0, <1>6
    <2>3. (N + 1 > 1 /\ fr[(N + 1) - 1].nested) <=> fr[N].nested
      BY <2>2
    <2> QED BY <1>3, <2>1, <2>3 DEF Masks
  <1>7. N > 0 /\ fr[N].hops => c.psr.i /\ c.psr.f /\ c.psr.mode # "usr"
    <2>1. N > 0 => N \in 1..N
      BY <1>0
    <2> QED BY <2>1 DEF Keeps, Ladder
  <1> QED BY <1>0, <1>1, <1>2, <1>4, <1>5, <1>6, <1>7

LEMMA InitTransparent == ModesInit => Transparent
  <1> SUFFICES ASSUME ModesInit PROVE Transparent
    OBVIOUS
  <1>1. ModesTypeOK
    BY InitModes
  <1>2. suspended = <<>> /\ frames = <<>> /\ cpu.psr = NoPsr
    BY DEF ModesInit, CpuReset
  <1>3. cpu.psr.mode = "usr" /\ ~cpu.psr.i /\ ~cpu.psr.f
    BY <1>2 DEF NoPsr, ResetPsr
  <1>4. cpu \in CpuState /\ suspended \in Seq(View)
    BY <1>1, <1>2 DEF ModesTypeOK
  <1> QED BY <1>1, <1>2, <1>3, <1>4, Ground DEF Transparent

LEMMA StepTransparent ==
    ASSUME Transparent, [ModesNext]_modesVars
    PROVE  Transparent' /\ [Len(suspended') < Len(suspended) => Seen(cpu') = Last(suspended)]_modesVars
  <1> DEFINE N == Len(suspended)
             c == cpu
             fr == frames
             s == suspended
             P == Running(cpu, suspended, frames)
             Goal == /\ suspended' \in Seq(View)
                     /\ \E to : Keeps(cpu', suspended', frames', to)
                     /\ Len(suspended') < Len(suspended) => Seen(cpu') = Last(suspended)
  <1>0. /\ ModesTypeOK /\ cpu \in CpuState /\ frames \in Seq(Frame) /\ suspended \in Seq(View)
        /\ cpu.psr \in Psr /\ cpu.psr.mode \in Modes /\ cpu.r \in [Registers -> Word]
    BY DEF Transparent, ModesTypeOK, CpuState, Psr
  <1>T. ModesTypeOK' /\ cpu' \in CpuState /\ frames' \in Seq(Frame)
    BY <1>0, StepModes DEF ModesTypeOK
  <1>U. PICK user : Keeps(cpu, suspended, frames, user)
    BY DEF Transparent
  <1>L. /\ Len(frames) = N /\ N \in Nat
        /\ P \in Psr /\ P.mode \in Levels
        /\ N > 0 => /\ P.mode # "usr"
                    /\ Masks(P, frames[N].nested)
                    /\ frames[N].hops => cpu.psr.i /\ cpu.psr.f /\ cpu.psr.mode # "usr"
                    /\ frames[N] \in Frame
    BY <1>0, <1>U, TopLevel
  <1>H. /\ Handling <=> N > 0
        /\ Handling => Top = frames[N] /\ Last(suspended) = suspended[N]
    BY <1>0, <1>L DEF Handling, Top, Last
  <1>P. (N > 0 /\ frames[N].hops) \/ P = cpu.psr
    BY DEF Running
  <1>G. N = 0 => /\ suspended = <<>> /\ frames = <<>>
                 /\ cpu.psr.mode = "usr" /\ ~cpu.psr.i /\ ~cpu.psr.f
    <2>1. ASSUME N = 0 PROVE suspended = <<>> /\ frames = <<>>
      BY <1>0, <1>L, <2>1
    <2> QED BY <1>0, <1>U, <2>1, Ground
  <1>K. ASSUME N > 0, NEW f \in Frame, Keep(f)
        PROVE  Len(frames') = N /\ frames'[N] = f /\ \A k \in 1..N - 1 : frames'[k] = frames[k]
    <2>1. frames' = [frames EXCEPT ![N] = f]
      BY <1>K, <1>L DEF Keep
    <2>2. N \in 1..N /\ \A k \in 1..N - 1 : k \in 1..N /\ k # N
      BY <1>K, <1>L
    <2> QED BY <1>0, <1>L, <2>1, <2>2
  <1>M. P.mode \in Modes /\ P.mode \in Banks /\ BankIndex(P.mode) = P.mode
    BY <1>L DEF Levels, BankIndex
  <1>S. ASSUME Suspend PROVE frames' = Append(frames, NewFrame)
    BY <1>S DEF Suspend
  <1> SUFFICES Goal \/ UNCHANGED modesVars
    BY <1>0, <1>T, <1>U DEF Transparent, modesVars
  <1> HIDE DEF P
  <1>1. CASE Compute
    <2>1. PICK n \in Owned, v \in Values : cpu' = WriteReg(cpu, n, v)
      BY <1>1 DEF Compute
    <2>2. n \in Registers /\ v \in Word
      BY <2>1, CpuModesAssumption DEF Owned
    <2>3. /\ cpu'.psr = cpu.psr /\ cpu'.spsr = cpu.spsr /\ suspended' = suspended /\ frames' = frames
          /\ \A k \in Spots : FileOf(cpu')[k] # FileOf(cpu)[k] => k = Flat!Home(cpu.psr.mode, n)
      BY <1>0, <1>1, <2>1, <2>2, WriteRegWrites DEF Compute
    <2>4. CASE N = 0
      BY <1>G, <1>0, <1>T, <2>3, <2>4, Ground
    <2>5. CASE N > 0
      <3>1. ~frames[N].hops /\ P = cpu.psr
        BY <1>1, <1>H, <1>P, <2>5 DEF Compute
      <3> DEFINE m == P.mode
      <3>2. cpu.psr.mode = m /\ m # "usr" /\ m \in Levels /\ m \in Modes
        BY <1>L, <1>M, <2>5, <3>1
      <3>3. n \in Registers /\ n # 14 /\ n # 15 /\ Private(m, Flat!Home(m, n))
        <4>1. n = 13 \/ (n \in High /\ m = "fiq")
          BY <1>H, <2>1, <2>5, <3>2 DEF Owned
        <4>2. CASE n = 13
          BY <3>2, <4>2, PrivateCells
        <4>3. CASE n \in High /\ m = "fiq"
          <5>1. n # 14 /\ n # 15
            BY <4>3, RegistersAssumption
          <5> QED BY <2>2, <4>3, <5>1, PrivateCells
        <4> QED BY <4>1, <4>2, <4>3
      <3> HIDE DEF m
      <3>4. \A k \in Spots : FileOf(cpu')[k] # FileOf(cpu)[k] => Private(m, k)
        BY <2>3, <3>2, <3>3
      <3>5. FileOf(cpu')[Flat!Home(m, 14)] = FileOf(cpu)[Flat!Home(m, 14)]
        <4>1. Flat!Home(m, 14) \in Spots /\ Flat!Home(m, 14)[2] = 14 /\ Flat!Home(m, n)[2] = n
          BY <3>2, <3>3, Homes
        <4> QED BY <2>3, <3>2, <3>3, <4>1
      <3>6. ASSUME NEW x \in UserRegisters
            PROVE  FileOf(cpu')[Flat!Home("usr", x)] = FileOf(cpu)[Flat!Home("usr", x)]
        <4>1. x \in Registers /\ "usr" \in Levels /\ "usr" \in Modes
          BY DEF UserRegisters, Levels
        <4>2. Flat!Home("usr", x) \in Spots /\ ~Private(m, Flat!Home("usr", x))
          BY <3>2, <4>1, Homes, PrivateCells
        <4> QED BY <3>4, <4>2
      <3>7. Running(cpu', suspended, frames) = cpu.psr
        BY <2>3, <3>1 DEF Running
      <3>8. /\ Link(cpu', frames[N], m) = Link(cpu, frames[N], m)
            /\ SavedPsr(cpu', frames[N], m) = SavedPsr(cpu, frames[N], m)
        BY <2>3, <3>5 DEF Link, SavedPsr
      <3>9. \E to : Keeps(cpu', suspended, frames, to)
        <4>1. Running(cpu, suspended, frames) = cpu.psr
          BY <3>1 DEF P
        <4>2. Masks(cpu.psr, frames[N].nested)
          BY <1>L, <2>5, <3>1
        <4>3. Stays(cpu, cpu', suspended, frames, frames, m)
          BY <1>L, <2>3, <2>5, <3>1, <3>2, <3>4, <3>6, <3>7, <3>8, <4>1, <4>2 DEF Stays
        <4> QED BY <1>0, <1>T, <1>U, <4>3, InPlace
      <3> QED BY <1>0, <1>L, <2>3, <3>9
    <2> QED BY <1>L, <2>4, <2>5
  <1>2. CASE ChangeState
    <2>0. N = 0 /\ suspended' = suspended /\ frames' = frames
      BY <1>2, <1>H, <1>L DEF ChangeState
    <2>1. cpu'.psr.mode = cpu.psr.mode /\ cpu'.psr.i = cpu.psr.i /\ cpu'.psr.f = cpu.psr.f
      <3>1. CASE cpu' = [cpu EXCEPT !.psr = [cpu.psr EXCEPT !.t = ~cpu.psr.t]]
        BY <1>0, <3>1 DEF CpuState, Psr
      <3>2. CASE cpu' = Msr(cpu, [cpu.psr EXCEPT !.mode = "svc", !.i = TRUE, !.c = ~@])
        <4> DEFINE value == [cpu.psr EXCEPT !.mode = "svc", !.i = TRUE, !.c = ~@]
        <4>1. value \in Psr
          BY <1>0 DEF Psr
        <4> HIDE DEF value
        <4>2. cpu'.psr = Flags(cpu.psr, value)
          BY <1>0, <1>G, <2>0, <3>2, <4>1, MsrStatus DEF value
        <4> QED BY <1>0, <4>2 DEF Flags, Psr
      <3> QED BY <1>2, <3>1, <3>2 DEF ChangeState
    <2> QED BY <1>0, <1>G, <1>T, <2>0, <2>1, Ground
  <1>3. CASE Fiq \/ Irq
    <2>0. PICK m \in {"irq", "fiq"}, vector \in Word :
             /\ Fiq => m = "fiq" /\ vector = FiqVector
             /\ ~Fiq => m = "irq" /\ vector = IrqVector
      BY RegistersAssumption DEF Word, FiqVector, IrqVector
    <2> DEFINE link == Add(cpu.r[15], 4)
               e == EnterException(cpu, m, vector, link)
    <2>1. link \in Word /\ (link + Span - 4) % Span = cpu.r[15]
      <3>1. cpu.r[15] \in Word
        BY <1>0, RegistersAssumption
      <3> QED BY <3>1, BackToPc
    <2> HIDE DEF link
    <2>2. /\ e \in CpuState /\ e.psr.mode = m
          /\ \A k \in Spots : FileOf(e)[k] # FileOf(cpu)[k] => k \in {Flat!Home(m, 14), Flat!Home(m, 15)}
          /\ e.psr.i /\ (e.psr.f <=> cpu.psr.f)
          /\ e.spsr[m] = cpu.psr /\ \A bank \in Banks \ {m} : e.spsr[bank] = cpu.spsr[bank]
          /\ FileOf(e)[Flat!Home(m, 14)] = link
      <3>1. m \in Modes /\ m \in {"svc", "irq", "fiq"}
        OBVIOUS
      <3>2. /\ e \in CpuState /\ e.psr.mode = m
            /\ \A k \in Spots : FileOf(e)[k] # FileOf(cpu)[k] => k \in {Flat!Home(m, 14), Flat!Home(m, 15)}
        <4>1. cpu \in CpuState /\ m \in Modes /\ vector \in Word /\ link \in Word
          BY <1>0, <2>1, <3>1
        <4> HIDE DEF Modes, Cells, Banks, Registers
        <4> QED BY <4>1, ExceptionWrites
      <3>3. /\ e.psr.i /\ (e.psr.f <=> cpu.psr.f)
            /\ e.spsr[m] = cpu.psr /\ \A bank \in Banks \ {m} : e.spsr[bank] = cpu.spsr[bank]
            /\ FileOf(e)[Flat!Home(m, 14)] = link
        BY <1>0, <2>1, <3>1, ExceptionValues
      <3> HIDE DEF e
      <3> QED BY <3>2, <3>3
    <2> HIDE DEF e
    <2>3. /\ Fiq => ~cpu.psr.f /\ cpu' = [e EXCEPT !.psr = [@ EXCEPT !.f = TRUE]]
          /\ ~Fiq => ~cpu.psr.i /\ cpu' = e
          /\ Suspend /\ suspended' = Append(suspended, Seen(cpu))
      BY <1>3, <2>0 DEF Fiq, Irq, TakeFiq, TakeIrq, e, link
    <2>4. /\ FileOf(cpu') = FileOf(e) /\ cpu'.spsr = e.spsr /\ cpu'.psr.mode = m /\ cpu'.psr.i
          /\ (cpu'.psr.f <=> Fiq \/ cpu.psr.f)
      <3>1. CASE Fiq
        <4> DEFINE psr == [e.psr EXCEPT !.f = TRUE]
        <4>1. psr \in Psr /\ psr.mode = e.psr.mode /\ psr.i /\ psr.f
          BY <2>2 DEF CpuState, Psr
        <4>3. cpu' = [e EXCEPT !.psr = psr]
          BY <2>3, <3>1
        <4> HIDE DEF psr
        <4>4. cpu'.psr = psr /\ cpu'.spsr = e.spsr
          BY <2>2, <4>3 DEF CpuState
        <4>5. FileOf(cpu') = FileOf(e)
          BY <2>2, <4>1, <4>3, SetPsrWrites
        <4> QED BY <2>2, <3>1, <4>1, <4>4, <4>5
      <3>2. CASE ~Fiq
        BY <2>2, <2>3, <3>2
      <3> QED BY <3>1, <3>2
    <2>5. N > 0 => ~frames[N].hops
      BY <1>L, <2>3
    <2>6. P = cpu.psr /\ cpu.psr.mode \in Levels
      BY <1>L, <1>P, <2>5
    <2>7. N > 0 => Masks(cpu.psr, frames[N].nested)
      BY <1>L, <2>6
    <2>8. /\ m = "fiq" => cpu.psr.mode # "fiq"
          /\ m = "irq" => cpu.psr.mode \notin {"fiq", "irq"} /\ ~cpu.psr.f
      <3>1. CASE N = 0
        BY <1>G, <3>1
      <3>2. CASE N > 0
        BY <2>0, <2>3, <2>6, <2>7, <3>2 DEF Masks, Levels
      <3> QED BY <1>L, <3>1, <3>2
    <2>9. Rank[cpu.psr.mode] < Rank[m]
      BY <2>0, <2>6, <2>8 DEF Rank, Levels
    <2>10. Masks(cpu'.psr, FALSE)
      BY <2>0, <2>4, <2>8 DEF Masks
    <2> DEFINE view == Seen(cpu)
    <2>11. /\ view \in View /\ view.psr = cpu.psr
           /\ view.r[15] = Back(m, FileOf(cpu')[Flat!Home(m, 14)])
           /\ \A n \in Registers \ {15} : view.r[n] = cpu.r[n]
      <3>1. Back(m, link) = cpu.r[15]
        BY <2>1 DEF Back
      <3> QED BY <1>0, <2>2, <2>4, <3>1 DEF Seen, View
    <2>12. suspended' = Append(suspended, view)
      BY <2>3
    <2> HIDE DEF view
    <2>13. Pushes(cpu, cpu', suspended, frames, m, view)
      BY <2>2, <2>4, <2>5, <2>9, <2>10, <2>11 DEF Pushes
    <2>14. \E to : Keeps(cpu', Append(suspended, view), Append(frames, NewFrame), to)
      BY <1>0, <1>T, <1>U, <2>11, <2>13, Push
    <2>15. suspended' \in Seq(View) /\ Len(suspended') = N + 1
      BY <1>0, <2>11, <2>12, AppendProperties
    <2>16. frames' = Append(frames, NewFrame)
      BY <1>S, <2>3
    <2>17. ~(Len(suspended') < Len(suspended))
      BY <1>L, <2>15
    <2>18. \E to : Keeps(cpu', suspended', frames', to)
      BY <2>12, <2>14, <2>16
    <2> QED BY <2>15, <2>17, <2>18
  <1>4. CASE CallKernel
    <2> DEFINE pc == cpu.r[15]
               next == Add(pc, IF cpu.psr.t THEN 2 ELSE 4)
               e == EnterException(cpu, "svc", SwiVector, next)
               before == WriteReg(cpu, 15, next)
    <2>0. N = 0 /\ Suspend /\ cpu' = e /\ suspended' = Append(suspended, Seen(before))
      BY <1>4, <1>H, <1>L DEF CallKernel, Swi, ThumbSwi
    <2>1. next \in Word /\ SwiVector \in Word
      BY <1>0, RegistersAssumption, SMTT(30) DEF Word, Add, SwiVector
    <2> HIDE DEF next
    <2>2. /\ e \in CpuState /\ e.psr.mode = "svc"
          /\ \A k \in Spots : FileOf(e)[k] # FileOf(cpu)[k] => k \in {Flat!Home("svc", 14), Flat!Home("svc", 15)}
          /\ e.psr.i /\ (e.psr.f <=> cpu.psr.f)
          /\ e.spsr["svc"] = cpu.psr /\ \A bank \in Banks \ {"svc"} : e.spsr[bank] = cpu.spsr[bank]
          /\ FileOf(e)[Flat!Home("svc", 14)] = next
      <3>1. /\ e \in CpuState /\ e.psr.mode = "svc"
            /\ \A k \in Spots : FileOf(e)[k] # FileOf(cpu)[k] =>
                  k \in {Flat!Home("svc", 14), Flat!Home("svc", 15)}
        BY <1>0, <2>1, ExceptionWrites
      <3>2. /\ e.psr.i /\ (e.psr.f <=> cpu.psr.f)
            /\ e.spsr["svc"] = cpu.psr /\ \A bank \in Banks \ {"svc"} : e.spsr[bank] = cpu.spsr[bank]
            /\ FileOf(e)[Flat!Home("svc", 14)] = next
        BY <1>0, <2>1, ExceptionValues
      <3> HIDE DEF e
      <3> QED BY <3>1, <3>2
    <2> HIDE DEF e
    <2>3. Masks(cpu'.psr, FALSE)
      BY <1>G, <2>0, <2>2 DEF Masks
    <2>4. /\ before \in CpuState /\ before.psr = cpu.psr /\ before.r[15] = next
          /\ \A n \in Registers \ {15} : before.r[n] = cpu.r[n]
      <3>1. 15 \in Registers
        BY RegistersAssumption
      <3>2. before \in CpuState /\ before.psr = cpu.psr
        BY <1>0, <2>1, <3>1, WriteRegWrites
      <3>3. before.r = [cpu.r EXCEPT ![15] = next]
        BY <1>0 DEF WriteReg, CpuState
      <3> HIDE DEF before
      <3> QED BY <1>0, <3>1, <3>2, <3>3
    <2> HIDE DEF before
    <2> DEFINE view == Seen(before)
    <2>5. /\ view \in View /\ view.psr = cpu.psr
          /\ view.r[15] = Back("svc", FileOf(cpu')[Flat!Home("svc", 14)])
          /\ \A n \in Registers \ {15} : view.r[n] = cpu.r[n]
      BY <1>0, <2>0, <2>2, <2>4 DEF Seen, View, CpuState, Back
    <2>6. Rank[cpu.psr.mode] < Rank["svc"]
      BY <1>G, <2>0 DEF Rank
    <2>7. suspended' = Append(suspended, view)
      BY <2>0
    <2> HIDE DEF view
    <2>8. Pushes(cpu, cpu', suspended, frames, "svc", view)
      <3>1. ~(Len(suspended) > 0)
        BY <2>0
      <3>2. \A k \in Spots : FileOf(cpu')[k] # FileOf(cpu)[k] => k \in {Flat!Home("svc", 14), Flat!Home("svc", 15)}
        BY <2>0, <2>2
      <3>3. cpu'.psr.mode = "svc" /\ cpu'.spsr["svc"] = cpu.psr
              /\ \A bank \in Banks \ {"svc"} : cpu'.spsr[bank] = cpu.spsr[bank]
        BY <2>0, <2>2
      <3> QED BY <2>3, <2>5, <2>6, <3>1, <3>2, <3>3, Zenon DEF Pushes
    <2>9. \E to : Keeps(cpu', Append(suspended, view), Append(frames, NewFrame), to)
      BY <1>0, <1>T, <1>U, <2>5, <2>8, Push
    <2>10. suspended' \in Seq(View) /\ Len(suspended') = N + 1
      BY <1>0, <2>5, <2>7, AppendProperties
    <2>11. frames' = Append(frames, NewFrame)
      BY <1>S, <2>0
    <2>12. ~(Len(suspended') < Len(suspended))
      BY <1>L, <2>10
    <2>13. \E to : Keeps(cpu', suspended', frames', to)
      BY <2>7, <2>9, <2>11
    <2> QED BY <2>10, <2>12, <2>13
  <1>5. CASE EnableNesting
    <2> DEFINE f == [Top EXCEPT !.nested = TRUE, !.spsr = Mrs(cpu, TRUE), !.lr = cpu.r[14]]
               value == [cpu.psr EXCEPT !.i = FALSE]
    <2>0. /\ N > 0 /\ ~frames[N].nested /\ ~frames[N].hops /\ cpu.psr.mode = "svc" /\ suspended' = suspended
          /\ Keep(f) /\ cpu' = Msr(cpu, value) /\ Top = frames[N] /\ frames[N] \in Frame
      BY <1>5, <1>H, <1>L DEF EnableNesting, Mrs
    <2>1. P = cpu.psr
      BY <1>P, <2>0
    <2>2. value \in Psr /\ value.mode = "svc" /\ ~value.i /\ (value.f <=> cpu.psr.f)
      BY <1>0, <2>0 DEF Psr
    <2>3. Mrs(cpu, TRUE) = cpu.spsr["svc"] /\ cpu.spsr["svc"] \in Psr
      BY <1>0, <2>0 DEF Mrs, BankIndex, CpuState
    <2>4. /\ f \in Frame /\ f.nested /\ f.spsr = cpu.spsr["svc"] /\ f.lr = cpu.r[14] /\ ~f.hops
          /\ f.swapped = frames[N].swapped /\ f.user = frames[N].user
      BY <1>0, <2>0, <2>3 DEF Frame
    <2> HIDE DEF f, value
    <2>5. FileOf(cpu') = FileOf(cpu) /\ cpu'.psr = value /\ cpu'.spsr = cpu.spsr
      BY <1>0, <2>0, <2>2, MsrWrites, MsrStatus
    <2>6. Len(frames') = N /\ frames'[N] = f /\ \A k \in 1..N - 1 : frames'[k] = frames[k]
      BY <1>K, <2>0, <2>4
    <2>7. Running(cpu', suspended, frames') = value
      BY <2>4, <2>5, <2>6 DEF Running
    <2>8. Masks(value, f.nested)
      <3>1. Masks(cpu.psr, frames[N].nested)
        BY <1>L, <2>0, <2>1
      <3> QED BY <2>0, <2>2, <2>4, <3>1 DEF Masks
    <2>9. /\ Link(cpu', f, "svc") = Link(cpu, frames[N], "svc")
          /\ SavedPsr(cpu', f, "svc") = SavedPsr(cpu, frames[N], "svc")
      <3>1. cpu.r[14] = FileOf(cpu)[Flat!Home("svc", 14)]
        BY <1>0, <2>0, SeenIsFile
      <3> QED BY <2>0, <2>4, <3>1 DEF Link, SavedPsr
    <2> DEFINE m == P.mode
    <2>m. m = "svc"
      BY <2>0, <2>1
    <2>10. m = Running(cpu, suspended, frames).mode /\ Running(cpu', suspended, frames').mode = m
      BY <2>0, <2>1, <2>2, <2>7 DEF P
    <2> HIDE DEF m
    <2>11. /\ Masks(Running(cpu', suspended, frames'), frames'[N].nested)
           /\ Link(cpu', frames'[N], m) = Link(cpu, frames[N], m)
           /\ SavedPsr(cpu', frames'[N], m) = SavedPsr(cpu, frames[N], m)
           /\ ~frames'[N].hops
           /\ \A bank \in Banks \ {m} : cpu'.spsr[bank] = cpu.spsr[bank]
           /\ \A k \in Spots : FileOf(cpu')[k] # FileOf(cpu)[k] => Private(m, k) \/ UserSpot(k)
           /\ \A n \in UserRegisters :
                 (IF frames'[N].swapped THEN frames'[N].user[n] ELSE FileOf(cpu')[Flat!Home("usr", n)])
                   = (IF frames[N].swapped THEN frames[N].user[n] ELSE FileOf(cpu)[Flat!Home("usr", n)])
      BY <2>m, <2>4, <2>5, <2>6, <2>7, <2>8, <2>9
    <2>12. \E to : Keeps(cpu', suspended, frames', to)
      <3>1. Stays(cpu, cpu', suspended, frames, frames', m)
        BY <1>L, <2>0, <2>6, <2>10, <2>11 DEF Stays
      <3> QED BY <1>0, <1>T, <1>U, <3>1, InPlace
    <2> QED BY <1>0, <1>L, <2>0, <2>12
  <1>6. CASE EndNesting
    <2> DEFINE f == [Top EXCEPT !.nested = FALSE]
               value == [cpu.psr EXCEPT !.i = TRUE]
               masked == Msr(cpu, value)
               w == WriteReg(masked, 14, Top.lr)
               m == P.mode
    <2>0. /\ N > 0 /\ frames[N].nested /\ ~frames[N].hops /\ suspended' = suspended
          /\ Keep(f) /\ cpu' = MsrSpsr(w, Top.spsr) /\ Top = frames[N] /\ frames[N] \in Frame
      BY <1>6, <1>H, <1>L DEF EndNesting, Mrs
    <2>1. P = cpu.psr /\ cpu.psr.mode = m /\ m # "usr" /\ m \in Levels /\ m \in Modes /\ m \in Banks /\ BankIndex(m) = m
      BY <1>L, <1>M, <1>P, <2>0
    <2>2. value \in Psr /\ value.mode = m /\ value.i /\ (value.f <=> cpu.psr.f)
      BY <1>0, <2>1 DEF Psr
    <2>4. /\ f \in Frame /\ ~f.nested /\ ~f.hops /\ f.swapped = frames[N].swapped /\ f.user = frames[N].user
      BY <2>0 DEF Frame
    <2>l. Top.lr \in Word /\ Top.spsr \in Psr /\ 14 \in Registers
      BY <2>0 DEF Frame
    <2> HIDE DEF f, value, m
    <2>5. masked \in CpuState /\ FileOf(masked) = FileOf(cpu) /\ masked.psr = value /\ masked.spsr = cpu.spsr
      BY <1>0, <2>1, <2>2, MsrWrites, MsrStatus
    <2> HIDE DEF masked
    <2>6. /\ w \in CpuState /\ w.psr = value /\ w.spsr = cpu.spsr
          /\ \A k \in Spots : FileOf(w)[k] # FileOf(cpu)[k] => k = Flat!Home(m, 14)
      <3>1. /\ w \in CpuState /\ w.psr = masked.psr /\ w.spsr = masked.spsr
            /\ \A k \in Spots : FileOf(w)[k] # FileOf(masked)[k] => k = Flat!Home(masked.psr.mode, 14)
        BY <2>5, <2>l, WriteRegWrites
      <3> HIDE DEF w
      <3> QED BY <2>2, <2>5, <3>1
    <2>7. FileOf(w)[Flat!Home(m, 14)] = Top.lr
      <3>1. w.r[14] = Top.lr
        BY <2>5, <2>l DEF WriteReg, CpuState
      <3> HIDE DEF w
      <3>2. w.r[14] = FileOf(w)[Flat!Home(m, 14)]
        BY <2>2, <2>6, <2>l, SeenIsFile
      <3> QED BY <3>1, <3>2
    <2> HIDE DEF w
    <2> DEFINE spsr == [cpu.spsr EXCEPT ![m] = Top.spsr]
    <2>8. cpu' = [w EXCEPT !.spsr = spsr] /\ spsr \in [Banks -> Psr]
      BY <1>0, <2>0, <2>1, <2>2, <2>6, <2>l DEF MsrSpsr, CpuState
    <2>s. spsr[m] = Top.spsr /\ \A bank \in Banks \ {m} : spsr[bank] = cpu.spsr[bank]
      BY <1>0, <2>1 DEF CpuState
    <2> HIDE DEF spsr
    <2>9. FileOf(cpu') = FileOf(w) /\ cpu'.psr = value /\ cpu'.spsr = spsr
      BY <2>6, <2>8, SetSpsrWrites DEF CpuState
    <2>10. Len(frames') = N /\ frames'[N] = f /\ \A k \in 1..N - 1 : frames'[k] = frames[k]
      BY <1>K, <2>0, <2>4
    <2>11. Running(cpu', suspended, frames') = value
      BY <2>4, <2>9, <2>10 DEF Running
    <2>12. Masks(value, f.nested)
      <3>1. Masks(cpu.psr, frames[N].nested)
        BY <1>L, <2>0, <2>1
      <3>2. cpu.psr.mode = m
        BY <2>1 DEF m
      <3> QED BY <2>1, <2>2, <2>4, <3>1, <3>2 DEF Masks
    <2>13. /\ Link(cpu', f, m) = Link(cpu, frames[N], m)
           /\ SavedPsr(cpu', f, m) = SavedPsr(cpu, frames[N], m)
      BY <2>0, <2>4, <2>7, <2>9, <2>s DEF Link, SavedPsr
    <2>14. \A k \in Spots : FileOf(cpu')[k] # FileOf(cpu)[k] => Private(m, k)
      BY <2>1, <2>6, <2>9, <2>l, PrivateCells
    <2>15. ASSUME NEW n \in UserRegisters
           PROVE  FileOf(cpu')[Flat!Home("usr", n)] = FileOf(cpu)[Flat!Home("usr", n)]
      <3>1. n \in Registers /\ "usr" \in Levels /\ "usr" \in Modes
        BY DEF UserRegisters, Levels
      <3>2. Flat!Home("usr", n) \in Spots /\ ~Private(m, Flat!Home("usr", n))
        BY <2>1, <3>1, Homes, PrivateCells
      <3> QED BY <2>14, <3>2
    <2>16. m = Running(cpu, suspended, frames).mode
      BY DEF m, P
    <2>17. \E to : Keeps(cpu', suspended, frames', to)
      <3>1. Stays(cpu, cpu', suspended, frames, frames', m)
        BY <1>L, <2>0, <2>2, <2>4, <2>9, <2>10, <2>11, <2>12, <2>13, <2>14, <2>15, <2>16, <2>s DEF Stays
      <3> QED BY <1>0, <1>T, <1>U, <3>1, InPlace
    <2> QED BY <1>0, <1>L, <2>0, <2>17
  <1>7. CASE Hop \/ HopBack
    <2> DEFINE f == IF Hop THEN [Top EXCEPT !.hops = TRUE, !.hop = cpu.psr] ELSE [Top EXCEPT !.hops = FALSE]
    <2>0. /\ N > 0 /\ suspended' = suspended /\ Keep(f) /\ Top = frames[N] /\ frames[N] \in Frame
          /\ Hop <=> ~frames[N].hops
      BY <1>7, <1>H, <1>L DEF Hop, HopBack, Mrs
    <2>1. PICK value \in Psr : /\ cpu' = Msr(cpu, value)
                               /\ Hop => value.mode # "usr" /\ value.i /\ value.f
                               /\ ~Hop => value = frames[N].hop
      <3>1. CASE Hop
        <4>1. PICK mode \in Modes \ {"usr"} :
                 cpu' = Msr(cpu, [cpu.psr EXCEPT !.mode = mode, !.i = TRUE, !.f = TRUE])
          BY <3>1 DEF Hop, Mrs
        <4> DEFINE value == [cpu.psr EXCEPT !.mode = mode, !.i = TRUE, !.f = TRUE]
        <4>2. value \in Psr /\ value.mode # "usr" /\ value.i /\ value.f
          BY <1>0 DEF Psr
        <4> HIDE DEF value
        <4> QED BY <3>1, <4>1, <4>2 DEF value
      <3>2. CASE ~Hop
        BY <1>7, <2>0, <3>2 DEF HopBack, Frame
      <3> QED BY <3>1, <3>2
    <2>2. cpu.psr.mode # "usr"
      BY <1>L, <1>P, <2>0
    <2>3. FileOf(cpu') = FileOf(cpu) /\ cpu'.psr = value /\ cpu'.spsr = cpu.spsr
      BY <1>0, <2>1, <2>2, MsrWrites, MsrStatus
    <2>4. /\ f \in Frame /\ f.nested = frames[N].nested /\ f.spsr = frames[N].spsr /\ f.lr = frames[N].lr
          /\ f.swapped = frames[N].swapped /\ f.user = frames[N].user
          /\ (f.hops <=> Hop) /\ (Hop => f.hop = cpu.psr)
      <3>1. CASE Hop
        BY <1>0, <2>0, <3>1 DEF Frame
      <3>2. CASE ~Hop
        BY <2>0, <3>2 DEF Frame
      <3> QED BY <3>1, <3>2
    <2> HIDE DEF f
    <2>5. Len(frames') = N /\ frames'[N] = f /\ \A k \in 1..N - 1 : frames'[k] = frames[k]
      BY <1>K, <2>0, <2>4
    <2>6. Running(cpu', suspended, frames') = P
      <3>1. CASE Hop
        BY <1>P, <2>0, <2>4, <2>5, <3>1 DEF Running
      <3>2. CASE ~Hop
        BY <2>0, <2>1, <2>3, <2>4, <2>5, <3>2 DEF Running, P
      <3> QED BY <3>1, <3>2
    <2> DEFINE m == P.mode
    <2>7. /\ Link(cpu', f, m) = Link(cpu, frames[N], m)
          /\ SavedPsr(cpu', f, m) = SavedPsr(cpu, frames[N], m)
      BY <2>3, <2>4 DEF Link, SavedPsr
    <2>8. Masks(P, f.nested)
      <3>1. Masks(P, frames[N].nested)
        BY <1>L, <2>0
      <3> QED BY <2>4, <3>1
    <2>9. f.hops => cpu'.psr.i /\ cpu'.psr.f /\ cpu'.psr.mode # "usr"
      BY <2>1, <2>3, <2>4
    <2>10. m = Running(cpu, suspended, frames).mode
      BY DEF P
    <2>11. Running(cpu', suspended, frames').mode = m
      BY <2>6
    <2> HIDE DEF m
    <2>12. \E to : Keeps(cpu', suspended, frames', to)
      <3>1. Stays(cpu, cpu', suspended, frames, frames', m)
        BY <1>L, <2>0, <2>3, <2>4, <2>5, <2>6, <2>7, <2>8, <2>9, <2>10, <2>11 DEF Stays
      <3> QED BY <1>0, <1>T, <1>U, <3>1, InPlace
    <2> QED BY <1>0, <1>L, <2>0, <2>12
  <1>8. CASE SwapUser \/ SwapBack
    <2> DEFINE f == IF SwapUser THEN [Top EXCEPT !.swapped = TRUE,
                                                 !.user = [n \in UserRegisters |-> ReadUserBankReg(cpu, n)]]
                    ELSE [Top EXCEPT !.swapped = FALSE]
    <2>0. /\ N > 0 /\ suspended' = suspended /\ Keep(f) /\ Top = frames[N] /\ frames[N] \in Frame
          /\ ~frames[N].hops /\ (SwapUser <=> ~frames[N].swapped)
      BY <1>8, <1>H, <1>L DEF SwapUser, SwapBack
    <2>1. PICK values \in [UserRegisters -> Word] : /\ cpu' = WriteUserBankRegs(cpu, values)
                                                    /\ ~SwapUser => values = frames[N].user
      <3>1. CASE SwapUser
        <4>1. PICK value \in Values : cpu' = WriteUserBankRegs(cpu, [n \in UserRegisters |-> value])
          BY <3>1 DEF SwapUser
        <4>2. [n \in UserRegisters |-> value] \in [UserRegisters -> Word]
          BY CpuModesAssumption
        <4> QED BY <3>1, <4>1, <4>2
      <3>2. CASE ~SwapUser
        BY <1>8, <2>0, <3>2 DEF SwapBack, Frame
      <3> QED BY <3>1, <3>2
    <2>2. /\ cpu'.psr = cpu.psr /\ cpu'.spsr = cpu.spsr
          /\ \A k \in Spots : FileOf(cpu')[k] # FileOf(cpu)[k] => UserSpot(k)
          /\ \A n \in UserRegisters : FileOf(cpu')[Flat!Home("usr", n)] = values[n]
      BY <1>0, <2>1, UserBankWrites, UserBankValues DEF UserSpot
    <2>3. [n \in UserRegisters |-> ReadUserBankReg(cpu, n)] \in [UserRegisters -> Word]
      <3>1. SUFFICES ASSUME NEW n \in UserRegisters PROVE ReadUserBankReg(cpu, n) \in Word
        OBVIOUS
      <3>2. n \in Registers /\ Cell("usr", n) \in Cells
        BY DEF UserRegisters, Cell
      <3> QED BY <1>0, <3>2 DEF ReadUserBankReg, CpuState
    <2>4. /\ f \in Frame /\ f.nested = frames[N].nested /\ f.spsr = frames[N].spsr /\ f.lr = frames[N].lr
          /\ ~f.hops /\ (f.swapped <=> SwapUser)
          /\ SwapUser => \A n \in UserRegisters : f.user[n] = FileOf(cpu)[Flat!Home("usr", n)]
      <3>1. CASE SwapUser
        <4>1. f \in Frame
          BY <2>0, <2>3, <3>1 DEF Frame
        <4>2. f.user = [n \in UserRegisters |-> ReadUserBankReg(cpu, n)]
          BY <2>0, <3>1 DEF Frame
        <4>3. \A n \in UserRegisters : f.user[n] = FileOf(cpu)[Flat!Home("usr", n)]
          BY <1>0, <4>2, UserIsFile
        <4>4. /\ f.nested = frames[N].nested /\ f.spsr = frames[N].spsr /\ f.lr = frames[N].lr
              /\ ~f.hops /\ f.swapped
          BY <2>0, <3>1 DEF Frame
        <4> QED BY <3>1, <4>1, <4>3, <4>4
      <3>2. CASE ~SwapUser
        BY <2>0, <3>2 DEF Frame
      <3> QED BY <3>1, <3>2
    <2> HIDE DEF f
    <2>5. Len(frames') = N /\ frames'[N] = f /\ \A k \in 1..N - 1 : frames'[k] = frames[k]
      BY <1>K, <2>0, <2>4
    <2>6. P = cpu.psr /\ Running(cpu', suspended, frames') = P
      BY <1>P, <2>0, <2>2, <2>4, <2>5 DEF Running
    <2> DEFINE m == P.mode
    <2>m. m \in Levels /\ m \in Modes /\ m # "usr" /\ 14 \in Registers
      BY <1>L, <1>M, <2>0
    <2>7. FileOf(cpu')[Flat!Home(m, 14)] = FileOf(cpu)[Flat!Home(m, 14)]
      <3>1. Flat!Home(m, 14) \in Spots /\ ~UserSpot(Flat!Home(m, 14))
        BY <2>m, Homes, PrivateCells
      <3> QED BY <2>2, <3>1
    <2>8. /\ Link(cpu', f, m) = Link(cpu, frames[N], m)
          /\ SavedPsr(cpu', f, m) = SavedPsr(cpu, frames[N], m)
      BY <2>2, <2>4, <2>7 DEF Link, SavedPsr
    <2>9. Masks(P, f.nested)
      <3>1. Masks(P, frames[N].nested)
        BY <1>L, <2>0
      <3> QED BY <2>4, <3>1
    <2>10. m = Running(cpu, suspended, frames).mode
      BY DEF P
    <2>11. Running(cpu', suspended, frames').mode = m
      BY <2>6
    <2>12. ASSUME NEW n \in UserRegisters
           PROVE  (IF f.swapped THEN f.user[n] ELSE FileOf(cpu')[Flat!Home("usr", n)])
                    = (IF frames[N].swapped THEN frames[N].user[n] ELSE FileOf(cpu)[Flat!Home("usr", n)])
      BY <2>0, <2>1, <2>2, <2>4
    <2> HIDE DEF m
    <2>13. \E to : Keeps(cpu', suspended, frames', to)
      <3>1. Stays(cpu, cpu', suspended, frames, frames', m)
        BY <1>L, <2>0, <2>2, <2>4, <2>5, <2>6, <2>8, <2>9, <2>10, <2>11, <2>12 DEF Stays
      <3> QED BY <1>0, <1>T, <1>U, <3>1, InPlace
    <2> QED BY <1>0, <1>L, <2>0, <2>13
  <1>9. CASE Return
    <2> DEFINE back == IF cpu.psr.mode = "svc" THEN cpu.r[14] ELSE (cpu.r[14] + Span - 4) % Span
               m == cpu.psr.mode
               d == RestorePsr(cpu)
    <2>0. /\ N > 0 /\ ~frames[N].nested /\ ~frames[N].hops /\ ~frames[N].swapped
          /\ cpu' = WriteReg(d, 15, back) /\ suspended' = Front(suspended) /\ frames' = Front(frames)
      BY <1>9, <1>H DEF Return
    <2>1. back \in Word /\ back = Back(m, cpu.r[14])
      <3>1. back \in Word
        BY <1>0, RegistersAssumption, SMTT(30) DEF Word
      <3> QED BY <3>1 DEF Back
    <2>2. BankIndex(m) = m
      BY <1>M, <1>P, <2>0
    <2>3. d \in CpuState /\ FileOf(d) = FileOf(cpu) /\ d.spsr = cpu.spsr /\ d.psr = cpu.spsr[m]
      BY <1>0, <2>2, RestoreWrites, RestoreStatus
    <2> HIDE DEF back, d
    <2>4. 15 \in Registers
      BY RegistersAssumption
    <2>5. /\ cpu'.psr = cpu.spsr[m] /\ cpu'.spsr = cpu.spsr
          /\ \A k \in Spots : FileOf(cpu')[k] # FileOf(cpu)[k] => k = Flat!Home(d.psr.mode, 15)
      BY <2>0, <2>1, <2>3, <2>4, WriteRegWrites
    <2>6. cpu'.r[15] = back
      BY <2>0, <2>3, <2>4 DEF WriteReg, CpuState
    <2>7. \A k \in Spots : FileOf(cpu')[k] # FileOf(cpu)[k] => k[2] = 15
      <3>1. d.psr.mode \in Modes
        BY <2>3 DEF CpuState, Psr
      <3>2. Flat!Home(d.psr.mode, 15)[2] = 15
        BY <2>4, <3>1, Homes
      <3> QED BY <2>5, <3>2
    <2>8. Seen(cpu') = suspended[N] /\ \E to : Keeps(cpu', Front(suspended), Front(frames), to)
      BY <1>0, <1>T, <1>U, <2>0, <2>1, <2>5, <2>6, <2>7, Pop
    <2>9. suspended' \in Seq(View)
      <3>1. \A i \in 1..(N - 1) : suspended[i] \in View
        BY <1>0, ElementOfSeq
      <3> QED BY <1>0, <1>L, <2>0, <3>1, SubSeqProperties DEF Front
    <2> QED BY <1>H, <1>L, <2>0, <2>8, <2>9
  <1> QED
    BY <1>1, <1>2, <1>3, <1>4, <1>5, <1>6, <1>7, <1>8, <1>9 DEF ModesNext

\* The code that an exception interrupts sees the same registers and the same
\* status after the handler returned, at each depth of exceptions
\* (arm_enter_exception, cpu.c:216, and the return of exec_data_processing).
THEOREM HandlersReturnTransparently == ModesSpec => HandlersAreTransparent
  <1>1. ModesInit => Transparent
    BY InitTransparent
  <1>2. Transparent /\ [ModesNext]_modesVars =>
          Transparent' /\ [Len(suspended') < Len(suspended) => Seen(cpu') = Last(suspended)]_modesVars
    BY StepTransparent
  <1> QED BY <1>1, <1>2, PTL DEF ModesSpec, HandlersAreTransparent
=============================================================================
