------------------------------ MODULE ThumbExec ------------------------------
(* The Thumb instructions of thumb_exec.c, which has its own implementation   *)
(* of each: only the adder, the shifter, the conditions, BX and the exception *)
(* entry are shared with the ARM instructions.                                *)
EXTENDS ArmExec

\* exec_move_shifted, and the shifts of exec_alu
ThumbShift(c, i, value, amount, immediate) ==
    LET s == Shift(i.type, value, amount, c.psr.c, immediate)
    IN [WriteReg(c, i.rd, s.value) EXCEPT !.psr = [SetNZ(@, s.value) EXCEPT !.c = s.carry]]

MoveShifted(c, i) == ThumbShift(c, i, c.r[i.rs], i.amount, TRUE)
ShiftByReg(c, i)  == AddCycles(ThumbShift(c, i, c.r[i.rd], c.r[i.rs] % Amounts, FALSE), 1)

\* exec_add_sub and exec_immediate_alu: the operand is a register or a number.
ThumbOperand(c, o) == IF o.kind = "imm" THEN o.value ELSE c.r[o.rm]

Arithmetic(c, i, a, b) ==
    LET result == IF i.type \in {"sub", "cmp"} THEN Adc(a, Complement(b), TRUE) ELSE Adc(a, b, FALSE)
        s == [c EXCEPT !.psr = SetFlags(@, result)]
    IN IF i.type = "cmp" THEN s ELSE WriteReg(s, i.rd, result.value)

AddSub(c, i) == Arithmetic(c, i, c.r[i.rs], ThumbOperand(c, i.operand))

ImmediateAlu(c, i) ==
    IF i.type = "mov" THEN [WriteReg(c, i.rd, i.value) EXCEPT !.psr = SetNZ(@, i.value)]
    ELSE Arithmetic(c, i, c.r[i.rd], i.value)

\* exec_alu without its shifts: the logical operations keep C and V.
ThumbLogic(type, a, b) ==
    CASE type \in {"and", "tst"} -> a & b
      [] type = "eor" -> a ^^ b
      [] type = "orr" -> a | b
      [] type = "bic" -> a & Complement(b)
      [] type = "mvn" -> Complement(b)
      [] type = "mul" -> (a * b) % Span

ThumbArithmetic(type, a, b, psr) ==
    CASE type = "adc" -> Adc(a, b, psr.c)
      [] type = "sbc" -> Adc(a, Complement(b), psr.c)
      [] type = "neg" -> Adc(0, Complement(b), TRUE)
      [] type = "cmp" -> Adc(a, Complement(b), TRUE)
      [] type = "cmn" -> Adc(a, b, FALSE)

ThumbAlu(c, i) ==
    LET a == c.r[i.rd]
        b == c.r[i.rs]
        psr == IF i.type \in {"adc", "sbc", "neg", "cmp", "cmn"}
               THEN SetFlags(c.psr, ThumbArithmetic(i.type, a, b, c.psr))
               ELSE SetNZ(c.psr, ThumbLogic(i.type, a, b))
        value == IF i.type \in {"adc", "sbc", "neg", "cmp", "cmn"}
                 THEN ThumbArithmetic(i.type, a, b, c.psr).value ELSE ThumbLogic(i.type, a, b)
        s == [c EXCEPT !.psr = psr]
        t == IF i.type \in {"tst", "cmp", "cmn"} THEN s ELSE WriteReg(s, i.rd, value)
    IN AddCycles(t, IF i.type = "mul" THEN MulCycles(b) ELSE 0)

\* exec_hi_reg_ops: a write of the pc clears bit 0.
HiRegOps(c, i, pc) ==
    LET a == ReadReg(c, i.rd, pc)
        b == ReadReg(c, i.rs, pc)
        value == IF i.type = "add" THEN Add(a, b) ELSE b
    IN CASE i.type = "bx"  -> BranchExchange(c, b)
         [] i.type = "cmp" -> [c EXCEPT !.psr = SetFlags(@, Adc(a, Complement(b), TRUE))]
         [] i.type \in {"add", "mov"} /\ i.rd = 15 -> Refill(WriteReg(c, 15, Aligned(value, 2)))
         [] OTHER -> WriteReg(c, i.rd, value)

-----------------------------------------------------------------------------
(* Transfers                                                                  *)

WordLoad(c, rd, a) == AddCycles(WriteReg(Charge(c, a, 4), rd, Read32(c, a)), 1)

PcRelativeLoad(c, i, pc) == WordLoad(c, i.rd, Add(Aligned(Add(pc, 4), 4), i.offset))

\* Formats 7, 8, 9, 10 and 11: the address of a register and a register, or of
\* a register and a number.  No size rotates.
ThumbLoaded(c, size, a) ==
    CASE size = "word" -> Read32(c, Aligned(a, 4))
      [] size = "byte" -> Read8(c, a)
      [] size = "half" -> Read16(c, Aligned(a, 2))
      [] size = "signed_byte" -> SignExtend(Read8(c, a), Byte)
      [] size = "signed_half" -> SignExtend(Read16(c, Aligned(a, 2)), Half)

ThumbTransfer(c, i) ==
    LET n == SizeOf(i.size)
        address == Add(c.r[i.rb], ThumbOperand(c, i.operand))
        a == Aligned(address, n)
    IN IF i.load
       THEN AddCycles(WriteReg(Charge(c, a, n), i.rd, ThumbLoaded(c, i.size, address)), 1)
       ELSE Write(c, a, n, c.r[i.rd])

\* Mutant: the pc is not aligned before the addition.
LoadAddressUnaligned(c, i, pc) == WriteReg(c, i.rd, Add(IF i.sp THEN c.r[13] ELSE Add(pc, 4), i.value))

LoadAddress(c, i, pc) ==
    WriteReg(c, i.rd, Add(IF i.sp THEN c.r[13] ELSE Aligned(Add(pc, 4), 4), i.value))

AddSpOffset(c, i) == WriteReg(c, 13, (c.r[13] + Span + i.value) % Span)

\* The registers of a list, the lowest first, from an address on.
Position(list, n) == 4 * Cardinality({k \in list : k < n})

LoadList(c, list, from) ==
    FoldSet(LAMBDA n, x :
                LET a == Aligned(Add(from, Position(list, n)), 4)
                IN WriteReg(Charge(x, a, 4), n, Read32(c, a)), c, list)

StoreList(c, list, from, align) ==
    FoldSet(LAMBDA n, x :
                LET a == Add(from, Position(list, n))
                IN Write(x, IF align THEN Aligned(a, 4) ELSE a, 4, c.r[n]), c, list)

\* exec_push_pop: the extra register is LR of a PUSH and the pc of a POP.
Push(c, i) ==
    LET list == i.list \cup (IF i.extra THEN {14} ELSE {})
        to   == (c.r[13] + 2 * Span - 4 * Cardinality(list)) % Span
    IN WriteReg(StoreList(c, list, to, FALSE), 13, to)

Pop(c, i) ==
    LET list == i.list \cup (IF i.extra THEN {15} ELSE {})
        s    == LoadList(c, list, c.r[13])
        t    == WriteReg(s, 13, Add(c.r[13], 4 * Cardinality(list)))
        u    == IF i.extra THEN Refill(WriteReg(t, 15, Aligned(t.r[15], 2))) ELSE t
    IN AddCycles(u, 1)

\* exec_multiple_transfer
MultipleTransfer(c, i) ==
    LET s == IF i.load THEN AddCycles(LoadList(c, i.list, c.r[i.rb]), 1)
             ELSE StoreList(c, i.list, c.r[i.rb], TRUE)
    IN WriteReg(s, i.rb, Add(c.r[i.rb], 4 * Cardinality(i.list)))

-----------------------------------------------------------------------------
(* Branches                                                                   *)

ThumbBranch(c, i, pc) ==
    IF ConditionPassed(c.psr, i.cond) THEN Refill(WriteReg(c, 15, (pc + 4 + Span + i.offset) % Span)) ELSE c

\* exec_long_branch_link: the two halves of BL.
BranchLinkHigh(c, i, pc) == WriteReg(c, 14, (pc + 4 + Span + i.offset) % Span)
BranchLinkLow(c, i, pc) ==
    LET return == Add(pc, 2) + Bit(Add(pc, 2) % 2 = 0)
    IN Refill(WriteReg(WriteReg(c, 14, return), 15, Add(c.r[14], i.offset)))

-----------------------------------------------------------------------------
\* thumb_execute
ThumbExecute(c, i, pc) ==
    CASE i.op = "shift"    -> MoveShifted(c, i)
      [] i.op = "shift_by" -> ShiftByReg(c, i)
      [] i.op = "add_sub"  -> AddSub(c, i)
      [] i.op = "imm_alu"  -> ImmediateAlu(c, i)
      [] i.op = "alu"      -> ThumbAlu(c, i)
      [] i.op = "hi"       -> HiRegOps(c, i, pc)
      [] i.op = "load_pc"  -> PcRelativeLoad(c, i, pc)
      [] i.op = "transfer" -> ThumbTransfer(c, i)
      [] i.op = "address"  -> LoadAddress(c, i, pc)
      [] i.op = "add_sp"   -> AddSpOffset(c, i)
      [] i.op = "push"     -> Push(c, i)
      [] i.op = "pop"      -> Pop(c, i)
      [] i.op = "multiple" -> MultipleTransfer(c, i)
      [] i.op = "b"        -> ThumbBranch(c, i, pc)
      [] i.op = "bl_high"  -> BranchLinkHigh(c, i, pc)
      [] i.op = "bl_low"   -> BranchLinkLow(c, i, pc)
      [] i.op = "swi"      -> Refill(ThumbSwi(c, pc))
      [] i.op = "undef"    -> [c EXCEPT !.unimplemented = TRUE]

\* arm7tdmi_step in the Thumb state, without the cost of the fetch.
ThumbStep(c, i) ==
    LET pc == c.r[15] IN ThumbExecute(WriteReg(c, 15, Add(pc, 2)), i, pc)
=============================================================================
