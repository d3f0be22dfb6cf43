------------------------------- MODULE ArmExec -------------------------------
(* The bus, the flags and the shifter, and the ARM instructions of arm_exec.c.*)
(* An instruction is a record of its fields, and each operator is the machine *)
(* after one of them.                                                         *)
EXTENDS ArmRegisters, FiniteSetsExt, Bitwise

-----------------------------------------------------------------------------
(* The bus of memory.c as the CPU sees it: regions with their wait states, a  *)
(* RAM with one byte that can be locked, a ROM, and the count of accesses     *)
(* that can have an effect.  A word has four bytes, least significant first.  *)

CONSTANTS
    Bits,    \* the bits of a word
    Map,     \* the region of each address; an address without one reads as 0
    Rom      \* the byte at each address of the BIOS

ASSUME BusAssumption ==
    /\ Bits % 4 = 0
    /\ Span = 2^Bits
    /\ Map \in [Word -> {"ram", "bios", "flash", "flash_ctrl", "vram", "open"}]
    /\ \A a \in DOMAIN Rom : Map[a] = "bios"

Half == 2^(Bits \div 2)
Byte == 2^(Bits \div 4)

RamAddresses == {a \in Word : Map[a] = "ram"}

ByteOf(value, k) == (value \div (Byte^k)) % Byte

AddCycles(b, n) == [b EXCEPT !.cost = @ + n]

DataCycles(address) == IF Map[address] \in {"ram", "flash_ctrl"} THEN 1 ELSE 2

FetchCycles(address, thumb) ==
    IF Map[address] = "ram" \/ (thumb /\ Map[address] \in {"flash", "bios"}) THEN 1 ELSE 2

Peek(b, address) ==
    CASE Map[address] = "ram"  -> b.ram[address]
      [] Map[address] = "bios" -> Rom[address]
      [] OTHER                 -> 0

\* psemu_bus_read8, read16 and read32: one charge for each access.
Read8(b, a)  == Peek(b, a)
Read16(b, a) == Peek(b, a) + Byte * Peek(b, Add(a, 1))
Read32(b, a) == Read16(b, a) + Half * Read16(b, Add(a, 2))

\* The effect of a read of n bytes on the counters.
Charge(b, a, n) ==
    [AddCycles(b, DataCycles(a)) EXCEPT
        !.side = @ + IF Map[a] \in {"flash_ctrl", "vram", "open"} THEN n ELSE 0]

\* psemu_bus_write8, write16 and write32: the bytes that are in RAM and not
\* locked change.
Write(b, a, n, value) ==
    [AddCycles(b, DataCycles(a)) EXCEPT
        !.side = @ + n,
        !.ram = [x \in RamAddresses |->
                   IF x # b.lock /\ (x - a) % Span < n THEN ByteOf(value, (x - a) % Span) ELSE @[x]]]

-----------------------------------------------------------------------------
-----------------------------------------------------------------------------
(* The conditions, the adder, the shifter and the multiplier that both        *)
(* instruction sets use (cpu.c and arm_exec.c).                               *)

CONSTANT Amounts  \* 256: the low byte of a register that holds a shift amount

ASSUME AmountsAssumption == Amounts \in Nat \ {0}

Negative(value)  == 2 * value >= Span
Signed(value)    == IF Negative(value) THEN value - Span ELSE value
Complement(value) == Span - 1 - value
BitSet(value, k) == (value \div (2^k)) % 2 = 1
Bit(condition)   == IF condition THEN 1 ELSE 0

\* arm_condition_passed
ConditionPassed(psr, cond) ==
    CASE cond = "eq" -> psr.z         [] cond = "ne" -> ~psr.z
      [] cond = "cs" -> psr.c         [] cond = "cc" -> ~psr.c
      [] cond = "mi" -> psr.n         [] cond = "pl" -> ~psr.n
      [] cond = "vs" -> psr.v         [] cond = "vc" -> ~psr.v
      [] cond = "hi" -> psr.c /\ ~psr.z
      [] cond = "ls" -> ~psr.c \/ psr.z
      [] cond = "ge" -> psr.n = psr.v
      [] cond = "lt" -> psr.n # psr.v
      [] cond = "gt" -> psr.n = psr.v /\ ~psr.z
      [] cond = "le" -> psr.n # psr.v \/ psr.z
      [] cond = "al" -> TRUE
      [] cond = "nv" -> FALSE

Result(value, carry, overflow) == [value |-> value, carry |-> carry, overflow |-> overflow]

\* Mutant: overflow whenever the sign changes.
AdcSignChange(a, b, carry) ==
    LET sum == a + b + Bit(carry)
    IN Result(sum % Span, sum >= Span, Negative(a) # Negative(sum % Span))

\* arm_adc_raw
Adc(a, b, carry) ==
    LET sum == a + b + Bit(carry)
    IN Result(sum % Span, sum >= Span,
              Negative(a) = Negative(b) /\ Negative(a) # Negative(sum % Span))

SetNZ(psr, value) == [psr EXCEPT !.n = Negative(value), !.z = (value = 0)]

SetFlags(psr, result) ==
    [SetNZ(psr, result.value) EXCEPT !.c = result.carry, !.v = result.overflow]

\* arm_apply_shift with an amount other than 0.
ShiftBy(type, value, n) ==
    LET in == n < Bits IN
    CASE type = "lsl" -> [value |-> IF in THEN (value * 2^n) % Span ELSE 0,
                          carry |-> n <= Bits /\ BitSet(value, Bits - n)]
      [] type = "lsr" -> [value |-> IF in THEN value \div 2^n ELSE 0,
                          carry |-> n <= Bits /\ BitSet(value, n - 1)]
      [] type = "asr" -> [value |-> IF in THEN (Signed(value) \div 2^n) % Span
                                    ELSE IF Negative(value) THEN Span - 1 ELSE 0,
                          carry |-> IF in THEN BitSet(value, n - 1) ELSE Negative(value)]
      [] type = "ror" -> LET k == n % Bits IN
                         [value |-> value \div 2^k + (value % 2^k) * 2^(Bits - k),
                          carry |-> BitSet(value, (k + Bits - 1) % Bits)]

\* arm_apply_shift: an encoded amount of 0 stands for 32, or for RRX.
Shift(type, value, amount, carry, immediate) ==
    CASE amount # 0 -> ShiftBy(type, value, amount)
      [] amount = 0 /\ immediate /\ type \in {"lsr", "asr"} -> ShiftBy(type, value, Bits)
      [] amount = 0 /\ immediate /\ type = "ror" ->
            [value |-> value \div 2 + Bit(carry) * (Span \div 2), carry |-> BitSet(value, 0)]
      [] OTHER -> [value |-> value, carry |-> carry]

\* arm7tdmi_mul_m_cycles: the bytes of rs above the first m that are all 0 or
\* all 1 cost nothing.
MulCycles(rs) ==
    LET short(m) == rs \div Byte^m \in {0, Byte^(4 - m) - 1}
    IN CASE short(1) -> 1
         [] ~short(1) /\ short(2) -> 2
         [] ~short(1) /\ ~short(2) /\ short(3) -> 3
         [] OTHER -> 4

\* A read of the pc gives the address of the instruction plus 8 or plus 4.
ReadReg(c, n, pc) == IF n = 15 THEN Add(pc, IF c.psr.t THEN 4 ELSE 8) ELSE c.r[n]

\* The pipeline refill after a write of the pc.
Refill(c) == AddCycles(c, 2 * FetchCycles(c.r[15], c.psr.t))

\* BX: bit 0 of the target selects the instruction set.
BranchExchange(c, target) ==
    LET thumb == target % 2 = 1
        to    == IF thumb THEN target - 1 ELSE target - (target % 4)
    IN Refill([WriteReg(c, 15, to) EXCEPT !.psr = [@ EXCEPT !.t = thumb]])

Aligned(address, n) == address - (address % n)

-----------------------------------------------------------------------------
Tests == {"tst", "teq", "cmp", "cmn"}

\* decode_operand2: an immediate, or a register with a shift by an encoded
\* amount or by a register.
Operand2(c, o, pc) ==
    CASE o.kind = "imm" ->
            [value |-> o.value, carry |-> IF o.rotated THEN Negative(o.value) ELSE c.psr.c]
      [] o.kind = "shift" -> Shift(o.type, ReadReg(c, o.rm, pc), o.amount, c.psr.c, TRUE)
      [] o.kind = "shift_by" ->
            Shift(o.type, ReadReg(c, o.rm, pc), ReadReg(c, o.rs, pc) % Amounts, c.psr.c, FALSE)

\* The switch of exec_data_processing.
Alu(opcode, a, op2, psr) ==
    LET b == op2.value
        logic(value) == Result(value, op2.carry, psr.v)
    IN CASE opcode \in {"and", "tst"} -> logic(a & b)
         [] opcode \in {"eor", "teq"} -> logic(a ^^ b)
         [] opcode \in {"sub", "cmp"} -> Adc(a, Complement(b), TRUE)
         [] opcode = "rsb"            -> Adc(b, Complement(a), TRUE)
         [] opcode \in {"add", "cmn"} -> Adc(a, b, FALSE)
         [] opcode = "adc"            -> Adc(a, b, psr.c)
         [] opcode = "sbc"            -> Adc(a, Complement(b), psr.c)
         [] opcode = "rsc"            -> Adc(b, Complement(a), psr.c)
         [] opcode = "orr"            -> logic(a | b)
         [] opcode = "mov"            -> logic(b)
         [] opcode = "bic"            -> logic(a & Complement(b))
         [] opcode = "mvn"            -> logic(Complement(b))

DataProcessing(c, i, pc) ==
    LET op2    == Operand2(c, i.operand, pc)
        result == Alu(i.opcode, ReadReg(c, i.rn, pc), op2, c.psr)
        writes == i.opcode \notin Tests
        s      == CASE ~i.s -> c
                    [] i.s /\ i.rd = 15 /\ Privileged(c.psr) -> RestorePsr(c)
                    [] OTHER -> [c EXCEPT !.psr = SetFlags(@, result)]
        w      == IF writes THEN WriteReg(s, i.rd, result.value) ELSE s
        t      == AddCycles(w, Bit(i.operand.kind = "shift_by"))
    IN IF writes /\ i.rd = 15 THEN Refill(t) ELSE t

Multiply(c, i) ==
    LET value == (c.r[i.rm] * c.r[i.rs] + IF i.accumulate THEN c.r[i.rn] ELSE 0) % Span
        s     == WriteReg(c, i.rd, value)
    IN AddCycles(IF i.s THEN [s EXCEPT !.psr = SetNZ(@, value)] ELSE s,
                 MulCycles(c.r[i.rs]) + Bit(i.accumulate))

LongMultiply(c, i) ==
    LET product == IF i.signed THEN Signed(c.r[i.rm]) * Signed(c.r[i.rs]) ELSE c.r[i.rm] * c.r[i.rs]
        value   == (product + IF i.accumulate THEN c.r[i.rdhi] * Span + c.r[i.rdlo] ELSE 0)
                     % (Span * Span)
        s       == WriteReg(WriteReg(c, i.rdlo, value % Span), i.rdhi, value \div Span)
        flags   == [s.psr EXCEPT !.n = Negative(value \div Span), !.z = (value = 0)]
    IN AddCycles(IF i.s THEN [s EXCEPT !.psr = flags] ELSE s,
                 MulCycles(c.r[i.rs]) + 1 + Bit(i.accumulate))

Swap(c, i, pc) ==
    LET n   == IF i.byte THEN 1 ELSE 4
        a   == Aligned(ReadReg(c, i.rn, pc), n)
        old == IF i.byte THEN Read8(c, a) ELSE Read32(c, a)
    IN AddCycles(WriteReg(Write(Charge(c, a, n), a, n, c.r[i.rm]), i.rd, old), 1)

-----------------------------------------------------------------------------
(* Transfers                                                                  *)

SignExtend(value, span) == IF 2 * value >= span THEN Span - span + value ELSE value

\* The word at an address that need not be aligned comes rotated.
LoadWord(c, a) ==
    LET k == Byte^(a % 4)
        value == Read32(c, Aligned(a, 4))
    IN value \div k + (value % k) * (Span \div k)

\* LDRH of an odd address exchanges the two bytes, and LDRSH reads one byte.
LoadHalf(c, a) ==
    LET h == Read16(c, Aligned(a, 2))
    IN IF a % 2 = 1 THEN h \div Byte + (h % Byte) * Byte ELSE h
LoadHalfSigned(c, a) ==
    IF a % 2 = 1 THEN SignExtend(Read8(c, a), Byte) ELSE SignExtend(Read16(c, a), Half)

Loaded(c, size, a) ==
    CASE size = "word" -> LoadWord(c, a)
      [] size = "byte" -> Read8(c, a)
      [] size = "half" -> LoadHalf(c, a)
      [] size = "signed_byte" -> SignExtend(Read8(c, a), Byte)
      [] size = "signed_half" -> LoadHalfSigned(c, a)

SizeOf(size) ==
    CASE size = "word" -> 4 [] size \in {"half", "signed_half"} -> 2
      [] size \in {"byte", "signed_byte"} -> 1

\* A register offset is shifted for words and bytes.  The other sizes take the register
\* as it is: r15 is then one instruction on, not two.
TransferOffset(c, i, pc) ==
    IF i.size \in {"word", "byte"} \/ i.offset.kind = "imm"
    THEN Operand2(c, i.offset, pc).value ELSE c.r[i.offset.rm]

\* exec_single_transfer and exec_halfword_transfer: the write-back of the base
\* comes last.
Transfer(c, i, pc) ==
    LET offset  == TransferOffset(c, i, pc)
        base    == ReadReg(c, i.rn, pc)
        moved   == IF i.up THEN Add(base, offset) ELSE (base + Span - offset) % Span
        address == IF i.pre THEN moved ELSE base
        n       == IF i.size = "signed_half" /\ address % 2 = 1 THEN 1 ELSE SizeOf(i.size)
        s       == IF i.load
                   THEN AddCycles(WriteReg(Charge(c, Aligned(address, n), n), i.rd, Loaded(c, i.size, address)), 1)
                   ELSE Write(c, Aligned(address, n), n, ReadReg(c, i.rd, pc))
        w       == IF (~i.pre \/ i.writeback) /\ i.rn # 15 THEN WriteReg(s, i.rn, moved) ELSE s
    IN IF i.load /\ i.rd = 15 THEN Refill(w) ELSE w

\* The address of each register of a block: the lowest register is at the
\* lowest address.
Slot(i, base, n) ==
    LET below  == Cardinality({k \in i.list : k < n})
        lowest == IF i.up THEN base ELSE base + 2 * Span - 4 * Cardinality(i.list)
        first  == IF i.pre = i.up THEN 4 ELSE 0
    IN Aligned((lowest + first + 4 * below) % Span, 4)

Load(c, i, n) ==
    LET a == Slot(i, c.r[i.rn], n) IN Read32(c, a)

BlockLoad(c, i) ==
    LET user == i.s /\ 15 \notin i.list
        one(n, x) == LET y == Charge(x, Slot(i, c.r[i.rn], n), 4)
                     IN IF user THEN WriteUserBankReg(y, n, Load(c, i, n))
                        ELSE WriteReg(y, n, Load(c, i, n))
    IN FoldSet(one, c, i.list)

BlockStore(c, i, pc) ==
    LET value(n) == IF i.s /\ 15 \notin i.list THEN ReadUserBankReg(c, n) ELSE ReadReg(c, n, pc)
        one(n, x) == Write(x, Slot(i, c.r[i.rn], n), 4, value(n))
    IN FoldSet(one, c, i.list)

\* exec_block_transfer
BlockTransfer(c, i, pc) ==
    LET size   == 4 * Cardinality(i.list)
        s      == IF i.load THEN BlockLoad(c, i) ELSE BlockStore(c, i, pc)
        moved  == (c.r[i.rn] + IF i.up THEN size ELSE 2 * Span - size) % Span
        w      == IF i.writeback /\ i.rn # 15 THEN WriteReg(s, i.rn, moved) ELSE s
        return == i.load /\ i.s /\ 15 \in i.list /\ Privileged(w.psr)
        t      == IF return THEN RestorePsr(w) ELSE w
    IN CASE i.list = {} -> c
         [] i.list # {} /\ i.load -> AddCycles(IF 15 \in i.list THEN Refill(t) ELSE t, 1)
         [] OTHER -> t

Branch(c, i, pc) ==
    LET s == IF i.link THEN WriteReg(c, 14, Add(pc, 4)) ELSE c
    IN Refill(WriteReg(s, 15, Add(pc, 8 + i.offset)))

-----------------------------------------------------------------------------
\* arm_execute
ArmExecute(c, i, pc) ==
    CASE ~ConditionPassed(c.psr, i.cond) -> c
      [] OTHER ->
         CASE i.op = "bx"       -> BranchExchange(c, ReadReg(c, i.rm, pc))
           [] i.op = "mul"      -> Multiply(c, i)
           [] i.op = "mull"     -> LongMultiply(c, i)
           [] i.op = "swp"      -> Swap(c, i, pc)
           [] i.op = "data"     -> DataProcessing(c, i, pc)
           [] i.op = "transfer" -> Transfer(c, i, pc)
           [] i.op = "block"    -> BlockTransfer(c, i, pc)
           [] i.op = "b"        -> Branch(c, i, pc)
           [] i.op = "swi"      -> Refill(Swi(c, pc))
           [] i.op = "undef"    -> [c EXCEPT !.unimplemented = TRUE]

\* arm7tdmi_step in the ARM state, without the cost of the fetch.
ArmStep(c, i) ==
    LET pc == c.r[15] IN ArmExecute(WriteReg(c, 15, Add(pc, 4)), i, pc)
=============================================================================
