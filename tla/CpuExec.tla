------------------------------- MODULE CpuExec -------------------------------
(* Code of both instruction sets on one core, and what it must compute: each  *)
(* Thumb instruction against the ARM instruction that it stands for, sequences*)
(* of instructions against the arithmetic that compilers build from them.     *)
EXTENDS ThumbExec, SequencesExt

CONSTANTS
    Operands,   \* the values in r0 and r1 at the start
    ThumbCode,  \* the Thumb instructions of this instance
    Code,       \* the instructions that the core executes
    MaxCode     \* how many

VARIABLES
    core,      \* the CPU with its RAM
    executed   \* the instructions so far, at most MaxCode

execVars == <<core, executed>>

CoreWith(a, b, ram) ==
    LET c == CpuReset(8)
    IN [r |-> [c.r EXCEPT ![0] = a, ![1] = b, ![2] = 3, ![13] = 16, ![14] = 9],
        saved |-> c.saved, psr |-> [NoPsr EXCEPT !.t = TRUE], spsr |-> c.spsr,
        ram |-> ram, lock |-> Span, cost |-> 0, side |-> 0, unimplemented |-> FALSE]

ExecInit ==
    /\ \E a, b \in Operands : core = CoreWith(a, b, [x \in RamAddresses |-> (x + x \div 4) % Byte])
    /\ executed = 0

-----------------------------------------------------------------------------
(* ARM instructions                                                           *)

Imm(value)            == [kind |-> "imm", value |-> value, rotated |-> FALSE]
Shifted(rm, type, n)  == [kind |-> "shift", rm |-> rm, type |-> type, amount |-> n]
ShiftedBy(rm, type, rs) == [kind |-> "shift_by", rm |-> rm, type |-> type, rs |-> rs]
Reg(rm)               == Shifted(rm, "lsl", 0)

Data(opcode, s, rd, rn, operand) ==
    [op |-> "data", cond |-> "al", opcode |-> opcode, s |-> s, rd |-> rd, rn |-> rn, operand |-> operand]
Move(load, size, rd, rn, offset) ==
    [op |-> "transfer", cond |-> "al", load |-> load, size |-> size, rd |-> rd, rn |-> rn,
     offset |-> offset, up |-> TRUE, pre |-> TRUE, writeback |-> FALSE]
Block(load, up, pre, rn, list) ==
    [op |-> "block", cond |-> "al", load |-> load, up |-> up, pre |-> pre, s |-> FALSE,
     writeback |-> TRUE, rn |-> rn, list |-> list]
Jump(cond, link, offset) == [op |-> "b", cond |-> cond, link |-> link, offset |-> offset]
ArmBx(rm) == [op |-> "bx", cond |-> "al", rm |-> rm]

-----------------------------------------------------------------------------
(* The core after a sequence of instructions                                  *)

\* arm7tdmi_step: the T bit selects the instruction set.
Step(c, i) == IF c.psr.t THEN ThumbStep(c, i) ELSE ArmStep(c, i)

After(c, code) == FoldLeft(Step, c, code)

-----------------------------------------------------------------------------
(* The ARM instruction that a Thumb instruction stands for                    *)

AsOperand(o) == IF o.kind = "imm" THEN Imm(o.value) ELSE Reg(o.rm)

AluAsArm(i) ==
    CASE i.type = "neg" -> Data("rsb", TRUE, i.rd, i.rs, Imm(0))
      [] i.type = "mvn" -> Data("mvn", TRUE, i.rd, 0, Reg(i.rs))
      [] i.type = "mul" -> [op |-> "mul", cond |-> "al", s |-> TRUE, accumulate |-> FALSE,
                            rd |-> i.rd, rm |-> i.rd, rs |-> i.rs, rn |-> 0]
      [] OTHER -> Data(i.type, TRUE, i.rd, i.rd, Reg(i.rs))

AsArm(i) ==
    CASE i.op = "shift"    -> Data("mov", TRUE, i.rd, 0, Shifted(i.rs, i.type, i.amount))
      [] i.op = "shift_by" -> Data("mov", TRUE, i.rd, 0, ShiftedBy(i.rd, i.type, i.rs))
      [] i.op = "add_sub"  -> Data(i.type, TRUE, i.rd, i.rs, AsOperand(i.operand))
      [] i.op = "imm_alu"  -> Data(i.type, TRUE, i.rd, i.rd, Imm(i.value))
      [] i.op = "alu"      -> AluAsArm(i)
      [] i.op = "hi" /\ i.type = "bx" -> ArmBx(i.rs)
      [] i.op = "hi" /\ i.type # "bx" -> Data(i.type, i.type = "cmp", i.rd, i.rd, Reg(i.rs))
      [] i.op = "load_pc"  -> Move(TRUE, "word", i.rd, 15, Imm(i.offset))
      [] i.op = "transfer" -> Move(i.load, i.size, i.rd, i.rb, AsOperand(i.operand))
      [] i.op = "address"  -> Data("add", FALSE, i.rd, IF i.sp THEN 13 ELSE 15, Imm(i.value))
      [] i.op = "add_sp"   -> Data("add", FALSE, 13, 13, Imm(i.value % Span))
      [] i.op = "push"     -> Block(FALSE, FALSE, TRUE, 13, i.list \cup (IF i.extra THEN {14} ELSE {}))
      [] i.op = "pop"      -> Block(TRUE, TRUE, FALSE, 13, i.list \cup (IF i.extra THEN {15} ELSE {}))
      [] i.op = "multiple" -> Block(i.load, TRUE, FALSE, i.rb, i.list)
      [] i.op = "b"        -> Jump(i.cond, FALSE, i.offset)
      [] i.op = "swi"      -> [op |-> "swi", cond |-> "al"]

\* The address from which the ARM instruction sees the pc that Thumb code sees.
ArmPc(i, pc) ==
    CASE i.op \in {"load_pc", "address"} -> Add(Aligned(Add(pc, 4), 4), Span - 8)
      [] i.op = "swi" -> Add(pc, Span - 2)
      [] OTHER -> Add(pc, Span - 4)

ExecNext ==
    /\ executed < MaxCode
    /\ executed' = executed + 1
    /\ \E i \in Code :
         LET next == Step(core, IF core.psr.t THEN i ELSE AsArm(i))
         IN core' = [next EXCEPT !.cost = 0, !.side = 0]

Jumps(i) ==
    \/ i.op = "hi" /\ (i.type = "bx" \/ (i.rd = 15 /\ i.type # "cmp"))
    \/ i.op = "pop" /\ i.extra
    \/ i.op \in {"b", "swi"}

\* The accesses of an instruction are aligned.
Accesses(c, i) ==
    CASE i.op = "transfer" -> Add(c.r[i.rb], ThumbOperand(c, i.operand)) % SizeOf(i.size) = 0
      [] i.op \in {"push", "pop"} -> c.r[13] % 4 = 0
      [] OTHER -> TRUE

\* Both go to the next instruction or both to the same address.
SameJump(thumb, arm, pc, armPc) ==
    \/ thumb.r[15] = Aligned(arm.r[15], 2)
    \/ thumb.r[15] = Add(pc, 2) /\ arm.r[15] = Add(armPc, 4)

SameEffect(i, thumb, arm) ==
    /\ \A n \in Registers \ {15} : thumb.r[n] = arm.r[n]
    /\ [thumb.psr EXCEPT !.t = FALSE] = [arm.psr EXCEPT !.t = FALSE]
    /\ thumb.saved = arm.saved
    /\ thumb.ram = arm.ram
    /\ thumb.side = arm.side
    /\ i.op = "hi" /\ i.type = "bx" => thumb.psr.t = arm.psr.t
    /\ ~Jumps(i) => thumb.cost = arm.cost

EqualsArm(c, i) ==
    LET pc  == c.r[15]
        arm == [c EXCEPT !.psr = [@ EXCEPT !.t = FALSE], !.r = [@ EXCEPT ![15] = Add(ArmPc(i, pc), 4)]]
    IN \A thumb \in {ThumbStep(c, i)}, after \in {ArmExecute(arm, AsArm(i), ArmPc(i, pc))} :
         /\ SameEffect(i, thumb, after)
         /\ Jumps(i) => SameJump(thumb, after, pc, ArmPc(i, pc))

\* Each Thumb instruction with aligned accesses.
ThumbAgrees ==
    core.psr.t => \A i \in ThumbCode : Accesses(core, i) => EqualsArm(core, i)

\* The same for halfwords at odd addresses, of which hardware-notes.md:25 says
\* what the hardware does for each LDRH; the Thumb forms do not do it.
HalfwordQuirkInBoth ==
    core.psr.t => \A i \in ThumbCode : i.op = "transfer" /\ i.size = "half" => EqualsArm(core, i)

-----------------------------------------------------------------------------
(* Sequences                                                                  *)

InArm(c) == [c EXCEPT !.psr = [@ EXCEPT !.t = FALSE], !.r = [@ EXCEPT ![15] = Aligned(@, 4)]]

Holds(cond, a, b) ==
    CASE cond = "eq" -> a = b  [] cond = "ne" -> a # b
      [] cond = "cs" -> a >= b [] cond = "cc" -> a < b
      [] cond = "hi" -> a > b  [] cond = "ls" -> a <= b
      [] cond = "ge" -> Signed(a) >= Signed(b)
      [] cond = "lt" -> Signed(a) < Signed(b)
      [] cond = "gt" -> Signed(a) > Signed(b)
      [] cond = "le" -> Signed(a) <= Signed(b)
      [] cond = "mi" -> Negative((a + Span - b) % Span)
      [] cond = "pl" -> ~Negative((a + Span - b) % Span)

\* After CMP, each condition holds when the comparison that it is named for does.
CompareDecides ==
    \A c \in {After(InArm(core), <<Data("cmp", TRUE, 0, 0, Reg(1))>>)} :
       \A cond \in {"eq", "ne", "cs", "cc", "hi", "ls", "ge", "lt", "gt", "le", "mi", "pl"} :
         ConditionPassed(c.psr, cond) <=> Holds(cond, core.r[0], core.r[1])

\* Two words in r0 and r1, plus or minus two words in r2 and r14.
WideArithmetic ==
    LET x == core.r[0] + Span * core.r[1]
        y == core.r[2] + Span * core.r[14]
        S == Span * Span
        results == {<<"add", "adc", (x + y) % S>>, <<"sub", "sbc", (x + S - y) % S>>,
                    <<"rsb", "rsc", (y + S - x) % S>>}
    IN \A w \in results :
       \A c \in {After(InArm(core), <<Data(w[1], TRUE, 0, 0, Reg(2)), Data(w[2], TRUE, 1, 1, Reg(14))>>)} :
           c.r[0] + Span * c.r[1] = w[3]

\* UMULL and then UMLAL give twice the product; the low words of the signed
\* and of the unsigned product are that of MUL.
LongProducts ==
    LET long(signed, accumulate) ==
            [op |-> "mull", cond |-> "al", signed |-> signed, accumulate |-> accumulate, s |-> TRUE,
             rdlo |-> 2, rdhi |-> 14, rm |-> 0, rs |-> 1]
        mul == [op |-> "mul", cond |-> "al", s |-> FALSE, accumulate |-> FALSE, rd |-> 2, rm |-> 0, rs |-> 1, rn |-> 0]
        x == core.r[0] * core.r[1]
    IN /\ \A c \in {After(InArm(core), <<long(FALSE, FALSE), long(FALSE, TRUE)>>)} :
            c.r[2] + Span * c.r[14] = (2 * x) % (Span * Span)
       /\ \A i \in {long(TRUE, FALSE), long(FALSE, FALSE), mul} :
            After(InArm(core), <<i>>).r[2] = x % Span

OneStep(type, v) ==
    CASE type = "lsl" -> [value |-> (2 * v) % Span, carry |-> Negative(v)]
      [] type = "lsr" -> [value |-> v \div 2, carry |-> v % 2 = 1]
      [] type = "asr" -> [value |-> v \div 2 + (IF Negative(v) THEN Span \div 2 ELSE 0), carry |-> v % 2 = 1]
      [] type = "ror" -> [value |-> v \div 2 + (v % 2) * (Span \div 2), carry |-> v % 2 = 1]

\* A shift by n is n shifts by one bit, with the carry of the last; the encoded
\* amount 0 is a shift by a whole word or a rotation through the carry.
ShiftsAreSteps ==
    LET v == core.r[0]
        carry == core.psr.c
        steps(type) ==
            LET f[n \in 0..(Amounts - 1)] ==
                    IF n = 0 THEN [value |-> v, carry |-> carry] ELSE OneStep(type, f[n - 1].value)
            IN f
    IN \A type \in {"lsl", "lsr", "asr", "ror"} :
         LET f == steps(type) IN
         /\ \A n \in 0..(Amounts - 1) : Shift(type, v, n, carry, FALSE) = f[n]
         /\ \A n \in 1..(Bits - 1) : Shift(type, v, n, carry, TRUE) = f[n]
         /\ type \in {"lsr", "asr"} => Shift(type, v, 0, carry, TRUE) = f[Bits]
         /\ type = "lsl" => Shift(type, v, 0, carry, TRUE) = f[0]
         /\ type = "ror" => Shift(type, v, 0, carry, TRUE) =
                [value |-> v \div 2 + Bit(carry) * (Span \div 2), carry |-> v % 2 = 1]

\* A load of any width at any address starts with the byte at that address, on
\* which code that walks a packed table depends (arm_exec.c:395).
LoadsStartAtTheirByte ==
    \A a \in 8..15, size \in {"word", "half", "byte", "signed_half", "signed_byte"} :
        LET c == After([InArm(core) EXCEPT !.r = [@ EXCEPT ![1] = a]], <<Move(TRUE, size, 0, 1, Imm(0))>>)
        IN c.r[0] % Byte = core.ram[a]

-----------------------------------------------------------------------------
(* Round trips: code that ends where it began, but for what it may lose       *)

Trip(c, code, back, lost, written) ==
    [from |-> c, code |-> code, back |-> back, lost |-> lost, written |-> written]

MoveTo(rd, operand)   == Data("mov", FALSE, rd, 0, operand)
WithStack(c)          == [c EXCEPT !.r = [@ EXCEPT ![13] = 16]]
User(c)               == [c EXCEPT !.psr = [@ EXCEPT !.mode = "usr"]]
InThumb               == WithStack([core EXCEPT !.psr = [@ EXCEPT !.t = TRUE], !.r = [@ EXCEPT ![15] = Aligned(@, 2)]])
SwiCode               == [op |-> "swi", cond |-> "al"]

\* A store of a block, other values in its registers, and the load with the
\* opposite direction and order; the store writes only its block.
BlockTrip(list, up, pre) ==
    LET size == 4 * Cardinality(list)
        first == IF up THEN 16 ELSE 16 - size
        from == IF up = pre THEN first + 4 ELSE first
    IN Trip(WithStack(InArm(core)),
            <<Block(FALSE, up, pre, 13, list)>> \o SetToSeq({MoveTo(n, Imm(0)) : n \in list})
                \o <<Block(TRUE, ~up, ~pre, 13, list)>>,
            8 + size, {}, from..(from + size - 1))

\* STR with a decrement and LDR with the increment after it are a push and a
\* pop, and two SWP change nothing.
SingleTrips ==
    LET c == WithStack(InArm(core))
        push == [Move(FALSE, "word", 0, 13, Imm(4)) EXCEPT !.up = FALSE, !.writeback = TRUE]
        pop  == [Move(TRUE, "word", 0, 13, Imm(4)) EXCEPT !.pre = FALSE]
        swap == [op |-> "swp", cond |-> "al", byte |-> FALSE, rn |-> 13, rd |-> 0, rm |-> 0]
    IN {Trip(c, <<push, MoveTo(0, Imm(1)), pop>>, 12, {}, 12..15), Trip(c, <<swap, swap>>, 8, {}, {})}

\* A call and its return, in the instruction set of the caller: BL with
\* MOV PC, LR; the two halves of a Thumb BL with BX LR, or with PUSH {LR} and
\* POP {PC}; SWI with MOVS PC, LR.
CallTrips ==
    LET farCall == <<[op |-> "bl_high", offset |-> 0], [op |-> "bl_low", offset |-> 8]>>
        nested == <<[op |-> "push", extra |-> TRUE, list |-> {0, 2}],
                    [op |-> "address", sp |-> FALSE, rd |-> 0, value |-> 4],
                    [op |-> "pop", extra |-> TRUE, list |-> {0, 2}]>>
        back == Data("mov", TRUE, 15, 0, Reg(14))
    IN {Trip(InArm(core), <<Jump("al", TRUE, 20), MoveTo(15, Reg(14))>>, 4, {14}, {}),
        Trip(InThumb, farCall \o <<[op |-> "hi", type |-> "bx", rd |-> 0, rs |-> 14]>>, 4, {14}, {}),
        Trip(InThumb, farCall \o nested, 4, {14}, 4..15),
        Trip(User(InArm(core)), <<SwiCode, back>>, 4, {}, {}),
        Trip(User(InThumb), <<SwiCode, back>>, 2, {}, {})}

Returns(t) ==
    \A c \in {After(t.from, t.code)} :
        /\ \A n \in Registers \ (t.lost \cup {15}) : c.r[n] = t.from.r[n]
        /\ c.r[15] = Add(t.from.r[15], t.back)
        /\ c.psr = t.from.psr
        /\ \A a \in RamAddresses \ t.written : c.ram[a] = t.from.ram[a]

TripsReturn ==
    \A t \in SingleTrips \cup CallTrips
             \cup {BlockTrip(list, up, pre) : list \in {{0}, {0, 1, 14}, {1, 2}}, up, pre \in BOOLEAN} :
        Returns(t)
=============================================================================
