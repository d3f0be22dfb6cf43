-------------------------------- MODULE MCCpu --------------------------------
(* The two sides of the CPU in one specification: a behaviour is either about *)
(* modes and exceptions, or about the execution of instructions.              *)
EXTENDS CpuModes, CpuExec

VARIABLE side  \* "modes" or "exec"

cpuVars == <<side, modesVars, execVars>>

Init ==
    /\ ModesInit
    /\ executed = 0
    /\ \/ side = "modes" /\ core = CoreWith(0, 0, [x \in RamAddresses |-> 0])
       \/ side = "exec" /\ ExecInit

Next ==
    /\ UNCHANGED side
    /\ \/ side = "modes" /\ ModesNext /\ UNCHANGED execVars
       \/ side = "exec" /\ ExecNext /\ UNCHANGED modesVars

Spec == Init /\ [][Next]_cpuVars

-----------------------------------------------------------------------------
\* Two implementations of one operation agree: registers, flags, memory and
\* cycles after a Thumb instruction of thumb_exec.c are those after the ARM
\* instruction of arm_exec.c that it stands for, for aligned accesses.  A load
\* undoes the store, and a return the call, from each state that code reaches,
\* and a load finds its byte (exec_block_transfer, exec_single_transfer,
\* exec_push_pop, exec_long_branch_link and the exception return).
InstructionsAgree ==
    side = "exec" => ThumbAgrees /\ TripsReturn /\ LoadsStartAtTheirByte

\* Compiled comparisons, wide arithmetic and shifts give what they stand for,
\* with the flags of the instructions before them (cpu.c:50, 139 and 147).
ArithmeticIsExact == side = "exec" => CompareDecides /\ WideArithmetic /\ LongProducts /\ ShiftsAreSteps

-----------------------------------------------------------------------------
(* The instance: words of 8 bits with bytes of 2, a RAM of 32                 *)
(* addresses, and each form of each Thumb instruction with a few operands.    *)

SomeUnbanked == {0, 1, 2, 15}
OneHigh      == {8}
OneValue     == {5}
SomeOperands == {0, 1, 2, 77, 127, 128, 255}

MemoryMap ==
    [a \in Word |-> CASE a < 32 -> "ram" [] a \in 32..63 -> "bios" [] a \in 64..95 -> "vram"
                      [] OTHER -> "open"]
BiosBytes == [a \in 32..63 |-> (3 * a + a \div 4) % 4]

Shifts == {"lsl", "lsr", "asr", "ror"}
FromReg(n)   == [kind |-> "reg", rm |-> n]
FromImm(v)   == [kind |-> "imm", value |-> v]
Sizes  == {"word", "byte", "half", "signed_byte", "signed_half"}

Alus ==
    [op : {"shift"}, type : Shifts \ {"ror"}, rd : {2}, rs : {0, 1}, amount : {0, 1, 5, 7}]
      \cup [op : {"shift_by"}, type : Shifts, rd : {0, 1}, rs : {0, 1}]
      \cup [op : {"add_sub"}, type : {"add", "sub"}, rd : {2}, rs : {0},
            operand : {FromReg(0), FromReg(1), FromImm(0), FromImm(7)}]
      \cup [op : {"imm_alu"}, type : {"mov", "cmp", "add", "sub"}, rd : {0}, value : {0, 1, 128, 255}]
      \cup [op : {"alu"}, type : {"and", "eor", "adc", "sbc", "tst", "neg", "cmp", "cmn", "orr",
                                  "mul", "bic", "mvn"}, rd : {0}, rs : {0, 1}]
      \cup [op : {"hi"}, type : {"add", "cmp", "mov", "bx"}, rd : {1, 8, 15}, rs : {0, 14, 15}]
Memories ==
    [op : {"load_pc"}, rd : {0}, offset : {0, 4, 8}]
      \cup [op : {"transfer"}, load : BOOLEAN, size : Sizes, rd : {0, 2}, rb : {1, 13},
            operand : {FromReg(0), FromImm(0), FromImm(1), FromImm(2)}]
      \cup [op : {"address"}, sp : BOOLEAN, rd : {0}, value : {0, 4, 12}]
      \cup [op : {"add_sp"}, value : {-8, 4}]
      \cup [op : {"push", "pop"}, extra : BOOLEAN, list : {{}, {0}, {0, 1, 2}}]
      \cup [op : {"multiple"}, load : BOOLEAN, rb : {1}, list : {{0}, {0, 2}, {1, 2}, {0, 1, 2}}]
Branches ==
    [op : {"b"}, cond : {"eq", "cs", "vs", "gt", "ls"}, offset : {-4, 0, 6}] \cup {[op |-> "swi"]}

EveryThumb ==
    {i \in Alus \cup Memories \cup Branches :
        /\ i.op = "hi" => ~(i.type = "bx" /\ i.rd # 1)
        /\ i.op = "pop" => i.extra \/ i.list # {}
        /\ i.op = "transfer" => i.load \/ i.size \in {"word", "byte", "half"}}

HalfLoads == [op : {"transfer"}, load : {TRUE}, size : {"half"}, rd : {0, 2}, rb : {1}, operand : {FromImm(0)}]

\* What the core executes: results, flags, stores and a change of the
\* instruction set that the operands alone do not give.
Steps ==
    { [op |-> "alu", type |-> "adc", rd |-> 0, rs |-> 1],
      [op |-> "alu", type |-> "mul", rd |-> 1, rs |-> 0],
      [op |-> "shift_by", type |-> "ror", rd |-> 0, rs |-> 1],
      [op |-> "imm_alu", type |-> "sub", rd |-> 1, value |-> 1],
      [op |-> "transfer", load |-> FALSE, size |-> "half", rd |-> 0, rb |-> 13, operand |-> FromImm(2)],
      [op |-> "multiple", load |-> TRUE, rb |-> 2, list |-> {0, 1}],
      [op |-> "hi", type |-> "bx", rd |-> 0, rs |-> 13],
      [op |-> "hi", type |-> "bx", rd |-> 0, rs |-> 14] }
=============================================================================
