------------------------------- MODULE RunLoop -------------------------------
(* The machine of psemu.c as a record: a CPU that executes a small program,   *)
(* RAM of one bit, and the devices; and one turn of the loop of run_until     *)
(* over it, with the clock stop and the skip of idle loops.  An instruction   *)
(* stands for what the run loop can tell apart: its effect on registers, RAM  *)
(* and devices, its accesses of the bus, and its cycles.                      *)
EXTENDS Timer, Ir, Sequences, FiniteSetsExt

-----------------------------------------------------------------------------
(* rtc.c: the interrupt line of the clock as a record.  The time and the date *)
(* are a count of seconds here.                                               *)

CONSTANTS
    RtcRun,    \* RTC_TICK_CYCLES_RUN
    RtcPaused  \* RTC_TICK_CYCLES_PAUSED

ASSUME RtcAssumption == RtcRun \in Nat \ {0} /\ RtcPaused \in Nat \ {0}

RtcReset == [acc |-> 0, line |-> FALSE, paused |-> FALSE, seconds |-> 0]

Threshold(r) == IF r.paused THEN RtcPaused ELSE RtcRun

\* rtc_tick: the line changes once for each threshold of cycles, and a full
\* pulse of a clock that runs is one second.
RtcTick(r, intc, cycles) ==
    LET n == (r.acc + cycles) \div Threshold(r)
        line[i \in 0..n] == IF i = 0 THEN r.line ELSE ~line[i - 1]
        ctrl[i \in 0..n] == IF i = 0 THEN intc ELSE SetLine(ctrl[i - 1], "rtc", line[i])
        falls == {i \in 1..n : ~line[i]}
    IN [rtc  |-> [r EXCEPT !.acc = (r.acc + cycles) % Threshold(r),
                           !.line = line[n],
                           !.seconds = @ + (IF r.paused THEN 0 ELSE Cardinality(falls))],
        intc |-> ctrl[n]]

\* rtc_cycles_to_next_tick
CyclesToNextTick(r) == IF r.acc < Threshold(r) THEN Threshold(r) - r.acc ELSE 0

-----------------------------------------------------------------------------
(* dac.c: the output level of the sound, sampled at a fixed rate into a ring  *)
(* that the frontend drains.                                                  *)

CONSTANTS
    SamplePeriod,  \* DAC_CYCLES_PER_SAMPLE
    RingSize       \* DAC_SAMPLE_BUFFER_SIZE

ASSUME DacAssumption == SamplePeriod \in Nat \ {0} /\ RingSize \in Nat \ {0}

DacReset == [on |-> FALSE, level |-> 0, muted |-> FALSE, acc |-> 0, ring |-> <<>>]

\* What reaches the ring.  Both gates must be open.
Output(d) == IF d.on /\ ~d.muted THEN d.level ELSE 0

\* A full ring discards the new sample.
DacTick(d, cycles) ==
    LET made  == (d.acc + cycles) \div SamplePeriod
        space == RingSize - Len(d.ring)
    IN [d EXCEPT !.acc = (d.acc + cycles) % SamplePeriod,
                 !.ring = @ \o [i \in 1..(IF made < space THEN made ELSE space) |-> Output(d)]]

\* dac_read_samples
DacRead(d, n) == [d EXCEPT !.ring = SubSeq(@, (IF n < Len(@) THEN n ELSE Len(@)) + 1, Len(@))]

-----------------------------------------------------------------------------
(* psemu_t                                                                    *)

CONSTANTS
    Ref,        \* TIME_PER_REF: the units of a reference cycle
    PerCycle,   \* the units of a CPU cycle for each value of CLK_MODE
    Grace,      \* APP_EXEC_GRACE_CYCLES
    TraceSize,  \* PSEMU_TRACE_SIZE
    Vector,     \* the address of the IRQ handler, which is the FIQ handler too
    Start       \* the address at which the program starts

ASSUME MachineAssumption ==
    /\ {Ref, Grace, TraceSize, Vector, Start} \subseteq Nat \ {0}
    /\ \A mode \in DOMAIN PerCycle : PerCycle[mode] \in Nat \ {0}

UserPsr == [mode |-> "user", i |-> FALSE, f |-> FALSE]

Reset ==
    [cpu |-> [pc |-> Start, r |-> 0, psr |-> UserPsr,
              lr |-> [irq |-> Start, fiq |-> Start],
              spsr |-> [irq |-> UserPsr, fiq |-> UserPsr]],
     unimplemented |-> FALSE, steps |-> 0, trace |-> <<>>,
     ram |-> 0, side |-> 0, intc |-> IntcReset,
     timers |-> [line \in {"timer0", "timer1", "timer2"} |-> TimerReset],
     rtc |-> RtcReset, dac |-> DacReset, ir |-> IrReset,
     clk |-> [mode |-> "slow", stop |-> FALSE],
     time |-> 0, buttons |-> {}, app |-> [running |-> FALSE, idle |-> 0]]

-----------------------------------------------------------------------------
(* arm7tdmi_step                                                              *)

\* A write, or a read of a value that can change with time.
Side(m) == [m EXCEPT !.side = @ + 1]

Bit(condition) == IF condition THEN 1 ELSE 0

\* The effect of an instruction, except on the program counter.
Effect(m, op) ==
    CASE op = "load"    -> [m EXCEPT !.cpu.r = m.ram]
      [] op = "status"  -> [m EXCEPT !.cpu.r = Bit("rtc" \in m.intc.status)]
      [] op = "count"   -> [Side(m) EXCEPT !.cpu.r = m.timers["timer0"].count % 2]
      [] op = "flip"    -> [m EXCEPT !.cpu.r = 1 - @]
      [] op = "store"   -> [Side(m) EXCEPT !.ram = 1]
      [] op = "ack"     -> [Side(m) EXCEPT !.intc = WriteAcknowledge(@, Line)]
      [] op = "arm"     -> [Side(m) EXCEPT !.timers["timer0"] = WriteControl(@, TRUE, 0)]
      [] op = "pause"   -> [Side(m) EXCEPT !.rtc.paused = ~@]
      [] op = "sound"   -> [Side(m) EXCEPT !.dac.level = 1 - @]
      [] op = "standby" -> [Side(m) EXCEPT !.ir = WriteMode(@, [@.mode EXCEPT !.standby = ~@])]
      [] op = "speed"   -> [Side(m) EXCEPT !.clk.mode = IF @ = "slow" THEN "fast" ELSE "slow"]
      [] op = "stop"    -> [Side(m) EXCEPT !.clk.stop = TRUE]
      [] op = "mask"    -> [m EXCEPT !.cpu.psr.i = TRUE]
      [] op = "undef"   -> [m EXCEPT !.unimplemented = TRUE]
      [] op = "return" /\ m.cpu.psr.mode # "user" ->
            [m EXCEPT !.cpu.psr = m.cpu.spsr[m.cpu.psr.mode]]
      [] OTHER          -> m

\* The next address.  Until jumps back by one while the register is 0.
Target(cpu, op) ==
    CASE op = "spin"                -> cpu.pc
      [] op = "back"                -> Start
      [] op = "until" /\ cpu.r = 0  -> cpu.pc - 1
      [] op = "return" /\ cpu.psr.mode # "user" -> cpu.lr[cpu.psr.mode]
      [] OTHER                      -> cpu.pc + 1

Cycles(op) == IF op \in {"spin", "back", "until", "return"} THEN 2 ELSE 1

Execute(m, op) == [Effect(m, op) EXCEPT !.cpu.pc = Target(m.cpu, op)]

FiqDue(m) == ~m.cpu.psr.f /\ FiqAsserted(m.intc)
IrqDue(m) == ~m.cpu.psr.i /\ IrqAsserted(m.intc)

EnterException(m, mode) ==
    [m EXCEPT !.cpu.spsr[mode] = m.cpu.psr,
              !.cpu.lr[mode] = m.cpu.pc,
              !.cpu.psr = [mode |-> mode, i |-> TRUE, f |-> @.f \/ mode = "fiq"],
              !.cpu.pc = Vector]

LastOf(trace) == SubSeq(trace, Len(trace) - TraceSize + 1, Len(trace))
Traced(m, pcs) ==
    [m EXCEPT !.steps = @ + Len(pcs),
              !.trace = IF Len(@ \o pcs) > TraceSize THEN LastOf(@ \o pcs) ELSE @ \o pcs]

\* The machine after one step, and the cycles of the step.
CpuStep(code, m) ==
    LET t == Traced(m, <<m.cpu.pc>>) IN
    CASE m.unimplemented -> [m |-> m, cycles |-> 1]
      [] ~m.unimplemented /\ FiqDue(m) -> [m |-> EnterException(t, "fiq"), cycles |-> 2]
      [] ~m.unimplemented /\ ~FiqDue(m) /\ IrqDue(m) ->
            [m |-> EnterException(t, "irq"), cycles |-> 2]
      [] OTHER -> [m |-> Execute(t, code[m.cpu.pc]), cycles |-> Cycles(code[m.cpu.pc])]

-----------------------------------------------------------------------------
(* The devices                                                                *)

\* timer_tick: each timer that reloads asserts its line.
TimersTick(m, cycles) ==
    LET due == {line \in DOMAIN m.timers : Reloads(m.timers[line], cycles)}
    IN [m EXCEPT !.timers = [line \in DOMAIN @ |-> TimerTick(@[line], cycles)],
                 !.intc = FoldSet(LAMBDA line, i : SetLine(i, line, TRUE), @, due)]

RtcDacTick(m, cycles) ==
    LET p == RtcTick(m.rtc, m.intc, cycles)
    IN [m EXCEPT !.rtc = p.rtc, !.intc = p.intc, !.dac = DacTick(@, cycles)]

TransceiverTick(m, cycles) ==
    LET p == IrTick(m.ir, m.intc, cycles) IN [m EXCEPT !.ir = p.ir, !.intc = p.intc]

\* timer_tick, rtc_tick, dac_tick and ir_tick, in the order of the run loop.
DevicesTick(m, cycles, refs) ==
    TransceiverTick(RtcDacTick(TimersTick(m, cycles), refs), refs)

\* psemu_track_app_execution, with the address of the step.
TrackApp(m, inFlash, refs) ==
    LET idle == m.app.idle + refs IN
    CASE inFlash -> [m EXCEPT !.app = [running |-> TRUE, idle |-> 0]]
      [] ~inFlash /\ m.app.running /\ idle < Grace -> [m EXCEPT !.app.idle = idle]
      [] ~inFlash /\ m.app.running /\ idle >= Grace ->
            [m EXCEPT !.app = [running |-> FALSE, idle |-> 0]]
      [] OTHER -> m

\* psemu_set_buttons: an edge sets the line of the button, and a button that
\* stays down loses its request.
SetButtons(m, buttons) ==
    LET edge == (buttons \ m.buttons) \cup (m.buttons \ buttons)
        one(b, i) == IF b \in edge THEN SetLine(i, b, b \in buttons)
                     ELSE IF b \in buttons THEN ClearHoldOnly(i, b) ELSE i
    IN [m EXCEPT !.buttons = buttons, !.intc = FoldSet(one, @, Buttons)]

-----------------------------------------------------------------------------
(* run_until                                                                  *)

CONSTANTS
    LoopSpan,  \* IDLE_LOOP_MAX_BYTES, in instructions
    MaxSteps   \* IDLE_LOOP_MAX_STEPS

ASSUME RunLoopAssumption == LoopSpan \in Nat /\ MaxSteps \in Nat \ {0}

\* idle_probe_t, with the count of cycles of the run.
ProbeReset ==
    [stage |-> 0, branch |-> 0, side |-> 0, changes |-> 0, cpu |-> Reset.cpu,
     time |-> 0, start |-> 0, steps |-> 0, pcs |-> <<>>, cycles |-> 0]

WakeSources == Buttons \cup {"rtc"}

\* The reference-cycle boundaries between two times.
Boundaries(from, to) == (to \div Ref) - (from \div Ref)

\* The clock is stopped and nothing wakes the CPU: time goes on to the next
\* boundary or to the end of the run, and only the RTC and the DAC see it.
Sleeps(m) == m.clk.stop /\ m.intc.hold \cap m.intc.enable \cap WakeSources = {}

Sleep(m, end) ==
    LET to == SmallerOf(m.time + Ref - (m.time % Ref), end)
    IN [RtcDacTick(m, Boundaries(m.time, to)) EXCEPT !.time = to]

\* One instruction and the time that it takes, at the clock rate after it.
Turn(rom, m) ==
    LET pc   == m.cpu.pc
        s    == CpuStep(rom.code, [m EXCEPT !.clk.stop = FALSE])
        to   == m.time + s.cycles * PerCycle[s.m.clk.mode]
        refs == Boundaries(m.time, to)
        now  == TrackApp([s.m EXCEPT !.time = to], pc \in rom.flash, refs)
    IN [m |-> DevicesTick(now, s.cycles, refs), cycles |-> s.cycles]

-----------------------------------------------------------------------------
(* The skip of idle loops                                                     *)

\* The probe counts the steps in pcs, which need not hold more of them.
Observe(p, pc, cycles) ==
    [p EXCEPT !.cycles = @ + cycles,
              !.pcs = IF p.stage = 2 /\ Len(@) <= MaxSteps THEN Append(@, pc) ELSE @]

\* idle_probe_snapshot
Snapshot(m, p) ==
    [p EXCEPT !.stage = 2, !.side = m.side, !.changes = m.intc.changes, !.cpu = m.cpu,
              !.time = m.time, !.start = p.cycles, !.steps = m.steps, !.pcs = <<>>]

\* The branch is not the recorded one, or something was written since.
StartsAgain(m, p, pc) == p.stage = 0 \/ p.branch # pc \/ p.side # m.side

\* Mutant: without the test of the interrupt controller.
IsFixedPointOfCpu(m, p) ==
    /\ p.stage = 2
    /\ Len(p.pcs) \in 1..MaxSteps
    /\ m.steps - p.steps = Len(p.pcs)
    /\ m.cpu = p.cpu

\* The last iteration left the registers, the steps and the controller as the
\* iteration before it.
IsFixedPoint(m, p) ==
    /\ p.stage = 2
    /\ Len(p.pcs) \in 1..MaxSteps
    /\ m.steps - p.steps = Len(p.pcs)
    /\ m.intc.changes = p.changes
    /\ m.cpu = p.cpu

\* The iterations that cross fewer than limit boundaries.
IterationsBelow(limit, time, perIter) ==
    IF limit * Ref > time % Ref THEN (limit * Ref - (time % Ref) - 1) \div perIter ELSE 0

\* The iterations to each event that must stay outside the skip.
Limits(m, end, inFlash, perIter, cyclesPerIter) ==
    {IF end > m.time THEN (end - m.time - 1) \div perIter ELSE 0}
      \cup {(CyclesToReload(t) - 1) \div cyclesPerIter :
              t \in {m.timers[line] : line \in {l \in DOMAIN m.timers : Runs(m.timers[l])}}}
      \cup {IterationsBelow(limit, m.time, perIter) :
              limit \in {CyclesToNextTick(m.rtc)} \cup EventsAhead(m.ir)
                          \cup (IF m.app.running /\ ~inFlash THEN {Grace - m.app.idle} ELSE {})}

\* A machine that is k iterations of the loop further.
SkipBy(m, p, k, inFlash) ==
    LET to   == m.time + k * (m.time - p.time)
        refs == Boundaries(m.time, to)
        n    == Len(p.pcs)
        now  == DevicesTick([m EXCEPT !.time = to], k * (p.cycles - p.start), refs)
        app  == [now EXCEPT !.app.idle = IF now.app.running /\ ~inFlash THEN @ + refs ELSE @]
    IN Traced(app, [i \in 1..(k * n) |-> p.pcs[((i - 1) % n) + 1]])

\* idle_loop_branch: the machine and the probe after it.
IdleLoopBranch(rom, m, p, pc, end) ==
    LET perIter       == m.time - p.time
        cyclesPerIter == p.cycles - p.start
        inFlash == {i \in DOMAIN p.pcs : p.pcs[i] \in rom.flash}
        k       == Min(Limits(m, end, inFlash # {}, perIter, cyclesPerIter))
        skips   == /\ IsFixedPoint(m, p)
                   /\ ~FiqDue(m) /\ ~IrqDue(m)
                   /\ inFlash \in {{}, DOMAIN p.pcs}
        after   == IF skips THEN SkipBy(m, p, k, inFlash # {}) ELSE m
    IN IF StartsAgain(m, p, pc)
       THEN [m |-> m, p |-> [p EXCEPT !.stage = 1, !.branch = pc, !.side = m.side]]
       ELSE [m |-> after, p |-> Snapshot(after, p)]

-----------------------------------------------------------------------------
\* One turn of the loop of run_until.
RunTurn(rom, m, p, end, idleSkip) ==
    LET pc == m.cpu.pc
        t  == Turn(rom, m)
        q  == Observe(p, pc, t.cycles)
    IN IF Sleeps(m) THEN [m |-> Sleep(m, end), p |-> p]
       ELSE IF idleSkip /\ t.m.cpu.pc <= pc /\ pc - t.m.cpu.pc <= LoopSpan
       THEN IdleLoopBranch(rom, t.m, q, pc, end)
       ELSE [m |-> t.m, p |-> q]
=============================================================================
