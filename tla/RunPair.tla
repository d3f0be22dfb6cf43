------------------------------- MODULE RunPair -------------------------------
(* Two copies of one machine that get the same input from the host: fast      *)
(* skips idle loops and runs in short runs, slow executes each instruction    *)
(* in one run from input to input.  The copy that is behind in time moves.    *)
(* The host may also save the state of fast and load it into a new machine.   *)
EXTENDS RunLoop

-----------------------------------------------------------------------------
(* The save states of state.c for this machine: state_visit names             *)
(* each field that a state holds, in both directions.  The trace ring of the  *)
(* CPU, the count of changes of the interrupt controller and the side effects *)
(* that the run loop counts are not in a state.  RingUnit has the two kinds   *)
(* of queues byte by byte.                                                    *)

CONSTANTS
    ThisVersion,   \* PSEMU_STATE_VERSION
    OtherVersion   \* the version of a state of another build

ASSUME StateFileAssumption == ThisVersion # OtherVersion

\* psemu_save_state
SaveState(m) ==
    [version |-> ThisVersion,
     cpu |-> m.cpu, unimplemented |-> m.unimplemented, steps |-> m.steps, ram |-> m.ram,
     intc |-> [hold |-> m.intc.hold, status |-> m.intc.status, enable |-> m.intc.enable],
     ir |-> m.ir, timers |-> m.timers, rtc |-> m.rtc, dac |-> m.dac, clk |-> m.clk,
     time |-> m.time, buttons |-> m.buttons, app |-> m.app]

\* psemu_load_state: a state of another version is refused before any field moves.
LoadState(m, s) ==
    IF s.version # ThisVersion THEN m
    ELSE [m EXCEPT !.cpu = s.cpu, !.unimplemented = s.unimplemented, !.steps = s.steps,
                   !.ram = s.ram, !.trace = <<>>,
                   !.intc = [hold |-> s.intc.hold, status |-> s.intc.status,
                             enable |-> s.intc.enable, changes |-> @.changes],
                   !.ir = s.ir, !.timers = s.timers, !.rtc = s.rtc, !.dac = s.dac,
                   !.clk = s.clk, !.time = s.time, !.buttons = s.buttons, !.app = s.app]

-----------------------------------------------------------------------------
\* A scenario bounds what the programs and the host do.  roms: programs, each
\* with the addresses that are in flash.  boots: machines at the start of the
\* program.  lengths: units of a run.  presses: sets of buttons that the host
\* reports.  leads: how far after the clock a received edge is.  reloads: the host
\* may load a state.  horizon: the time after which the host starts no run.
CONSTANT Scenarios  \* bound: scenarios

ASSUME PairAssumption ==
    \A s \in Scenarios : s.lengths \subseteq Nat \ {0} /\ s.horizon \in Nat

VARIABLES
    host,   \* the scenario
    rom,    \* what the CPU executes
    fast,   \* psemu_t with the skip
    slow,   \* psemu_t without it
    probe,  \* idle_probe_t of the run of fast
    cut,    \* the end of the run of fast
    end,    \* the end of the run of slow
    loaded  \* history: fast is a machine that got the state of the first one

vars == <<host, rom, fast, slow, probe, cut, end, loaded>>

Init ==
    /\ \E s \in Scenarios :
        /\ host = [lengths |-> s.lengths, presses |-> s.presses, leads |-> s.leads,
                   reloads |-> s.reloads, horizon |-> s.horizon]
        /\ rom \in s.roms
        /\ fast \in s.boots
    /\ slow = fast
    /\ probe = ProbeReset
    /\ cut = 0
    /\ end = 0
    /\ loaded = FALSE

FastTurn ==
    /\ fast.time < cut /\ fast.time <= slow.time
    /\ LET t == RunTurn(rom, fast, probe, cut, TRUE)
       IN fast' = t.m /\ probe' = t.p
    /\ UNCHANGED <<host, rom, slow, cut, end, loaded>>

SlowTurn ==
    /\ slow.time < end /\ slow.time < fast.time
    /\ slow' = RunTurn(rom, slow, ProbeReset, end, FALSE).m
    /\ UNCHANGED <<host, rom, fast, probe, cut, end, loaded>>

\* The run of fast ends, and the next one starts with no memory of loops.
CutRun ==
    /\ fast.time >= cut /\ fast.time < end
    /\ \E length \in host.lengths : cut' = SmallerOf(fast.time + length, end)
    /\ probe' = ProbeReset
    /\ UNCHANGED <<host, rom, fast, slow, end, loaded>>

\* Both runs end.  The host then drains the samples, and may change an input of
\* both machines.
BothEnd == fast.time >= end /\ slow.time >= end

Drained(m) == [m EXCEPT !.dac = DacRead(@, RingSize)]

HostRun(f, s) ==
    /\ BothEnd /\ end < host.horizon
    /\ fast' = Drained(f)
    /\ slow' = Drained(s)
    /\ probe' = ProbeReset
    /\ \E length \in host.lengths :
        /\ end' = slow.time + length
        /\ cut' \in {end'} \cup {c \in {fast.time + l : l \in host.lengths} : c < end'}
    /\ UNCHANGED <<host, rom>>

HostRuns == HostRun(fast, slow) /\ UNCHANGED loaded

HostPresses ==
    /\ \E buttons \in host.presses \ {fast.buttons} :
          HostRun(SetButtons(fast, buttons), SetButtons(slow, buttons))
    /\ UNCHANGED loaded

HostSendsEdge ==
    \E lead \in host.leads, level \in BOOLEAN :
        /\ fast.ir.rx = <<>>
        /\ HostRun([fast EXCEPT !.ir = PushRxEdge(@, Edge(@.clock + lead, level))],
                   [slow EXCEPT !.ir = PushRxEdge(@, Edge(@.clock + lead, level))])
        /\ UNCHANGED loaded

\* The user saves a state, starts the program again and loads the state, or one of
\* another version.
HostReloads ==
    /\ host.reloads /\ ~loaded /\ fast.time > 0
    /\ \/ HostRun(LoadState(Reset, SaveState(fast)), slow) /\ loaded' = TRUE
       \/ /\ HostRun(LoadState(fast, [SaveState(Reset) EXCEPT !.version = OtherVersion]), slow)
          /\ UNCHANGED loaded

Next == FastTurn \/ SlowTurn \/ CutRun \/ HostRuns \/ HostPresses \/ HostSendsEdge
        \/ HostReloads

Spec == Init /\ [][Next]_vars

-----------------------------------------------------------------------------
\* What a load keeps of a machine, and the part of its trace after the load.
SameAfterLoad(f, s) ==
    /\ SaveState(f) = SaveState(s)
    /\ Len(f.trace) <= Len(s.trace)
    /\ f.trace = SubSeq(s.trace, Len(s.trace) - Len(f.trace) + 1, Len(s.trace))

\* "The machine after the skip is the same, bit for bit, as the machine after those
\* iterations", and "one long run and a sequence of short runs to the same end
\* execute the same instructions": all runs to one end stop at one time, and at each
\* time that both copies reach all of the machine is equal, the trace and the counts
\* of steps and of changes included.  A machine that continues from a state is equal
\* in all that a state holds (state.c:13), and its trace has the steps since then.
RunsAgree ==
    /\ fast.time = slow.time => IF loaded THEN SameAfterLoad(fast, slow) ELSE fast = slow
    /\ BothEnd => fast.time = slow.time
=============================================================================
