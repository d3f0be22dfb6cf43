---------------------------- MODULE OverrideUnit ----------------------------
(* The date and time override of the desktop frontend, which writes two bytes *)
(* of RAM at the start of each frame, and the software that owns this RAM by  *)
(* turns: the shell of the BIOS, and an app that the shell starts and that    *)
(* calls the BIOS.  The core finds the owner from the addresses of the        *)
(* instructions (psemu_track_app_execution).  Time is in parts of a frame.    *)
EXTENDS Naturals

CONSTANTS
    Frame,        \* the budget of psemu_run
    Grace,        \* APP_EXEC_GRACE_CYCLES
    LongestCall   \* the longest time that a call of an app stays in the BIOS

\* The comment on APP_EXEC_GRACE_CYCLES: long enough for each BIOS call.
ASSUME OverrideAssumption ==
    /\ Frame \in Nat \ {0} /\ Grace \in Nat
    /\ LongestCall \in Nat /\ LongestCall < Grace

VARIABLES
    software,  \* where the CPU executes, the time left of a call, rtc.mode bit 0
    track,     \* psemu_t: app_running, app_exec_idle_cycles
    stopped,   \* CLK_STOP
    left,      \* the time left of the frame
    set,       \* the override wrote at the start of this frame
    kept       \* a saved state, or NoState

overrideVars == <<software, track, stopped, left, set, kept>>

NoState    == [stopped |-> FALSE]
InShell    == [at |-> "shell", call |-> 0, program |-> FALSE]
NotRunning == [running |-> FALSE, idle |-> 0]

OverrideInit ==
    /\ software = InShell /\ track = NotRunning /\ stopped = FALSE
    /\ left = 0 /\ set = FALSE /\ kept = NoState

-----------------------------------------------------------------------------
\* Mutant: the time outside FLASH1 adds up over the calls of an app.
TrackedTotal(inFlash, d) ==
    IF inFlash THEN [track EXCEPT !.running = TRUE]
    ELSE IF track.running /\ track.idle + d >= Grace THEN NotRunning
    ELSE [track EXCEPT !.idle = IF track.running THEN @ + d ELSE @]

\* psemu_track_app_execution, for instructions that take d.
Tracked(inFlash, d) ==
    IF inFlash THEN [running |-> TRUE, idle |-> 0]
    ELSE IF track.running /\ track.idle + d >= Grace THEN NotRunning
    ELSE [track EXCEPT !.idle = IF track.running THEN @ + d ELSE @]

\* The main loop: the override, if no app runs and the kernel does not program
\* the clock, and then psemu_run.
FrameBegins ==
    /\ left = 0
    /\ left' = Frame
    /\ set' = (~track.running /\ ~software.program)
    /\ UNCHANGED <<software, track, stopped, kept>>

\* Instructions at one place that take d.
Execute(d) ==
    /\ left >= d /\ left > 0 /\ ~stopped
    /\ software.at = "call" => software.call >= d
    /\ left' = left - d
    /\ track' = Tracked(software.at = "flash", d)
    /\ software' = IF software.at = "call" THEN [software EXCEPT !.call = @ - d] ELSE software
    /\ UNCHANGED <<stopped, set, kept>>

\* An instruction of the app: its first one, or the one after a call.
EnterFlash ==
    /\ left > 0 /\ ~stopped
    /\ software.at \in {"shell", "call"} /\ ~software.program
    /\ software' = [software EXCEPT !.at = "flash", !.call = 0]
    /\ track' = Tracked(TRUE, 0)
    /\ UNCHANGED <<stopped, left, set, kept>>

\* A call of the app, which can also be its exit.
CallBios ==
    /\ left > 0 /\ ~stopped /\ software.at = "flash"
    /\ software' = [software EXCEPT !.at = "call", !.call = LongestCall]
    /\ UNCHANGED <<track, stopped, left, set, kept>>

ExitApp ==
    /\ left > 0 /\ ~stopped /\ software.at = "call"
    /\ software' = [software EXCEPT !.at = "shell", !.call = 0]
    /\ UNCHANGED <<track, stopped, left, set, kept>>

\* The kernel enters and leaves program mode, in the shell or for an app.
ProgramClock(on) ==
    /\ left > 0 /\ ~stopped /\ software.at \in {"shell", "call"}
    /\ software.program # on
    /\ software' = [software EXCEPT !.program = on]
    /\ UNCHANGED <<track, stopped, left, set, kept>>

StopClock ==
    /\ left > 0 /\ ~stopped
    /\ stopped' = TRUE
    /\ UNCHANGED <<software, track, left, set, kept>>

\* run_until with the clock stopped: no instruction, and no time for the track.
PassStopped ==
    /\ left > 0 /\ stopped
    /\ left' = left - 1
    /\ UNCHANGED <<software, track, stopped, set, kept>>

Wake ==
    /\ left > 0 /\ stopped
    /\ stopped' = FALSE
    /\ UNCHANGED <<software, track, left, set, kept>>

-----------------------------------------------------------------------------
(* The user, between two frames                                               *)

OverrideReset ==
    /\ left = 0
    /\ software' = InShell /\ track' = NotRunning /\ stopped' = FALSE
    /\ UNCHANGED <<left, set, kept>>

KeepState ==
    /\ left = 0
    /\ kept' = [software |-> software, track |-> track, stopped |-> stopped]
    /\ UNCHANGED <<software, track, stopped, left, set>>

RestoreState ==
    /\ left = 0 /\ kept # NoState
    /\ software' = kept.software /\ track' = kept.track /\ stopped' = kept.stopped
    /\ UNCHANGED <<left, set, kept>>

OverrideNext ==
    \/ FrameBegins
    \/ \E d \in 0..1 : Execute(d)
    \/ EnterFlash \/ CallBios \/ ExitApp
    \/ \E on \in BOOLEAN : ProgramClock(on)
    \/ StopClock \/ PassStopped \/ Wake
    \/ OverrideReset \/ KeepState \/ RestoreState

OverrideSpec == OverrideInit /\ [][OverrideNext]_overrideVars

-----------------------------------------------------------------------------
\* The override writes only to RAM of the shell, whatever calls the app makes,
\* wherever the clock stops, a frame ends, a state loads.
NeverInApp == [][FrameBegins /\ set' => software.at = "shell"]_overrideVars

\* While frames go on, it comes back when the app has ended, the shell leaves the
\* clock alone, and the user loads no more states.
ComesBack ==
    (/\ []<>(left > 0)
     /\ <>[](software.at = "shell" /\ ~software.program)
     /\ <>[][~RestoreState]_overrideVars) => []<>set

\* The comment on psemu_app_running: the override stops while an app operates,
\* and starts again when control returns (psemu.h:408, psemu.c:458).
OverrideFollowsOwner == NeverInApp /\ ComesBack
=============================================================================
