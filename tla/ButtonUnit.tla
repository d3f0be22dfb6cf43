----------------------------- MODULE ButtonUnit -----------------------------
(* One key of the keyboard between the main loop of the desktop frontend,     *)
(* which samples it once for each frame and makes a short press longer, the   *)
(* core, which makes edges of the reports, and the software, which takes the  *)
(* interrupt or has it disabled.  The user also resets the machine and saves  *)
(* and loads states between two frames.                                       *)
EXTENDS Intc

CONSTANTS
    MinFrames,   \* BUTTON_MIN_PRESS_FRAMES
    MaxFrames    \* bound: frames of one press that the history tells apart

ASSUME ButtonAssumption == MinFrames \in Nat \ {0} /\ MaxFrames \in Nat /\ MaxFrames > MinFrames

VARIABLES
    phase,      \* "events" at the start of a frame, "run" in psemu_run
    counter,    \* frames_pressed of the key
    pad,        \* psemu_t: the button in buttons, and intc
    slot,       \* a saved state, or NoSlot
    press,      \* history: the press that the loop reports, in frames
    edge        \* history: the press that the core saw, and what came of it

buttonVars == <<phase, counter, pad, slot, press, edge>>

Key == "action"

NoSlot  == [buttons |-> FALSE]
NoPress == [frames |-> 0, down |-> FALSE]
NoEdge  == [fresh |-> FALSE, enabled |-> FALSE, taken |-> FALSE]

ButtonInit ==
    /\ phase = "events" /\ counter = 0
    /\ pad = [buttons |-> FALSE, intc |-> IntcReset]
    /\ slot = NoSlot /\ press = NoPress /\ edge = NoEdge

Quiet(i) == [i EXCEPT !.changes = 0]

-----------------------------------------------------------------------------
\* Mutant: HOLD is a level for the time of the press.
SetButtonsLevel(p, pressed) ==
    [buttons |-> pressed,
     intc |-> IF pressed = p.buttons THEN p.intc ELSE Quiet(SetLine(p.intc, Key, pressed))]

\* psemu_set_buttons: a change is an edge, and a button that stays down has none.
SetButtons(p, pressed) ==
    [buttons |-> pressed,
     intc |-> Quiet(CASE pressed # p.buttons -> SetLine(p.intc, Key, pressed)
                      [] pressed /\ p.buttons -> ClearHoldOnly(p.intc, Key)
                      [] OTHER -> p.intc)]

\* frames_pressed after the sample of a frame: 0 if the button reads as released.
Stretched(down) ==
    IF down \/ (counter > 0 /\ counter < MinFrames)
    THEN IF counter < MinFrames THEN counter + 1 ELSE counter
    ELSE 0

SampleKeys(down) ==
    LET pressed == Stretched(down) > 0 IN
    /\ phase = "events" /\ phase' = "run"
    /\ counter' = Stretched(down)
    /\ pad' = SetButtons(pad, pressed)
    /\ press' = IF ~pressed THEN NoPress
                ELSE [frames |-> IF press.frames < MaxFrames THEN press.frames + 1 ELSE MaxFrames,
                      down |-> down]
    /\ edge' = IF pressed /\ ~pad.buttons
               THEN [fresh |-> TRUE, enabled |-> Key \in pad.intc.enable, taken |-> FALSE]
               ELSE [edge EXCEPT !.fresh = FALSE]
    /\ UNCHANGED slot

-----------------------------------------------------------------------------
(* The software in the frame                                                  *)

\* The handler runs.  The one of the kernel does not acknowledge the line.
TakeInterrupt(acknowledges) ==
    /\ phase = "run" /\ IrqAsserted(pad.intc)
    /\ pad' = [pad EXCEPT !.intc =
                  IF acknowledges THEN Quiet(WriteAcknowledge(@, {Key})) ELSE @]
    /\ edge' = [edge EXCEPT !.taken = TRUE]
    /\ UNCHANGED <<phase, counter, slot, press>>

\* The software enables or masks the line.  A pending interrupt comes first.
SetEnable(on) ==
    /\ phase = "run" /\ (IrqAsserted(pad.intc) => edge.taken)
    /\ pad' = [pad EXCEPT !.intc = Quiet(IF on THEN WriteEnable(@, {Key}) ELSE WriteMask(@, {Key}))]
    /\ edge' = [edge EXCEPT !.enabled = @ \/ (on /\ edge.fresh /\ Key \in pad.intc.hold)]
    /\ UNCHANGED <<phase, counter, slot, press>>

\* psemu_run returns.  It has run the handler of a pending interrupt.
EndFrame ==
    /\ phase = "run" /\ (IrqAsserted(pad.intc) => edge.taken)
    /\ phase' = "events"
    /\ UNCHANGED <<counter, pad, slot, press, edge>>

-----------------------------------------------------------------------------
(* The user between two frames                                                *)

\* psemu_reset.  The main loop keeps its counter.
ButtonReset ==
    /\ phase = "events"
    /\ pad' = [buttons |-> FALSE, intc |-> IntcReset]
    /\ edge' = NoEdge
    /\ UNCHANGED <<phase, counter, slot, press>>

SavePad ==
    /\ phase = "events"
    /\ slot' = [buttons |-> pad.buttons, intc |-> pad.intc, edge |-> edge]
    /\ UNCHANGED <<phase, counter, pad, press, edge>>

LoadPad ==
    /\ phase = "events" /\ slot # NoSlot
    /\ pad' = [buttons |-> slot.buttons, intc |-> slot.intc]
    /\ edge' = slot.edge
    /\ UNCHANGED <<phase, counter, slot, press>>

ButtonNext ==
    \/ \E down \in BOOLEAN : SampleKeys(down)
    \/ \E a \in BOOLEAN : TakeInterrupt(a)
    \/ \E on \in BOOLEAN : SetEnable(on)
    \/ EndFrame
    \/ ButtonReset \/ SavePad \/ LoadPad

ButtonSpec == ButtonInit /\ [][ButtonNext]_buttonVars

-----------------------------------------------------------------------------
\* STATUS shows the last report, whatever the software acknowledges and whatever
\* the user resets or loads.
LevelFollowsReport == pad.buttons <=> Key \in pad.intc.status

\* HOLD is a pulse: in the second frame of a press it is clear.
HoldIsPulse == Key \in pad.intc.hold => pad.buttons /\ edge.fresh

\* A press is not lost: the software that has the line enabled at any time in its
\* first frame takes it.
PressIsTaken == phase = "events" /\ edge.enabled => edge.taken

\* A press has its minimum, and a longer one ends with the key.
PressHasLength ==
    [][press.frames > 0 /\ press'.frames = 0 =>
          press.frames >= MinFrames /\ (press.frames > MinFrames => press.down)]_buttonVars

\* The core and the software see each press of the keyboard as the comments of the
\* main loop and of psemu_set_buttons say: as a level, as one pulse in its first
\* frame, and with the length of the key or the minimum (psemu.c:437,
\* main.c:2820).
ButtonsAreExact == [](LevelFollowsReport /\ HoldIsPulse /\ PressIsTaken) /\ PressHasLength
=============================================================================
