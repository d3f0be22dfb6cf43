----------------------------- MODULE BoardProofs -----------------------------
(* Proofs about the buttons, the screen with the port bits, the libretro      *)
(* core, the rings, the time override, the clock and the content files, which *)
(* MCBoard puts side by side.  They hold for every minimum of a press, every  *)
(* size of the screen, of the rings and of the card, every set of card images,*)
(* of files and of times, and every length of a frame, and for each order of  *)
(* what the software, the frontend and the user do.                           *)
EXTENDS ButtonUnit, LibretroUnit, PanelUnit, RingUnit, OverrideUnit, ClockUnit, ContentUnit,
        WellFoundedInduction, SequenceTheorems, TLAPS

-----------------------------------------------------------------------------
(* The buttons.  The controller has no line but the one of the key.           *)

One == {{}, {Key}}
IntcType == [hold : One, status : One, enable : One, changes : {0}]
PadType  == [buttons : BOOLEAN, intc : IntcType]
EdgeType == [fresh : BOOLEAN, enabled : BOOLEAN, taken : BOOLEAN]
SlotType == [buttons : BOOLEAN, intc : IntcType, edge : EdgeType]

\* A press that is not taken is pending, thus the software cannot mask it first.
Pending(buttons, i, e) ==
    /\ buttons <=> Key \in i.status
    /\ Key \in i.hold => buttons /\ e.fresh
    /\ e.enabled /\ ~e.taken => Key \in i.hold /\ Key \in i.enable

\* The same between two frames, where no interrupt waits.
Settled(buttons, i, e) == Pending(buttons, i, e) /\ (e.enabled => e.taken)

PadInv ==
    /\ phase \in {"events", "run"}
    /\ pad \in PadType /\ edge \in EdgeType
    /\ Pending(pad.buttons, pad.intc, edge)
    /\ phase = "events" => (edge.enabled => edge.taken)
    /\ slot = NoSlot \/ (slot \in SlotType /\ Settled(slot.buttons, slot.intc, slot.edge))

\* The counter of the main loop is the length of the press, up to the minimum.
PressInv ==
    /\ press \in [frames : 0..MaxFrames, down : BOOLEAN]
    /\ counter = IF press.frames < MinFrames THEN press.frames ELSE MinFrames
    /\ press.frames > MinFrames => press.down

LEMMA KeyIsLine == Key \in Buttons /\ Key \in StatusMask /\ Key \in IrqMask /\ Key \in LevelMask
BY DEF Key, Buttons, StatusMask, IrqMask, LevelMask

LEMMA Asserted ==
    ASSUME NEW i \in IntcType
    PROVE  IrqAsserted(i) <=> Key \in i.hold /\ Key \in i.enable
BY KeyIsLine DEF IrqAsserted, IntcType, One

\* The operations of intc.c on the line of the key.
LEMMA QuietCounted ==
    ASSUME NEW i \in IntcType, NEW n \in IntcType
    PROVE  Quiet(Counted(i, n)) = n
<1>1. CASE <<n.hold, n.status, n.enable>> = <<i.hold, i.status, i.enable>>
  <2>1. Counted(i, n) = i
    BY <1>1 DEF Counted
  <2>2. Quiet(i) = n
    BY <1>1 DEF Quiet, IntcType
  <2> QED BY <2>1, <2>2
<1>2. CASE <<n.hold, n.status, n.enable>> # <<i.hold, i.status, i.enable>>
  <2>1. Counted(i, n) = [n EXCEPT !.changes = @ + 1]
    BY <1>2 DEF Counted
  <2>2. [[n EXCEPT !.changes = @ + 1] EXCEPT !.changes = 0] = n
    BY DEF IntcType
  <2> QED BY <2>1, <2>2 DEF Quiet
<1> QED BY <1>1, <1>2

LEMMA LineOn ==
    ASSUME NEW i \in IntcType
    PROVE  LET n == Quiet(SetLine(i, Key, TRUE)) IN
           n \in IntcType /\ n.hold = {Key} /\ n.status = {Key} /\ n.enable = i.enable
<1> DEFINE n == [i EXCEPT !.hold = @ \cup {Key}, !.status = @ \cup ({Key} \cap StatusMask)]
<1>1. n \in IntcType /\ n.hold = {Key} /\ n.status = {Key} /\ n.enable = i.enable
  BY KeyIsLine DEF IntcType, One
<1>2. SetLine(i, Key, TRUE) = Counted(i, n)
  BY DEF SetLine
<1> HIDE DEF n
<1> QED BY <1>1, <1>2, QuietCounted

LEMMA LineOff ==
    ASSUME NEW i \in IntcType
    PROVE  LET n == Quiet(SetLine(i, Key, FALSE)) IN
           n \in IntcType /\ n.hold = {} /\ n.status = {} /\ n.enable = i.enable
<1> DEFINE n == [i EXCEPT !.hold = @ \ {Key}, !.status = @ \ {Key}]
<1>1. n \in IntcType /\ n.hold = {} /\ n.status = {} /\ n.enable = i.enable
  BY DEF IntcType, One
<1>2. SetLine(i, Key, FALSE) = Counted(i, n)
  BY DEF SetLine
<1> HIDE DEF n
<1> QED BY <1>1, <1>2, QuietCounted

LEMMA HoldOff ==
    ASSUME NEW i \in IntcType
    PROVE  LET n == Quiet(ClearHoldOnly(i, Key)) IN
           n \in IntcType /\ n.hold = {} /\ n.status = i.status /\ n.enable = i.enable
<1> DEFINE n == [i EXCEPT !.hold = @ \ {Key}]
<1>1. n \in IntcType /\ n.hold = {} /\ n.status = i.status /\ n.enable = i.enable
  BY DEF IntcType, One
<1>2. ClearHoldOnly(i, Key) = Counted(i, n)
  BY DEF ClearHoldOnly
<1> HIDE DEF n
<1> QED BY <1>1, <1>2, QuietCounted

LEMMA Acknowledged ==
    ASSUME NEW i \in IntcType
    PROVE  LET n == Quiet(WriteAcknowledge(i, {Key})) IN
           n \in IntcType /\ n.hold = {} /\ n.status = i.status /\ n.enable = i.enable
<1> DEFINE n == [i EXCEPT !.hold = @ \ {Key}, !.status = @ \ ({Key} \ LevelMask)]
<1>1. n \in IntcType /\ n.hold = {} /\ n.status = i.status /\ n.enable = i.enable
  BY KeyIsLine DEF IntcType, One
<1>2. WriteAcknowledge(i, {Key}) = Counted(i, n)
  BY DEF WriteAcknowledge
<1> HIDE DEF n
<1> QED BY <1>1, <1>2, QuietCounted

LEMMA EnableWritten ==
    ASSUME NEW i \in IntcType, NEW on \in BOOLEAN
    PROVE  LET n == Quiet(IF on THEN WriteEnable(i, {Key}) ELSE WriteMask(i, {Key})) IN
           n \in IntcType /\ n.hold = i.hold /\ n.status = i.status
           /\ n.enable = IF on THEN {Key} ELSE {}
<1> DEFINE n == IF on THEN [i EXCEPT !.enable = @ \cup {Key}] ELSE [i EXCEPT !.enable = @ \ {Key}]
<1>1. n \in IntcType /\ n.hold = i.hold /\ n.status = i.status /\ n.enable = IF on THEN {Key} ELSE {}
  BY DEF IntcType, One
<1>2. (IF on THEN WriteEnable(i, {Key}) ELSE WriteMask(i, {Key})) = Counted(i, n)
  BY DEF WriteEnable, WriteMask
<1> HIDE DEF n
<1> QED BY <1>1, <1>2, QuietCounted

-----------------------------------------------------------------------------
(* Each step keeps what the core and the software know of a press.            *)

LEMMA InitPad == ButtonInit => PadInv
<1> SUFFICES ASSUME ButtonInit PROVE PadInv
  OBVIOUS
<1>1. IntcReset \in IntcType /\ IntcReset.hold = {} /\ IntcReset.status = {}
  BY DEF IntcReset, IntcType, One
<1>2. phase = "events" /\ pad = [buttons |-> FALSE, intc |-> IntcReset] /\ edge = NoEdge /\ slot = NoSlot
  BY DEF ButtonInit
<1>3. pad \in PadType /\ edge \in EdgeType /\ ~edge.enabled
  BY <1>1, <1>2 DEF PadType, EdgeType, NoEdge
<1>4. Pending(pad.buttons, pad.intc, edge)
  BY <1>1, <1>2, <1>3 DEF Pending
<1> QED BY <1>2, <1>3, <1>4 DEF PadInv

LEMMA SampleKeepsPad ==
    ASSUME PadInv, NEW down \in BOOLEAN, SampleKeys(down) PROVE PadInv'
<1> DEFINE pressed == Stretched(down) > 0
<1>1. /\ phase = "events" /\ phase' = "run" /\ pad' = SetButtons(pad, pressed) /\ UNCHANGED slot
      /\ edge' = IF pressed /\ ~pad.buttons
                 THEN [fresh |-> TRUE, enabled |-> Key \in pad.intc.enable, taken |-> FALSE]
                 ELSE [edge EXCEPT !.fresh = FALSE]
  BY DEF SampleKeys
<1>2. pressed \in BOOLEAN
  OBVIOUS
<1> HIDE DEF pressed
<1>3. /\ pad.intc \in IntcType /\ pad.buttons \in BOOLEAN /\ edge \in EdgeType
      /\ pad.buttons <=> Key \in pad.intc.status
      /\ Key \in pad.intc.hold => pad.buttons
      /\ edge.enabled => edge.taken
  BY <1>1 DEF PadInv, PadType, Pending
<1>4. CASE pressed /\ ~pad.buttons
  <2>1. pad' = [buttons |-> pressed, intc |-> Quiet(SetLine(pad.intc, Key, TRUE))]
    BY <1>1, <1>2, <1>3, <1>4 DEF SetButtons
  <2>2. /\ pad'.buttons = pressed /\ pad'.intc \in IntcType /\ pad'.intc.hold = {Key}
        /\ pad'.intc.status = {Key} /\ pad'.intc.enable = pad.intc.enable
    BY <1>3, <2>1, LineOn
  <2>3. edge' = [fresh |-> TRUE, enabled |-> Key \in pad.intc.enable, taken |-> FALSE]
    BY <1>1, <1>4
  <2>4. pad' \in PadType
    BY <1>2, <2>1, <2>2 DEF PadType
  <2>5. edge' \in EdgeType
    BY <2>3 DEF EdgeType
  <2>6. Pending(pad'.buttons, pad'.intc, edge')
    BY <1>4, <2>2, <2>3 DEF Pending
  <2> QED BY <1>1, <2>4, <2>5, <2>6 DEF PadInv
<1>5. CASE ~(pressed /\ ~pad.buttons)
  <2>0. edge' = [edge EXCEPT !.fresh = FALSE]
    BY <1>1, <1>5
  <2>1. edge' \in EdgeType /\ (edge'.enabled => edge'.taken)
    BY <1>3, <2>0 DEF EdgeType
  <2>2. pad'.buttons = pressed /\ pad'.intc \in IntcType
        /\ Key \notin pad'.intc.hold /\ (pressed <=> Key \in pad'.intc.status)
        /\ pad' = [buttons |-> pressed, intc |-> pad'.intc]
    <3>1. CASE pressed /\ pad.buttons
      <4>1. pad' = [buttons |-> pressed, intc |-> Quiet(ClearHoldOnly(pad.intc, Key))]
        BY <1>1, <1>2, <1>3, <3>1 DEF SetButtons
      <4> QED BY <1>3, <3>1, <4>1, HoldOff
    <3>2. CASE ~pressed /\ pad.buttons
      <4>1. pad' = [buttons |-> pressed, intc |-> Quiet(SetLine(pad.intc, Key, FALSE))]
        BY <1>1, <1>2, <1>3, <3>2 DEF SetButtons
      <4> QED BY <1>3, <3>2, <4>1, LineOff
    <3>3. CASE ~pressed /\ ~pad.buttons
      <4>1. pad' = [buttons |-> pressed, intc |-> Quiet(pad.intc)]
        BY <1>1, <1>2, <1>3, <3>3 DEF SetButtons
      <4>2. Quiet(pad.intc) = pad.intc
        BY <1>3 DEF Quiet, IntcType
      <4> QED BY <1>3, <3>3, <4>1, <4>2
    <3> QED BY <1>3, <1>5, <3>1, <3>2, <3>3
  <2>3. pad' \in PadType
    BY <1>2, <2>2 DEF PadType
  <2>4. Pending(pad'.buttons, pad'.intc, edge')
    BY <2>1, <2>2 DEF Pending
  <2> QED BY <1>1, <2>1, <2>3, <2>4 DEF PadInv
<1> QED BY <1>4, <1>5

LEMMA StepPad == PadInv /\ [ButtonNext]_buttonVars => PadInv'
<1> SUFFICES ASSUME PadInv, [ButtonNext]_buttonVars PROVE PadInv'
  OBVIOUS
<1>0. /\ pad.intc \in IntcType /\ pad.buttons \in BOOLEAN /\ pad \in PadType /\ edge \in EdgeType
      /\ pad.buttons <=> Key \in pad.intc.status
      /\ Key \in pad.intc.hold => pad.buttons /\ edge.fresh
      /\ edge.enabled /\ ~edge.taken => Key \in pad.intc.hold /\ Key \in pad.intc.enable
  BY DEF PadInv, PadType, Pending
<1>1. ASSUME NEW down \in BOOLEAN, SampleKeys(down) PROVE PadInv'
  BY <1>1, SampleKeepsPad
<1>2. ASSUME NEW a \in BOOLEAN, TakeInterrupt(a) PROVE PadInv'
  <2> DEFINE n == IF a THEN Quiet(WriteAcknowledge(pad.intc, {Key})) ELSE pad.intc
  <2>1. /\ phase = "run" /\ UNCHANGED <<phase, slot>>
        /\ pad' = [pad EXCEPT !.intc = n] /\ edge' = [edge EXCEPT !.taken = TRUE]
    BY <1>2 DEF TakeInterrupt
  <2>2. n \in IntcType /\ n.status = pad.intc.status /\ (Key \in n.hold => Key \in pad.intc.hold)
    BY <1>0, Acknowledged
  <2> HIDE DEF n
  <2>3. pad' \in PadType /\ pad'.intc = n /\ pad'.buttons = pad.buttons
    BY <1>0, <2>1, <2>2 DEF PadType
  <2>4. edge' \in EdgeType /\ edge'.taken /\ edge'.fresh = edge.fresh
    BY <1>0, <2>1 DEF EdgeType
  <2>5. Pending(pad'.buttons, pad'.intc, edge')
    BY <1>0, <2>2, <2>3, <2>4 DEF Pending
  <2> QED BY <2>1, <2>3, <2>4, <2>5 DEF PadInv
<1>3. ASSUME NEW on \in BOOLEAN, SetEnable(on) PROVE PadInv'
  <2> DEFINE n == Quiet(IF on THEN WriteEnable(pad.intc, {Key}) ELSE WriteMask(pad.intc, {Key}))
  <2>1. /\ phase = "run" /\ (IrqAsserted(pad.intc) => edge.taken) /\ UNCHANGED <<phase, slot>>
        /\ pad' = [pad EXCEPT !.intc = n]
        /\ edge' = [edge EXCEPT !.enabled = @ \/ (on /\ edge.fresh /\ Key \in pad.intc.hold)]
    BY <1>3 DEF SetEnable
  <2>2. /\ n \in IntcType /\ n.status = pad.intc.status /\ n.hold = pad.intc.hold
        /\ n.enable = IF on THEN {Key} ELSE {}
    BY <1>0, EnableWritten
  <2> HIDE DEF n
  <2>3. pad' \in PadType /\ pad'.intc = n /\ pad'.buttons = pad.buttons
    BY <1>0, <2>1, <2>2 DEF PadType
  <2>4. /\ edge' \in EdgeType /\ edge'.taken = edge.taken /\ edge'.fresh = edge.fresh
        /\ edge'.enabled = (edge.enabled \/ (on /\ edge.fresh /\ Key \in pad.intc.hold))
    BY <1>0, <2>1 DEF EdgeType
  <2>5. edge.enabled => edge.taken
    BY <1>0, <2>1, Asserted
  <2>6. Pending(pad'.buttons, pad'.intc, edge')
    <3>1. edge'.enabled /\ ~edge'.taken => on /\ Key \in pad.intc.hold
      BY <1>0, <2>4, <2>5 DEF EdgeType
    <3> QED BY <1>0, <2>2, <2>3, <2>4, <3>1 DEF Pending
  <2> QED BY <2>1, <2>3, <2>4, <2>6 DEF PadInv
<1>4. ASSUME EndFrame PROVE PadInv'
  <2>1. (IrqAsserted(pad.intc) => edge.taken) /\ phase' = "events" /\ UNCHANGED <<pad, slot, edge>>
    BY <1>4 DEF EndFrame
  <2>2. edge.enabled => edge.taken
    BY <1>0, <2>1, Asserted
  <2> QED BY <2>1, <2>2 DEF PadInv
<1>5. ASSUME ButtonReset PROVE PadInv'
  <2>1. IntcReset \in IntcType /\ IntcReset.hold = {} /\ IntcReset.status = {}
    BY DEF IntcReset, IntcType, One
  <2>2. pad' = [buttons |-> FALSE, intc |-> IntcReset] /\ edge' = NoEdge /\ UNCHANGED <<phase, slot>>
    BY <1>5 DEF ButtonReset
  <2>3. pad' \in PadType /\ edge' \in EdgeType /\ ~edge'.enabled
    BY <2>1, <2>2 DEF PadType, EdgeType, NoEdge
  <2>4. Pending(pad'.buttons, pad'.intc, edge')
    BY <2>1, <2>2, <2>3 DEF Pending
  <2> QED BY <2>2, <2>3, <2>4 DEF PadInv
<1>6. ASSUME SavePad PROVE PadInv'
  <2>1. /\ phase = "events" /\ UNCHANGED <<phase, pad, edge>>
        /\ slot' = [buttons |-> pad.buttons, intc |-> pad.intc, edge |-> edge]
    BY <1>6 DEF SavePad
  <2>2. slot' \in SlotType
    BY <1>0, <2>1 DEF SlotType
  <2>3. Settled(slot'.buttons, slot'.intc, slot'.edge)
    BY <2>1 DEF PadInv, Settled
  <2> QED BY <2>1, <2>2, <2>3 DEF PadInv
<1>7. ASSUME LoadPad PROVE PadInv'
  <2>1. /\ slot # NoSlot /\ UNCHANGED <<phase, slot>>
        /\ pad' = [buttons |-> slot.buttons, intc |-> slot.intc] /\ edge' = slot.edge
    BY <1>7 DEF LoadPad
  <2>2. slot \in SlotType /\ Settled(slot.buttons, slot.intc, slot.edge)
    BY <2>1 DEF PadInv
  <2>3. pad' \in PadType /\ edge' \in EdgeType
    BY <2>1, <2>2 DEF SlotType, PadType
  <2>4. Pending(pad'.buttons, pad'.intc, edge') /\ (edge'.enabled => edge'.taken)
    BY <2>1, <2>2 DEF Settled
  <2> QED BY <2>1, <2>3, <2>4 DEF PadInv
<1>8. CASE UNCHANGED buttonVars
  BY <1>8 DEF buttonVars, PadInv
<1> QED
  BY <1>1, <1>2, <1>3, <1>4, <1>5, <1>6, <1>7, <1>8 DEF ButtonNext

-----------------------------------------------------------------------------
(* The length of a press                                                      *)

LEMMA InitPress == ButtonInit => PressInv
<1> SUFFICES ASSUME ButtonInit PROVE PressInv
  OBVIOUS
<1>1. press = [frames |-> 0, down |-> FALSE] /\ counter = 0
  BY DEF ButtonInit, NoPress
<1> QED BY <1>1, ButtonAssumption DEF PressInv

\* A sample: the press goes on, or it ends with its minimum behind it.
LEMMA SamplePress ==
    ASSUME PressInv, NEW down \in BOOLEAN, SampleKeys(down)
    PROVE  /\ PressInv'
           /\ press.frames > 0 /\ press'.frames = 0 =>
                press.frames >= MinFrames /\ (press.frames > MinFrames => press.down)
<1>0. /\ MinFrames \in Nat /\ MinFrames > 0 /\ MaxFrames \in Nat /\ MaxFrames > MinFrames
      /\ press.frames \in 0..MaxFrames /\ press.down \in BOOLEAN /\ counter \in Nat
      /\ counter = IF press.frames < MinFrames THEN press.frames ELSE MinFrames
  BY ButtonAssumption DEF PressInv
<1> DEFINE f == IF press.frames < MaxFrames THEN press.frames + 1 ELSE MaxFrames
<1>1. /\ counter' = Stretched(down)
      /\ press' = IF ~(Stretched(down) > 0) THEN NoPress ELSE [frames |-> f, down |-> down]
  BY DEF SampleKeys
<1>2. CASE down \/ (counter > 0 /\ counter < MinFrames)
  <2>1. Stretched(down) = IF counter < MinFrames THEN counter + 1 ELSE counter
    BY <1>2 DEF Stretched
  <2>2. Stretched(down) > 0
    BY <1>0, <2>1, SMT
  <2>3. press' = [frames |-> f, down |-> down]
    BY <1>1, <2>2
  <2>4. press'.frames = f /\ press'.down = down /\ f \in 1..MaxFrames
    BY <1>0, <2>3, SMT
  <2>5. counter' = IF f < MinFrames THEN f ELSE MinFrames
    BY <1>0, <1>1, <2>1, SMT
  <2>6. f > MinFrames => down
    BY <1>0, <1>2, SMT
  <2> HIDE DEF f
  <2>7. press' \in [frames : 0..MaxFrames, down : BOOLEAN]
    BY <2>3, <2>4
  <2> QED BY <2>4, <2>5, <2>6, <2>7 DEF PressInv
<1>3. CASE ~(down \/ (counter > 0 /\ counter < MinFrames))
  <2>1. Stretched(down) = 0
    BY <1>3 DEF Stretched
  <2>2. press' = [frames |-> 0, down |-> FALSE] /\ counter' = 0
    BY <1>1, <2>1 DEF NoPress
  <2>3. PressInv'
    BY <1>0, <2>2 DEF PressInv
  <2>4. press.frames > 0 => press.frames >= MinFrames
    BY <1>0, <1>3, SMT
  <2> QED BY <2>3, <2>4 DEF PressInv
<1> QED BY <1>2, <1>3

LEMMA StepPress ==
    PressInv /\ [ButtonNext]_buttonVars =>
        /\ PressInv'
        /\ press.frames > 0 /\ press'.frames = 0 =>
                press.frames >= MinFrames /\ (press.frames > MinFrames => press.down)
<1> SUFFICES ASSUME PressInv, [ButtonNext]_buttonVars
             PROVE  /\ PressInv'
                    /\ press.frames > 0 /\ press'.frames = 0 =>
                         press.frames >= MinFrames /\ (press.frames > MinFrames => press.down)
  OBVIOUS
<1>1. CASE \E down \in BOOLEAN : SampleKeys(down)
  BY <1>1, SamplePress
<1>2. CASE UNCHANGED <<counter, press>>
  BY <1>2 DEF PressInv
<1>3. ASSUME NEW a, TakeInterrupt(a) \/ SetEnable(a) PROVE UNCHANGED <<counter, press>>
  BY <1>3 DEF TakeInterrupt, SetEnable
<1>4. ASSUME EndFrame \/ ButtonReset \/ SavePad \/ LoadPad \/ UNCHANGED buttonVars
      PROVE  UNCHANGED <<counter, press>>
  BY <1>4 DEF EndFrame, ButtonReset, SavePad, LoadPad, buttonVars
<1> QED BY <1>1, <1>2, <1>3, <1>4 DEF ButtonNext

\* The core and the software see each press of the keyboard as a level, as one
\* pulse in its first frame that is not lost, and with the length of the key or
\* the minimum (psemu_set_buttons of psemu.c, the main loop of main.c).
THEOREM ButtonsAreAlwaysExact == ButtonSpec => ButtonsAreExact
<1>1. ButtonInit => PadInv /\ PressInv
  BY InitPad, InitPress
<1>2. PadInv /\ PressInv /\ [ButtonNext]_buttonVars => PadInv' /\ PressInv'
  BY StepPad, StepPress
<1>3. PadInv => LevelFollowsReport /\ HoldIsPulse /\ PressIsTaken
  BY DEF PadInv, Pending, LevelFollowsReport, HoldIsPulse, PressIsTaken
<1>4. PressInv /\ [ButtonNext]_buttonVars =>
        [press.frames > 0 /\ press'.frames = 0 =>
          press.frames >= MinFrames /\ (press.frames > MinFrames => press.down)]_buttonVars
  BY StepPress
<1> QED BY <1>1, <1>2, <1>3, <1>4, PTL DEF ButtonSpec, ButtonsAreExact, PressHasLength

-----------------------------------------------------------------------------
(* The libretro core: from the load to the first frame, the identity of the   *)
(* content stays beside the flash that the save file can replace.             *)

Opened ==
    /\ check = [identity |-> Identity(disk.card), pending |-> TRUE]
    /\ ~warned

RetroInv ==
    /\ session \in {"closed", "loaded", "ready", "running"}
    /\ session = "loaded" => Opened /\ flash = disk.card
    /\ session = "ready" =>
           Opened /\ flash = IF disk.save = NoCard THEN disk.card ELSE disk.save
    /\ session = "running" => check.pending = FALSE
    /\ disk = [card |-> disk.card, save |-> disk.save]
    /\ check = [identity |-> check.identity, pending |-> check.pending]
    /\ WarnIffReplaced

LEMMA RetroStart == RetroInit => RetroInv
BY DEF RetroInit, RetroInv, WarnIffReplaced

LEMMA RetroStep == RetroInv /\ [RetroNext]_retroVars => RetroInv'
<1> SUFFICES ASSUME RetroInv, [RetroNext]_retroVars PROVE RetroInv'
  OBVIOUS
<1> USE DEF RetroInv, Opened, WarnIffReplaced
<1>1. CASE EditFiles
  BY <1>1 DEF EditFiles
<1>2. CASE RetroLoadGame
  BY <1>2 DEF RetroLoadGame
<1>3. CASE RetroLoadFails
  BY <1>3 DEF RetroLoadFails
<1>4. CASE CopySaveFile
  BY <1>4 DEF CopySaveFile
<1>5. ASSUME NEW c \in Card, RetroRun(c) PROVE RetroInv'
  <2>1. CASE session = "ready"
    <3>1. warned' <=> disk.save # NoCard /\ Identity(disk.save) # Identity(disk.card)
      <4>1. check.pending = TRUE /\ check.identity = Identity(disk.card) /\ ~warned
        BY <2>1
      <4>2. warned' <=> Identity(flash) # Identity(disk.card)
        BY <1>5, <4>1 DEF RetroRun
      <4>3. CASE disk.save = NoCard
        BY <2>1, <4>2, <4>3
      <4>4. CASE disk.save # NoCard
        BY <2>1, <4>2, <4>4
      <4> QED BY <4>3, <4>4
    <3> QED BY <1>5, <2>1, <3>1 DEF RetroRun
  <2>2. CASE session = "running"
    BY <1>5, <2>2 DEF RetroRun
  <2> QED BY <1>5, <2>1, <2>2 DEF RetroRun
<1>6. CASE RetroSerialize
  BY <1>6 DEF RetroSerialize
<1>7. CASE RetroUnserialize
  BY <1>7 DEF RetroUnserialize
<1>8. CASE RetroUnloadGame
  BY <1>8 DEF RetroUnloadGame
<1>9. CASE RetroProcessEnds
  BY <1>9 DEF RetroProcessEnds
<1>10. CASE UNCHANGED retroVars
  BY <1>10 DEF retroVars
<1> QED
  BY <1>1, <1>2, <1>3, <1>4, <1>5, <1>6, <1>7, <1>8, <1>9, <1>10 DEF RetroNext

\* There is a warning in each session whose save file holds another card than the
\* content, and in no other one, for all images: the first frame compares the
\* flash, which by then holds the save file, with the identity of the load
\* (libretro.c, retro_run).
THEOREM WarnsIffReplaced == RetroSpec => []WarnIffReplaced
<1>1. RetroInv => WarnIffReplaced
  BY DEF RetroInv
<1> QED
  BY <1>1, RetroStart, RetroStep, PTL DEF RetroSpec

-----------------------------------------------------------------------------
(* The screen: a scanline of the image depends on one scanline of the         *)
(* framebuffer, thus a write of a byte brings the whole image up to date.     *)

Width == LcdBytes * LcdBits

ScanLine == [LcdCol -> BOOLEAN]

LcdType == [vram : [LcdRow -> ScanLine], presented : [LcdRow -> ScanLine],
            on : BOOLEAN, rotated : BOOLEAN, dirty : BOOLEAN]

\* What row r of the image has to be.
Shown(l, r) ==
    [c \in LcdCol |-> l.on /\ IF l.rotated THEN l.vram[LcdRows - 1 - r][Width - 1 - c]
                              ELSE l.vram[r][c]]

Upright(l) == \A r \in LcdRow : l.presented[r] = Shown(l, r)

\* The row of the image in which a scanline is.
RowOf(l, r) == IF l.on /\ l.rotated THEN LcdRows - 1 - r ELSE r

Muted(i, m) == i \subseteq IopBits /\ (m <=> "sound" \in i) /\ m \in BOOLEAN

Kept(f) ==
    /\ f.lcd \in LcdType /\ Upright(f.lcd) /\ Muted(f.iop, f.muted)

PanelInv ==
    /\ lcd \in LcdType /\ Upright(lcd)
    /\ Muted(iop, muted)
    /\ file # NoFile => Kept(file)

LEMMA LcdSize ==
    /\ LcdRows \in Nat \ {0} /\ Width \in Nat /\ LcdBits \in Nat \ {0}
    /\ LcdRow = 0..LcdRows - 1 /\ LcdCol = 0..Width - 1
    /\ \A r \in LcdRow : LcdRows - 1 - r \in LcdRow /\ LcdRows - 1 - (LcdRows - 1 - r) = r
    /\ \A c \in LcdCol : Width - 1 - c \in LcdCol
<1>1. LcdRows \in Nat \ {0} /\ LcdBytes \in Nat \ {0} /\ LcdBits \in Nat \ {0}
  BY LcdAssumption
<1>2. Width \in Nat
  BY <1>1 DEF Width
<1>3. LcdRow = 0..LcdRows - 1 /\ LcdCol = 0..Width - 1
  BY DEF LcdRow, LcdCol, Width
<1> QED BY <1>1, <1>2, <1>3

LEMMA WantedType ==
    ASSUME NEW l \in LcdType, NEW r \in LcdRow
    PROVE  Shown(l, r) \in ScanLine
BY DEF Shown, ScanLine

\* The other bits of the screen do not matter.
LEMMA SameImage ==
    ASSUME NEW l, NEW q, Upright(l), q.presented = l.presented,
           q.vram = l.vram, q.on = l.on, q.rotated = l.rotated
    PROVE  Upright(q)
<1>1. \A r \in LcdRow : Shown(q, r) = Shown(l, r)
  BY DEF Shown
<1> QED BY <1>1 DEF Upright

LEMMA RowPresented ==
    ASSUME NEW l \in LcdType, NEW r \in LcdRow
    PROVE  PresentRow(l, r) = [l EXCEPT !.presented[RowOf(l, r)] = Shown(l, RowOf(l, r))]
<1>1. CASE ~l.on
  <2>1. Shown(l, r) = WhiteLine
    BY <1>1 DEF Shown, WhiteLine
  <2> QED BY <1>1, <2>1 DEF PresentRow, RowOf
<1>2. CASE l.on /\ l.rotated
  <2>1. Shown(l, LcdRows - 1 - r) = Mirrored(l.vram[r])
    <3>1. LcdRows - 1 - (LcdRows - 1 - r) = r
      BY LcdSize
    <3>2. \A c \in LcdCol : l.vram[r][Width - 1 - c] \in BOOLEAN
      BY LcdSize DEF LcdType, ScanLine
    <3> QED BY <1>2, <3>1, <3>2 DEF Shown, Mirrored, Width
  <2> QED BY <1>2, <2>1 DEF PresentRow, RowOf
<1>3. CASE l.on /\ ~l.rotated
  <2>1. l.vram[r] = [c \in LcdCol |-> l.vram[r][c]] /\ \A c \in LcdCol : l.vram[r][c] \in BOOLEAN
    BY DEF LcdType, ScanLine
  <2>2. Shown(l, r) = l.vram[r]
    BY <1>3, <2>1 DEF Shown
  <2> QED BY <1>3, <2>2 DEF PresentRow, RowOf
<1> QED BY <1>1, <1>2, <1>3 DEF LcdType

LEMMA AllPresented ==
    ASSUME NEW l \in LcdType
    PROVE  LET q == PresentAll(l)
           IN  /\ q \in LcdType /\ Upright(q)
               /\ q.vram = l.vram /\ q.on = l.on /\ q.rotated = l.rotated
<1> DEFINE q == PresentAll(l)
           image == [r \in LcdRow |-> PresentRow(l, RowOf(l, r)).presented[r]]
<1>1. q = [l EXCEPT !.presented = image]
  BY DEF PresentAll, RowOf
<1>2. ASSUME NEW r \in LcdRow PROVE image[r] = Shown(l, r)
  <2>1. RowOf(l, r) \in LcdRow /\ RowOf(l, RowOf(l, r)) = r
    BY LcdSize DEF RowOf
  <2>2. PresentRow(l, RowOf(l, r)) = [l EXCEPT !.presented[r] = Shown(l, r)]
    BY <2>1, RowPresented
  <2>3. [l EXCEPT !.presented[r] = Shown(l, r)].presented[r] = Shown(l, r)
    BY DEF LcdType
  <2> QED BY <2>2, <2>3
<1>3. image \in [LcdRow -> ScanLine]
  BY <1>2, WantedType
<1> HIDE DEF image
<1>4. q \in LcdType /\ q.presented = image /\ q.vram = l.vram /\ q.on = l.on /\ q.rotated = l.rotated
  BY <1>1, <1>3 DEF LcdType
<1>5. Upright(q)
  BY <1>2, <1>4 DEF Upright, Shown
<1> QED BY <1>4, <1>5

LEMMA BytePixels ==
    ASSUME NEW line \in ScanLine, NEW b, NEW p \in Pixels
    PROVE  WithByte(line, b, p) \in ScanLine
<1>1. ASSUME NEW c \in LcdCol PROVE p[c % LcdBits] \in BOOLEAN
  <2>1. c \in Nat /\ LcdBits \in Nat \ {0}
    BY LcdSize
  <2>2. c % LcdBits \in 0..LcdBits - 1
    BY <2>1, SMTT(30)
  <2> QED BY <2>2, PanelUnitAssumption
<1> QED BY <1>1 DEF WithByte, ScanLine

LEMMA VramWritten ==
    ASSUME NEW l \in LcdType, Upright(l), NEW r \in LcdRow, NEW b, NEW p \in Pixels
    PROVE  WriteVram(l, r, b, p) \in LcdType /\ Upright(WriteVram(l, r, b, p))
<1> DEFINE m == [l EXCEPT !.vram[r] = WithByte(@, b, p)]
           q == [m EXCEPT !.presented[RowOf(m, r)] = Shown(m, RowOf(m, r))]
<1>1. WithByte(l.vram[r], b, p) \in ScanLine
  BY BytePixels DEF LcdType
<1>2. /\ m \in LcdType /\ m.presented = l.presented /\ m.on = l.on /\ m.rotated = l.rotated
      /\ \A k \in LcdRow : k # r => m.vram[k] = l.vram[k]
  BY <1>1 DEF LcdType
<1> HIDE DEF m
<1>3. PresentRow(m, r) = q
  BY <1>2, RowPresented
<1>4. RowOf(m, r) \in LcdRow /\ Shown(m, RowOf(m, r)) \in ScanLine
  BY <1>2, LcdSize, WantedType DEF RowOf
<1>5. /\ q \in LcdType /\ q.vram = m.vram /\ q.on = m.on /\ q.rotated = m.rotated
      /\ q.presented[RowOf(m, r)] = Shown(m, RowOf(m, r))
      /\ \A k \in LcdRow : k # RowOf(m, r) => q.presented[k] = m.presented[k]
  BY <1>2, <1>4 DEF LcdType
<1> HIDE DEF q
<1>6. ASSUME NEW k \in LcdRow PROVE q.presented[k] = Shown(m, k)
  <2>1. CASE k = RowOf(m, r)
    BY <1>5, <2>1
  <2>2. CASE k # RowOf(m, r)
    <3>1. q.presented[k] = Shown(l, k)
      BY <1>2, <1>5, <2>2 DEF Upright
    <3>2. CASE ~m.on
      BY <1>2, <3>1, <3>2 DEF Shown
    <3>3. CASE m.on /\ m.rotated
      <4>1. LcdRows - 1 - k \in LcdRow /\ LcdRows - 1 - k # r
        BY <2>2, <3>3, LcdSize DEF RowOf
      <4> QED BY <1>2, <3>1, <3>3, <4>1 DEF Shown
    <3>4. CASE m.on /\ ~m.rotated
      BY <1>2, <2>2, <3>1, <3>4 DEF Shown, RowOf
    <3> QED BY <3>2, <3>3, <3>4
  <2> QED BY <2>1, <2>2
<1>7. WriteVram(l, r, b, p) = [q EXCEPT !.dirty = TRUE]
  BY <1>3 DEF WriteVram, m
<1>8. /\ WriteVram(l, r, b, p) \in LcdType
      /\ WriteVram(l, r, b, p).presented = q.presented /\ WriteVram(l, r, b, p).vram = m.vram
      /\ WriteVram(l, r, b, p).on = m.on /\ WriteVram(l, r, b, p).rotated = m.rotated
  BY <1>5, <1>7 DEF LcdType
<1>9. Upright(q)
  <2>1. \A k \in LcdRow : Shown(q, k) = Shown(m, k)
    BY <1>5 DEF Shown
  <2> QED BY <1>6, <2>1 DEF Upright
<1> QED BY <1>5, <1>8, <1>9, SameImage

LEMMA ModeWritten ==
    ASSUME NEW l \in LcdType, NEW on \in BOOLEAN, NEW rotated \in BOOLEAN
    PROVE  WriteLcdMode(l, on, rotated) \in LcdType /\ Upright(WriteLcdMode(l, on, rotated))
<1> DEFINE m == [l EXCEPT !.on = on, !.rotated = rotated]
           q == PresentAll(m)
<1>1. m \in LcdType
  BY DEF LcdType
<1> HIDE DEF m
<1>2. q \in LcdType /\ Upright(q)
  BY <1>1, AllPresented
<1>3. WriteLcdMode(l, on, rotated) = [q EXCEPT !.dirty = TRUE]
  BY DEF WriteLcdMode, m
<1> HIDE DEF q
<1>4. /\ WriteLcdMode(l, on, rotated) \in LcdType
      /\ WriteLcdMode(l, on, rotated).presented = q.presented
      /\ WriteLcdMode(l, on, rotated).vram = q.vram
      /\ WriteLcdMode(l, on, rotated).on = q.on
      /\ WriteLcdMode(l, on, rotated).rotated = q.rotated
  BY <1>2, <1>3 DEF LcdType
<1> QED BY <1>2, <1>4, SameImage

LEMMA LcdStarts ==
    LcdReset \in LcdType /\ Upright(LcdReset) /\ Upright([LcdReset EXCEPT !.dirty = TRUE])
<1>1. WhiteLine \in ScanLine
  BY DEF WhiteLine, ScanLine
<1>2. LcdReset \in LcdType
  BY <1>1 DEF LcdReset, LcdType
<1>3. \A r \in LcdRow : LcdReset.presented[r] = WhiteLine /\ Shown(LcdReset, r) = WhiteLine
  BY LcdSize DEF LcdReset, Shown, WhiteLine
<1> QED BY <1>2, <1>3 DEF Upright, Shown, LcdReset

LEMMA PanelStart == PanelInit => PanelInv
BY LcdStarts DEF PanelInit, PanelInv, Muted, NoFile, IopBits

LEMMA PanelStep == PanelInv /\ [PanelNext]_panelVars => PanelInv'
<1> SUFFICES ASSUME PanelInv, [PanelNext]_panelVars PROVE PanelInv'
  OBVIOUS
<1> USE DEF PanelInv
<1>1. ASSUME NEW r \in LcdRow, NEW b \in 0..LcdBytes - 1, NEW p \in Pixels, WriteFramebuffer(r, b, p)
      PROVE  PanelInv'
  BY <1>1, VramWritten DEF WriteFramebuffer
<1>2. ASSUME NEW on \in BOOLEAN, NEW rotated \in BOOLEAN, WriteLcdModeRegister(on, rotated)
      PROVE  PanelInv'
  BY <1>2, ModeWritten DEF WriteLcdModeRegister
<1>3. ASSUME NEW register \in {"ctrl", "stop", "start", "data"}, NEW bits \in SUBSET IopBits,
             WriteIop(register, bits)
      PROVE  PanelInv'
  <2>1. IopWritten(register, bits) \subseteq IopBits
    BY DEF IopWritten, Muted
  <2>2. iop' \subseteq IopBits /\ muted' = ("sound" \in iop')
    BY <1>3, <2>1 DEF WriteIop
  <2>3. Muted(iop', muted')
    <3>1. muted' \in BOOLEAN
      BY <2>2
    <3>2. muted' <=> "sound" \in iop'
      BY <2>2
    <3> QED BY <2>2, <3>1, <3>2 DEF Muted
  <2> QED BY <1>3, <2>3 DEF WriteIop
<1>4. CASE PanelReset
  <2>1. lcd' \in LcdType /\ Upright(lcd')
    BY <1>4, LcdStarts DEF PanelReset, LcdType
  <2> QED BY <1>4, <2>1 DEF PanelReset, Muted
<1>5. CASE ClearRot
  <2>1. lcd.on \in BOOLEAN
    BY DEF LcdType
  <2> QED BY <1>5, <2>1, ModeWritten DEF ClearRot
<1>6. CASE DrawFrame
  <2>1. lcd' \in LcdType /\ Upright(lcd')
    <3>1. /\ lcd' \in LcdType /\ lcd'.presented = lcd.presented /\ lcd'.vram = lcd.vram
          /\ lcd'.on = lcd.on /\ lcd'.rotated = lcd.rotated
      BY <1>6 DEF DrawFrame, LcdType
    <3> QED BY <3>1, SameImage
  <2> QED BY <1>6, <2>1 DEF DrawFrame
<1>7. CASE SaveState
  BY <1>7 DEF SaveState, Kept
<1>8. CASE LoadState
  BY <1>8 DEF LoadState, Kept
<1>9. CASE UNCHANGED panelVars
  BY <1>9 DEF panelVars
<1> QED
  BY <1>1, <1>2, <1>3, <1>4, <1>5, <1>6, <1>7, <1>8, <1>9 DEF PanelNext

\* The image is the framebuffer under the mode that holds now, and the gate of the
\* sound is the bit of IOP, after each order of writes, resets, turns, saves and
\* loads and for each size of the screen (lcd.c, iop.c).
THEOREM OutputAlwaysFollowsRegisters == PanelSpec => []OutputFollowsRegisters
<1>1. ASSUME PanelInv PROVE OutputFollowsRegisters
  <2>1. GateFollowsIop
    BY <1>1 DEF PanelInv, Muted, GateFollowsIop
  <2>2. ASSUME NEW r \in LcdRow, NEW c \in LcdCol
        PROVE  lcd.presented[r][c] = (lcd.on /\ IF lcd.rotated THEN lcd.vram[LcdRows - 1 - r][Width - 1 - c]
                                                ELSE lcd.vram[r][c])
    <3>1. lcd.presented[r] = Shown(lcd, r)
      BY <1>1 DEF PanelInv, Upright
    <3> QED BY <3>1 DEF Shown
  <2>3. ImageFollowsMode
    BY <2>2 DEF ImageFollowsMode, Width
  <2> QED BY <2>1, <2>3 DEF OutputFollowsRegisters
<1> QED BY <1>1, PanelStart, PanelStep, PTL DEF PanelSpec

-----------------------------------------------------------------------------
(* The rings of the core: both are bounded queues that a state carries.       *)

Slots(size) == [0..size - 1 -> Item]
RingFile(size) == [entries : Slots(size), count : 0..size]

\* A sum of a position and at most one turn of the ring, without the division.
LEMMA Turn ==
    ASSUME NEW size \in Nat \ {0}, NEW k \in 0..2 * size - 1
    PROVE  k % size = IF k < size THEN k ELSE k - size
<1>1. /\ k % size \in 0..size - 1 /\ k \div size \in Int
      /\ k = size * (k \div size) + (k % size)
  BY SMTT(30)
<1> DEFINE q == k \div size
           r == k % size
<1>2. q \in Int /\ r \in 0..size - 1 /\ k = size * q + r
  BY <1>1
<1> HIDE DEF q, r
<1>3. q \in {0, 1}
  <2>1. CASE q < 0
    <3>1. size * q <= size * (-1)
      BY <1>2, <2>1, SMT
    <3> QED BY <1>2, <3>1, SMT
  <2>2. CASE q > 1
    <3>1. size * q >= size * 2
      BY <1>2, <2>2, SMT
    <3> QED BY <1>2, <3>1, SMT
  <2> QED BY <1>2, <2>1, <2>2
<1>4. r = IF k < size THEN k ELSE k - size
  <2>1. CASE q = 0
    BY <1>2, <2>1, SMT
  <2>2. CASE q = 1
    BY <1>2, <2>2, SMT
  <2> QED BY <1>3, <2>1, <2>2
<1> QED BY <1>4 DEF r

-----------------------------------------------------------------------------
(* What the ends of a ring and the state file do to the contents of a ring.   *)

LEMMA ContentsType ==
    ASSUME NEW size \in Nat \ {0}, NEW slots \in Slots(size),
           NEW first \in 0..size - 1, NEW count \in 0..size
    PROVE  /\ Contents(slots, first, count, size) \in [1..count -> Item]
           /\ Contents(slots, first, count, size) \in Seq(Item)
           /\ Len(Contents(slots, first, count, size)) = count
<1>1. ASSUME NEW i \in 1..count PROVE slots[(first + i - 1) % size] \in Item
  <2>1. first + i - 1 \in 0..2 * size - 1
    BY SMT
  <2>2. (first + i - 1) % size \in 0..size - 1
    BY <2>1, Turn, SMT
  <2> QED BY <2>2 DEF Slots
<1>2. Contents(slots, first, count, size) \in [1..count -> Item]
  BY <1>1 DEF Contents
<1> QED BY <1>2

LEMMA PutAtEnd ==
    ASSUME NEW size \in Nat \ {0}, NEW slots \in Slots(size),
           NEW first \in 0..size - 1, NEW count \in 0..size, count < size, NEW x \in Item
    PROVE  LET at == (first + count) % size IN
           /\ at \in 0..size - 1
           /\ [slots EXCEPT ![at] = x] \in Slots(size)
           /\ Contents([slots EXCEPT ![at] = x], first, count + 1, size)
                = Append(Contents(slots, first, count, size), x)
<1> DEFINE at == (first + count) % size
           old == Contents(slots, first, count, size)
           after == [slots EXCEPT ![at] = x]
           new == Contents(after, first, count + 1, size)
<1>1. first + count \in 0..2 * size - 1
  BY SMT
<1>2. at = (IF first + count < size THEN first + count ELSE first + count - size)
  <2> DEFINE t == first + count
  <2>1. t \in 0..2 * size - 1
    BY <1>1
  <2> HIDE DEF t
  <2>2. t % size = (IF t < size THEN t ELSE t - size)
    BY <2>1, Turn
  <2> QED BY <2>2 DEF t
<1>3. at \in 0..size - 1
  BY <1>2, SMT
<1>4. after \in Slots(size)
  BY <1>3 DEF Slots
<1>5. old \in Seq(Item) /\ Len(old) = count /\ old \in [1..count -> Item]
  BY ContentsType
<1>6. count + 1 \in 0..size
  BY SMT
<1>7. new \in Seq(Item) /\ Len(new) = count + 1
  BY <1>4, <1>6, ContentsType
<1>8. ASSUME NEW i \in 1..count + 1 PROVE new[i] = Append(old, x)[i]
  <2> DEFINE j == (first + i - 1) % size
  <2>1. new[i] = after[j]
    BY DEF Contents
  <2>2. first + i - 1 \in 0..2 * size - 1
    BY SMT
  <2>3. j = (IF first + i - 1 < size THEN first + i - 1 ELSE first + i - 1 - size)
    <3> DEFINE t == first + i - 1
    <3>1. t \in 0..2 * size - 1
      BY <2>2
    <3> HIDE DEF t
    <3>2. t % size = (IF t < size THEN t ELSE t - size)
      BY <3>1, Turn
    <3> QED BY <3>2 DEF t
  <2>4. j \in 0..size - 1
    BY <2>3, SMT
  <2> HIDE DEF j
  <2>5. CASE i = count + 1
    <3>1. j = at
      BY <1>2, <2>3, <2>5, SMT
    <3>2. after[j] = x
      BY <3>1, <1>3 DEF Slots
    <3>3. Append(old, x)[i] = x
      BY <1>5, <2>5
    <3> QED BY <2>1, <3>2, <3>3
  <2>6. CASE i # count + 1
    <3>1. j # at /\ i \in 1..count
      BY <1>2, <2>3, <2>6, SMT
    <3>2. after[j] = slots[j]
      BY <3>1, <2>4 DEF Slots
    <3>3. Append(old, x)[i] = old[i]
      BY <1>5, <3>1
    <3>4. old[i] = slots[j]
      BY <3>1 DEF Contents, j
    <3> QED BY <2>1, <3>2, <3>3, <3>4
  <2> QED BY <2>5, <2>6
<1> HIDE DEF new, old, at, after
<1>9. new = Append(old, x)
  <2>1. Append(old, x) \in Seq(Item) /\ Len(Append(old, x)) = count + 1
    BY <1>5
  <2> QED BY <1>7, <1>8, <2>1, SeqEqual
<1> QED BY <1>3, <1>4, <1>9 DEF new, old, at, after

LEMMA TakeFromHead ==
    ASSUME NEW size \in Nat \ {0}, NEW slots \in Slots(size),
           NEW first \in 0..size - 1, NEW count \in 0..size, NEW n \in 1..count
    PROVE  /\ (first + n) % size \in 0..size - 1
           /\ Contents(slots, (first + n) % size, count - n, size)
                = SubSeq(Contents(slots, first, count, size), n + 1, count)
<1> DEFINE at == (first + n) % size
           old == Contents(slots, first, count, size)
           new == Contents(slots, at, count - n, size)
<1>1. first + n \in 0..2 * size - 1
  BY SMT
<1>2. at = (IF first + n < size THEN first + n ELSE first + n - size)
  <2> DEFINE t == first + n
  <2>1. t \in 0..2 * size - 1
    BY <1>1
  <2> HIDE DEF t
  <2>2. t % size = (IF t < size THEN t ELSE t - size)
    BY <2>1, Turn
  <2> QED BY <2>2 DEF t
<1>3. at \in 0..size - 1
  BY <1>2, SMT
<1>4. old \in Seq(Item) /\ Len(old) = count
  BY ContentsType
<1>5. count - n \in 0..size
  BY SMT
<1>6. new \in Seq(Item) /\ Len(new) = count - n
  BY <1>3, <1>5, ContentsType
<1>7. ASSUME NEW i \in 1..count - n PROVE new[i] = SubSeq(old, n + 1, count)[i]
  <2> DEFINE j == (at + i - 1) % size
             k == (first + (n + i) - 1) % size
  <2>1. at + i - 1 \in 0..2 * size - 1 /\ first + (n + i) - 1 \in 0..2 * size - 1
        /\ n + i \in 1..count
    BY <1>3, SMT
  <2>2. j = (IF at + i - 1 < size THEN at + i - 1 ELSE at + i - 1 - size)
    <3> DEFINE t == at + i - 1
    <3>1. t \in 0..2 * size - 1
      BY <2>1
    <3> HIDE DEF t
    <3>2. t % size = (IF t < size THEN t ELSE t - size)
      BY <3>1, Turn
    <3> QED BY <3>2 DEF t
  <2>3. k = (IF first + (n + i) - 1 < size THEN first + (n + i) - 1 ELSE first + (n + i) - 1 - size)
    <3> DEFINE t == first + (n + i) - 1
    <3>1. t \in 0..2 * size - 1
      BY <2>1
    <3> HIDE DEF t
    <3>2. t % size = (IF t < size THEN t ELSE t - size)
      BY <3>1, Turn
    <3> QED BY <3>2 DEF t
  <2>4. new[i] = slots[j] /\ old[n + i] = slots[k]
    BY <2>1 DEF Contents
  <2> HIDE DEF j, k
  <2>5. j = k
    BY <1>2, <2>2, <2>3, SMT
  <2> HIDE DEF old, new, at
  <2>6. SubSeq(old, n + 1, count)[i] = old[n + i]
    <3>1. n + 1 \in Nat /\ count \in Nat /\ i \in 1..(count - (n + 1) + 1)
      BY SMT
    <3> QED BY <1>4, <3>1
  <2> QED BY <2>4, <2>5, <2>6
<1> HIDE DEF new, old, at
<1>8. SubSeq(old, n + 1, count) \in Seq(Item) /\ Len(SubSeq(old, n + 1, count)) = count - n
  <2>1. n + 1 \in 1..count + 1
    BY SMT
  <2>2. \A i \in n + 1..count : old[i] \in Item
    BY <1>4
  <2> QED BY <1>4, <2>1, <2>2
<1>9. new = SubSeq(old, n + 1, count)
  BY <1>6, <1>7, <1>8, SeqEqual
<1> QED BY <1>3, <1>9 DEF new, old, at

\* The position of the writer after one sample more, and of the reader after
\* some samples less.
LEMMA WriteAdvances ==
    ASSUME NEW size \in Nat \ {0}, NEW read \in 0..size - 1, NEW count \in 0..size - 1
    PROVE  /\ (((read + count) % size) + 1) % size = (read + (count + 1)) % size
           /\ (((read + count) % size) + 1) % size \in 0..size - 1
<1> DEFINE a == read + count
           b == (a % size) + 1
           c == read + (count + 1)
<1>1. a \in 0..2 * size - 1 /\ c \in 0..2 * size - 1 /\ c = a + 1
  BY SMT
<1> HIDE DEF a, c
<1>2. a % size = (IF a < size THEN a ELSE a - size)
  BY <1>1, Turn
<1>3. b \in 0..2 * size - 1
  BY <1>1, <1>2, SMT
<1>4. c % size = (IF c < size THEN c ELSE c - size)
  BY <1>1, Turn
<1>5. b = (IF a < size THEN a + 1 ELSE a - size + 1)
  BY <1>1, <1>2
<1> HIDE DEF b
<1>6. b % size = (IF b < size THEN b ELSE b - size)
  BY <1>3, Turn
<1>7. b % size = c % size /\ b % size \in 0..size - 1
  BY <1>1, <1>3, <1>4, <1>5, <1>6, SMT
<1> QED BY <1>7 DEF a, b, c

LEMMA ReadAdvances ==
    ASSUME NEW size \in Nat \ {0}, NEW read \in 0..size - 1, NEW count \in 0..size,
           NEW n \in 1..count
    PROVE  (((read + n) % size) + (count - n)) % size = (read + count) % size
<1> DEFINE a == read + n
           b == (a % size) + (count - n)
           c == read + count
<1>1. a \in 0..2 * size - 1 /\ c \in 0..2 * size - 1 /\ c = a + (count - n)
  BY SMT
<1> HIDE DEF a, c
<1>2. a % size = (IF a < size THEN a ELSE a - size)
  BY <1>1, Turn
<1>3. b \in 0..2 * size - 1
  BY <1>1, <1>2, SMT
<1>4. c % size = (IF c < size THEN c ELSE c - size)
  BY <1>1, Turn
<1>5. b = (IF a < size THEN a ELSE a - size) + (count - n)
  BY <1>2
<1> HIDE DEF b
<1>6. b % size = (IF b < size THEN b ELSE b - size)
  BY <1>3, Turn
<1>7. b % size = c % size
  BY <1>1, <1>3, <1>4, <1>5, <1>6, SMT
<1> QED BY <1>7 DEF a, b, c

\* A save keeps the contents.
LEMMA SaveKeepsContents ==
    ASSUME NEW size \in Nat \ {0}, NEW slots \in Slots(size),
           NEW first \in 0..size - 1, NEW count \in 0..size
    PROVE  LET f == [entries |-> Entries(slots, first, count, size), count |-> count] IN
           /\ f \in RingFile(size)
           /\ FileContents(f) = Contents(slots, first, count, size)
<1> DEFINE e == Entries(slots, first, count, size)
           f == [entries |-> e, count |-> count]
<1>1. ASSUME NEW i \in 0..size - 1 PROVE e[i] \in Item
  <2>1. CASE i < count
    <3> DEFINE t == first + i
    <3>1. t \in 0..2 * size - 1
      BY SMT
    <3>2. e[i] = slots[t % size]
      BY <2>1 DEF Entries
    <3> HIDE DEF t, e
    <3>3. t % size = (IF t < size THEN t ELSE t - size)
      BY <3>1, Turn
    <3>4. t % size \in 0..size - 1
      BY <3>1, <3>3, SMT
    <3> QED BY <3>2, <3>4 DEF Slots
  <2>2. CASE ~(i < count)
    BY <2>2, RingAssumption DEF Entries
  <2> QED BY <2>1, <2>2
<1>2. e \in Slots(size)
  BY <1>1 DEF Slots, Entries
<1>3. ASSUME NEW i \in 1..count
      PROVE  e[i - 1] = slots[(first + i - 1) % size]
  <2>1. i - 1 \in 0..size - 1 /\ i - 1 < count /\ first + (i - 1) = first + i - 1
    BY SMT
  <2>2. e[i - 1] = slots[(first + (i - 1)) % size]
    BY <2>1 DEF Entries
  <2> QED BY <2>1, <2>2
<1>4. FileContents(f) = [i \in 1..count |-> e[i - 1]]
  BY DEF FileContents
<1> HIDE DEF e
<1>5. FileContents(f) = [i \in 1..count |-> slots[(first + i - 1) % size]]
  BY <1>3, <1>4
<1> QED BY <1>2, <1>5 DEF Contents, RingFile, e

\* A ring that begins at slot 0 has what the file has.
LEMMA LoadKeepsContents ==
    ASSUME NEW size \in Nat \ {0}, NEW f \in RingFile(size)
    PROVE  Contents(f.entries, 0, f.count, size) = FileContents(f)
<1>1. f.count \in 0..size
  BY DEF RingFile
<1>2. ASSUME NEW i \in 1..f.count PROVE (0 + i - 1) % size = i - 1
  <2> DEFINE t == i - 1
  <2>1. t \in 0..2 * size - 1 /\ t < size /\ 0 + i - 1 = t
    BY <1>1, SMT
  <2> HIDE DEF t
  <2>2. t % size = t
    BY <2>1, Turn
  <2> QED BY <2>1, <2>2 DEF t
<1> QED BY <1>2 DEF Contents, FileContents

\* A load that fails leaves a ring of the same length.
LEMMA SpoiledType ==
    ASSUME NEW size \in Nat \ {0}, NEW slots \in Slots(size), NEW f \in RingFile(size), NEW n \in Nat
    PROVE  Overwritten(slots, f.entries, n) \in Slots(size)
BY DEF Slots, RingFile, Overwritten

-----------------------------------------------------------------------------
(* Each ring with its file.                                                   *)

EdgesInv ==
    /\ edges \in [slots : Slots(EdgeSlots), head : 0..EdgeSlots - 1, count : 0..EdgeSlots]
    /\ edgeFile \in RingFile(EdgeSlots)

\* The two positions of the sample ring agree with its count.
SamplesInv ==
    /\ samples \in [slots : Slots(SampleSlots), read : 0..SampleSlots - 1,
                    write : 0..SampleSlots - 1, count : 0..SampleSlots]
    /\ samples.write = (samples.read + samples.count) % SampleSlots
    /\ sampleFile \in RingFile(SampleSlots)

edgesVars   == <<Contents(edges.slots, edges.head, edges.count, EdgeSlots), FileContents(edgeFile)>>
samplesVars == <<Contents(samples.slots, samples.read, samples.count, SampleSlots),
                 FileContents(sampleFile)>>

LEMMA EdgesInit == RingInit => EdgesInv /\ Edges!Init
<1> SUFFICES ASSUME RingInit PROVE EdgesInv /\ Edges!Init
  OBVIOUS
<1>1. EdgesInv
  BY RingAssumption DEF RingInit, EdgesInv, NewEdges, NoEntries, RingFile, Slots
<1>2. Contents(edges.slots, edges.head, 0, EdgeSlots) = <<>> /\ FileContents(edgeFile) = <<>>
  BY DEF RingInit, NoEntries, Contents, FileContents
<1>3. edges.count = 0
  BY DEF RingInit, NewEdges
<1> QED BY <1>1, <1>2, <1>3 DEF Edges!Init

LEMMA SamplesInit == RingInit => SamplesInv /\ Samples!Init
<1> SUFFICES ASSUME RingInit PROVE SamplesInv /\ Samples!Init
  OBVIOUS
<1>1. (0 + 0) % SampleSlots = 0
  BY RingAssumption, Turn
<1>2. SamplesInv
  BY <1>1, RingAssumption DEF RingInit, SamplesInv, NewSamples, NoEntries, RingFile, Slots
<1>3. Contents(samples.slots, samples.read, 0, SampleSlots) = <<>> /\ FileContents(sampleFile) = <<>>
  BY DEF RingInit, NoEntries, Contents, FileContents
<1>4. samples.count = 0
  BY DEF RingInit, NewSamples
<1> QED BY <1>2, <1>3, <1>4 DEF Samples!Init

LEMMA EdgesStep == EdgesInv /\ [RingNext]_ringVars => EdgesInv' /\ [Edges!Next]_edgesVars
<1> SUFFICES ASSUME EdgesInv, [RingNext]_ringVars PROVE EdgesInv' /\ [Edges!Next]_edgesVars
  OBVIOUS
<1> DEFINE queue == Contents(edges.slots, edges.head, edges.count, EdgeSlots)
           stored == FileContents(edgeFile)
<1>0. /\ EdgeSlots \in Nat \ {0} /\ edges.slots \in Slots(EdgeSlots)
      /\ edges.head \in 0..EdgeSlots - 1 /\ edges.count \in 0..EdgeSlots
      /\ queue \in [1..edges.count -> Item] /\ Len(queue) = edges.count
  BY RingAssumption, ContentsType DEF EdgesInv
<1>1. ASSUME NEW x \in Item, PushEdge(x) PROVE EdgesInv' /\ [Edges!Next]_edgesVars
  <2>1. /\ edges.count < EdgeSlots /\ UNCHANGED edgeFile
        /\ edges' = [edges EXCEPT !.slots[(edges.head + edges.count) % EdgeSlots] = x, !.count = @ + 1]
    BY <1>1 DEF PushEdge
  <2> DEFINE at == (edges.head + edges.count) % EdgeSlots
             after == [edges.slots EXCEPT ![at] = x]
  <2>2. after \in Slots(EdgeSlots)
        /\ Contents(after, edges.head, edges.count + 1, EdgeSlots) = Append(queue, x)
    BY <1>0, <2>1, PutAtEnd
  <2>3. edges' = [slots |-> after, head |-> edges.head, count |-> edges.count + 1]
    BY <2>1 DEF EdgesInv
  <2>4. queue' = Append(queue, x) /\ stored' = stored
    BY <2>1, <2>2, <2>3
  <2>5. EdgesInv'
    <3>1. edges.count + 1 \in 0..EdgeSlots
      BY <1>0, <2>1, SMT
    <3> QED BY <1>0, <2>1, <2>2, <2>3, <3>1 DEF EdgesInv
  <2>6. Edges!Put
    BY <1>0, <2>1, <2>4 DEF Edges!Put
  <2> QED BY <2>5, <2>6 DEF Edges!Next
<1>2. ASSUME PopEdge PROVE EdgesInv' /\ [Edges!Next]_edgesVars
  <2>1. /\ edges.count > 0 /\ UNCHANGED edgeFile
        /\ edges' = [edges EXCEPT !.head = (@ + 1) % EdgeSlots, !.count = @ - 1]
    BY <1>2 DEF PopEdge
  <2>2. 1 \in 1..edges.count
    BY <1>0, <2>1
  <2>3. (edges.head + 1) % EdgeSlots \in 0..EdgeSlots - 1
        /\ Contents(edges.slots, (edges.head + 1) % EdgeSlots, edges.count - 1, EdgeSlots)
             = SubSeq(queue, 1 + 1, edges.count)
    BY <1>0, <2>2, TakeFromHead
  <2>4. edges' = [slots |-> edges.slots, head |-> (edges.head + 1) % EdgeSlots,
                  count |-> edges.count - 1]
    BY <2>1 DEF EdgesInv
  <2>5. queue' = SubSeq(queue, 1 + 1, Len(queue)) /\ stored' = stored
    BY <1>0, <2>1, <2>3, <2>4
  <2>6. EdgesInv'
    <3>1. edges.count - 1 \in 0..EdgeSlots
      BY <1>0, <2>1, SMT
    <3> QED BY <1>0, <2>1, <2>3, <2>4, <3>1 DEF EdgesInv
  <2>7. Edges!Take
    BY <1>0, <2>2, <2>5 DEF Edges!Take
  <2> QED BY <2>6, <2>7 DEF Edges!Next
<1>3. ASSUME ResetRings PROVE EdgesInv' /\ [Edges!Next]_edgesVars
  <2>1. /\ UNCHANGED edgeFile
        /\ edges' = [slots |-> edges.slots, head |-> 0, count |-> 0]
    BY <1>3 DEF ResetRings, EdgesInv
  <2>2. queue' = <<>> /\ stored' = stored
    BY <2>1 DEF Contents
  <2>3. EdgesInv'
    BY <1>0, <2>1 DEF EdgesInv
  <2> QED BY <2>2, <2>3 DEF Edges!Next, Edges!Clear
<1>4. ASSUME SaveRings PROVE EdgesInv' /\ [Edges!Next]_edgesVars
  <2>1. /\ UNCHANGED edges
        /\ edgeFile' = [entries |-> Entries(edges.slots, edges.head, edges.count, EdgeSlots),
                        count |-> edges.count]
    BY <1>4 DEF SaveRings
  <2>2. edgeFile' \in RingFile(EdgeSlots) /\ FileContents(edgeFile') = queue
    BY <1>0, <2>1, SaveKeepsContents
  <2>3. queue' = queue /\ stored' = queue
    BY <2>1, <2>2
  <2>4. EdgesInv'
    BY <2>1, <2>2 DEF EdgesInv
  <2> QED BY <2>3, <2>4 DEF Edges!Next, Edges!Save
<1>5. edgeFile \in RingFile(EdgeSlots) /\ edgeFile.entries \in Slots(EdgeSlots)
      /\ edgeFile.count \in 0..EdgeSlots
  BY DEF EdgesInv, RingFile
<1>6. ASSUME edges' = [slots |-> edgeFile.entries, head |-> 0, count |-> edgeFile.count],
             UNCHANGED edgeFile
      PROVE  EdgesInv' /\ [Edges!Next]_edgesVars
  <2>1. edges'.slots = edgeFile.entries /\ edges'.head = 0 /\ edges'.count = edgeFile.count
    BY <1>6
  <2>2. queue' = stored /\ stored' = stored
    BY <1>0, <1>5, <1>6, <2>1, LoadKeepsContents
  <2>3. EdgesInv'
    BY <1>0, <1>5, <1>6 DEF EdgesInv
  <2> QED BY <2>2, <2>3 DEF Edges!Next, Edges!Load
<1>7. ASSUME NEW n \in 0..EdgeSlots - 1, LoadFailsInEdges(n)
      PROVE  EdgesInv' /\ [Edges!Next]_edgesVars
  <2>1. /\ UNCHANGED edgeFile
        /\ edges' = [edges EXCEPT !.slots = Overwritten(@, edgeFile.entries, n)]
    BY <1>7 DEF LoadFailsInEdges
  <2>2. /\ edges'.slots = Overwritten(edges.slots, edgeFile.entries, n)
        /\ edges'.head = edges.head /\ edges'.count = edges.count
    BY <2>1 DEF EdgesInv
  <2>3. n \in Nat
    BY <1>0
  <2>4. edges'.slots \in Slots(EdgeSlots)
    BY <1>0, <1>5, <2>2, <2>3, SpoiledType
  <2>5. EdgesInv'
    BY <1>0, <2>1, <2>2, <2>4 DEF EdgesInv
  <2>6. queue' \in [1..Len(queue) -> Item] /\ stored' = stored
    BY <1>0, <2>1, <2>2, <2>4, ContentsType
  <2> QED BY <2>5, <2>6 DEF Edges!Next, Edges!Spoil
<1>8. ASSUME UNCHANGED <<edges, edgeFile>> PROVE EdgesInv' /\ [Edges!Next]_edgesVars
  BY <1>8 DEF EdgesInv, edgesVars
<1>9. ASSUME NEW x \in Item, PutSample(x) PROVE UNCHANGED <<edges, edgeFile>>
  BY <1>9 DEF PutSample
<1>10. ASSUME NEW n, ReadSamples(n) PROVE UNCHANGED <<edges, edgeFile>>
  BY <1>10 DEF ReadSamples
<1>11. ASSUME NEW n, LoadFailsInSamples(n) \/ LoadRings
       PROVE  /\ edges' = [slots |-> edgeFile.entries, head |-> 0, count |-> edgeFile.count]
              /\ UNCHANGED edgeFile
  BY <1>11 DEF LoadFailsInSamples, LoadRings
<1> QED
  BY <1>1, <1>2, <1>3, <1>4, <1>6, <1>7, <1>8, <1>9, <1>10, <1>11 DEF RingNext, ringVars

LEMMA SamplesStep == SamplesInv /\ [RingNext]_ringVars => SamplesInv' /\ [Samples!Next]_samplesVars
<1> SUFFICES ASSUME SamplesInv, [RingNext]_ringVars PROVE SamplesInv' /\ [Samples!Next]_samplesVars
  OBVIOUS
<1> DEFINE queue == Contents(samples.slots, samples.read, samples.count, SampleSlots)
           stored == FileContents(sampleFile)
<1>0. /\ SampleSlots \in Nat \ {0} /\ samples.slots \in Slots(SampleSlots)
      /\ samples.read \in 0..SampleSlots - 1 /\ samples.count \in 0..SampleSlots
      /\ samples.write = (samples.read + samples.count) % SampleSlots
      /\ queue \in [1..samples.count -> Item] /\ Len(queue) = samples.count
  BY RingAssumption, ContentsType DEF SamplesInv
<1>1. ASSUME NEW x \in Item, PutSample(x) PROVE SamplesInv' /\ [Samples!Next]_samplesVars
  <2> DEFINE at == (samples.read + samples.count) % SampleSlots
             after == [samples.slots EXCEPT ![at] = x]
             next == (at + 1) % SampleSlots
  <2>1. /\ samples.count < SampleSlots /\ UNCHANGED sampleFile
        /\ samples' = [slots |-> after, read |-> samples.read, write |-> next,
                       count |-> samples.count + 1]
    BY <1>0, <1>1 DEF PutSample, SamplesInv
  <2>2. /\ at \in 0..SampleSlots - 1 /\ after \in Slots(SampleSlots)
        /\ Contents(after, samples.read, samples.count + 1, SampleSlots) = Append(queue, x)
    BY <1>0, <2>1, PutAtEnd, ZenonT(60)
  <2>3. queue' = Append(queue, x) /\ stored' = stored
    BY <2>1, <2>2
  <2>4. next = (samples.read + (samples.count + 1)) % SampleSlots /\ next \in 0..SampleSlots - 1
    <3>1. samples.count \in 0..SampleSlots - 1
      BY <1>0, <2>1, SMT
    <3> QED BY <1>0, <3>1, WriteAdvances
  <2>5. SamplesInv'
    <3>1. samples.count + 1 \in 0..SampleSlots
      BY <1>0, <2>1, SMT
    <3> QED BY <1>0, <2>1, <2>2, <2>4, <3>1 DEF SamplesInv
  <2>6. Samples!Put
    BY <1>0, <2>1, <2>3 DEF Samples!Put
  <2> QED BY <2>5, <2>6 DEF Samples!Next
<1>2. ASSUME NEW n \in 1..SampleSlots, ReadSamples(n)
      PROVE  SamplesInv' /\ [Samples!Next]_samplesVars
  <2>1. /\ n \in 1..samples.count /\ UNCHANGED sampleFile
        /\ samples' = [slots |-> samples.slots, read |-> (samples.read + n) % SampleSlots,
                       write |-> samples.write, count |-> samples.count - n]
    <3>1. n <= samples.count /\ UNCHANGED sampleFile
          /\ samples' = [samples EXCEPT !.read = (@ + n) % SampleSlots, !.count = @ - n]
      BY <1>2 DEF ReadSamples
    <3>2. samples' = [slots |-> samples.slots, read |-> (samples.read + n) % SampleSlots,
                      write |-> samples.write, count |-> samples.count - n]
      BY <3>1 DEF SamplesInv
    <3>3. n \in 1..samples.count
      BY <1>0, <3>1, SMT
    <3> QED BY <3>1, <3>2, <3>3
  <2>2. (samples.read + n) % SampleSlots \in 0..SampleSlots - 1
        /\ Contents(samples.slots, (samples.read + n) % SampleSlots, samples.count - n, SampleSlots)
             = SubSeq(queue, n + 1, samples.count)
    BY <1>0, <2>1, TakeFromHead
  <2>3. queue' = SubSeq(queue, n + 1, Len(queue)) /\ stored' = stored
    BY <1>0, <2>1, <2>2
  <2>4. samples.write = (((samples.read + n) % SampleSlots) + (samples.count - n)) % SampleSlots
    BY <1>0, <2>1, ReadAdvances
  <2>5. SamplesInv'
    <3>1. samples.count - n \in 0..SampleSlots
      BY <1>0, <2>1, SMT
    <3>2. samples.write \in 0..SampleSlots - 1
      BY DEF SamplesInv
    <3> QED BY <1>0, <2>1, <2>2, <2>4, <3>1, <3>2 DEF SamplesInv
  <2>6. Samples!Take
    BY <1>0, <2>1, <2>3 DEF Samples!Take
  <2> QED BY <2>5, <2>6 DEF Samples!Next
<1>3. ASSUME ResetRings PROVE SamplesInv' /\ [Samples!Next]_samplesVars
  <2>1. /\ UNCHANGED sampleFile
        /\ samples' = [slots |-> samples.slots, read |-> 0, write |-> 0, count |-> 0]
    BY <1>3 DEF ResetRings, SamplesInv
  <2>2. queue' = <<>> /\ stored' = stored
    BY <2>1 DEF Contents
  <2>3. (0 + 0) % SampleSlots = 0
    BY <1>0, Turn
  <2>4. SamplesInv'
    BY <1>0, <2>1, <2>3 DEF SamplesInv
  <2> QED BY <2>2, <2>4 DEF Samples!Next, Samples!Clear
<1>4. ASSUME SaveRings PROVE SamplesInv' /\ [Samples!Next]_samplesVars
  <2>1. /\ UNCHANGED samples
        /\ sampleFile' = [entries |-> Entries(samples.slots, samples.read, samples.count, SampleSlots),
                          count |-> samples.count]
    BY <1>4 DEF SaveRings
  <2>2. sampleFile' \in RingFile(SampleSlots) /\ FileContents(sampleFile') = queue
    BY <1>0, <2>1, SaveKeepsContents
  <2>3. queue' = queue /\ stored' = queue
    BY <2>1, <2>2
  <2>4. SamplesInv'
    BY <2>1, <2>2 DEF SamplesInv
  <2> QED BY <2>3, <2>4 DEF Samples!Next, Samples!Save
<1>5. sampleFile \in RingFile(SampleSlots) /\ sampleFile.entries \in Slots(SampleSlots)
      /\ sampleFile.count \in 0..SampleSlots
  BY DEF SamplesInv, RingFile
<1>6. ASSUME LoadRings PROVE SamplesInv' /\ [Samples!Next]_samplesVars
  <2> DEFINE at == sampleFile.count % SampleSlots
  <2>1. /\ UNCHANGED sampleFile
        /\ samples' = [slots |-> sampleFile.entries, read |-> 0, write |-> at,
                       count |-> sampleFile.count]
    BY <1>6 DEF LoadRings
  <2>2. queue' = stored /\ stored' = stored
    BY <1>0, <1>5, <2>1, LoadKeepsContents
  <2>3. 0 + sampleFile.count = sampleFile.count /\ at \in 0..SampleSlots - 1
    <3> DEFINE t == sampleFile.count
    <3>1. t \in 0..2 * SampleSlots - 1
      BY <1>0, <1>5
    <3> HIDE DEF t
    <3>2. t % SampleSlots = (IF t < SampleSlots THEN t ELSE t - SampleSlots)
      BY <1>0, <3>1, Turn
    <3>3. 0 + t = t /\ t % SampleSlots \in 0..SampleSlots - 1
      BY <1>0, <3>1, <3>2
    <3> QED BY <3>3 DEF t
  <2>4. SamplesInv'
    BY <1>0, <1>5, <2>1, <2>3 DEF SamplesInv
  <2> QED BY <2>2, <2>4 DEF Samples!Next, Samples!Load
<1>7. ASSUME NEW n \in 0..SampleSlots - 1, LoadFailsInSamples(n)
      PROVE  SamplesInv' /\ [Samples!Next]_samplesVars
  <2> DEFINE after == Overwritten(samples.slots, sampleFile.entries, n)
  <2>1. /\ UNCHANGED sampleFile
        /\ samples' = [slots |-> after, read |-> samples.read, write |-> samples.write,
                       count |-> samples.count]
    BY <1>7 DEF LoadFailsInSamples, SamplesInv
  <2>2. after \in Slots(SampleSlots)
    BY <1>0, <1>5, SpoiledType
  <2>3. samples.write \in 0..SampleSlots - 1
    BY DEF SamplesInv
  <2>4. SamplesInv'
    BY <1>0, <2>1, <2>2, <2>3 DEF SamplesInv
  <2>5. queue' \in [1..Len(queue) -> Item] /\ stored' = stored
    BY <1>0, <2>1, <2>2, ContentsType
  <2> QED BY <2>4, <2>5 DEF Samples!Next, Samples!Spoil
<1>8. ASSUME UNCHANGED <<samples, sampleFile>> PROVE SamplesInv' /\ [Samples!Next]_samplesVars
  BY <1>8 DEF SamplesInv, samplesVars
<1>9. ASSUME NEW x \in Item, PushEdge(x) PROVE UNCHANGED <<samples, sampleFile>>
  BY <1>9 DEF PushEdge
<1>10. ASSUME NEW n, PopEdge \/ LoadFailsInEdges(n) PROVE UNCHANGED <<samples, sampleFile>>
  BY <1>10 DEF PopEdge, LoadFailsInEdges
<1> QED
  BY <1>1, <1>2, <1>3, <1>4, <1>6, <1>7, <1>8, <1>9, <1>10 DEF RingNext, ringVars

-----------------------------------------------------------------------------
\* The rings of a machine, with any history of saves, loads and failed loads,
\* are two bounded queues (queue_push and queue_pop of ir.c, dac_tick and
\* dac_read_samples, st_ir_queue and the sample ring of state.c).
THEOREM RingsAreFifos == RingSpec => RingsAreQueues
<1>1. RingSpec => Edges!Spec
  <2>1. RingInit => EdgesInv /\ Edges!Init
    BY EdgesInit
  <2>2. EdgesInv /\ [RingNext]_ringVars => EdgesInv' /\ [Edges!Next]_edgesVars
    BY EdgesStep
  <2> QED BY <2>1, <2>2, PTL DEF RingSpec, Edges!Spec, edgesVars
<1>2. RingSpec => Samples!Spec
  <2>1. RingInit => SamplesInv /\ Samples!Init
    BY SamplesInit
  <2>2. SamplesInv /\ [RingNext]_ringVars => SamplesInv' /\ [Samples!Next]_samplesVars
    BY SamplesStep
  <2> QED BY <2>1, <2>2, PTL DEF RingSpec, Samples!Spec, samplesVars
<1> QED BY <1>1, <1>2 DEF RingsAreQueues

-----------------------------------------------------------------------------
(* The override and the owner of the RAM.                                     *)

SoftwareType == [at : {"shell", "flash", "call"}, call : Nat, program : BOOLEAN]
TrackType    == [running : BOOLEAN, idle : Nat]

\* While an app has the RAM the core knows it: a call ends before the time that
\* the core has seen no instruction of the app gets to the grace period.
Known(s, t) ==
    /\ s \in SoftwareType /\ t \in TrackType
    /\ s.at # "shell" => t.running /\ t.idle + s.call <= LongestCall
    /\ s.at = "flash" => s.call = 0 /\ t.idle = 0

OwnerInv == Known(software, track) /\ (kept # NoState => Known(kept.software, kept.track))

LEMMA OwnerStart == OverrideInit => OwnerInv
<1> SUFFICES ASSUME OverrideInit PROVE OwnerInv
  OBVIOUS
<1>1. Known(software, track)
  BY DEF OverrideInit, InShell, NotRunning, Known, SoftwareType, TrackType
<1> QED BY <1>1 DEF OverrideInit, OwnerInv

LEMMA OwnerStep == OwnerInv /\ [OverrideNext]_overrideVars => OwnerInv'
<1> SUFFICES ASSUME OwnerInv, [OverrideNext]_overrideVars PROVE OwnerInv'
  OBVIOUS
<1>1. /\ software \in SoftwareType /\ track \in TrackType
      /\ software.at # "shell" => track.running /\ track.idle + software.call <= LongestCall
      /\ software.at = "flash" => software.call = 0 /\ track.idle = 0
  BY DEF OwnerInv, Known
<1>2. /\ software.call \in Nat /\ track.idle \in Nat
      /\ LongestCall \in Nat /\ Grace \in Nat /\ LongestCall < Grace
  BY <1>1, OverrideAssumption DEF SoftwareType, TrackType
<1>3. ASSUME UNCHANGED kept, Known(software', track') PROVE OwnerInv'
  BY <1>3 DEF OwnerInv
<1>4. CASE UNCHANGED <<software, track, kept>>
  BY <1>4 DEF OwnerInv
<1>5. ASSUME NEW d \in 0..1, Execute(d) PROVE OwnerInv'
  <2>1. UNCHANGED kept /\ (software.at = "call" => software.call >= d)
    BY <1>5 DEF Execute
  <2>2. CASE software.at = "flash"
    <3>1. software' = software /\ track' = [running |-> TRUE, idle |-> 0]
      BY <1>5, <2>2 DEF Execute, Tracked
    <3>2. Known(software', track')
      BY <1>1, <1>2, <2>2, <3>1 DEF Known, TrackType
    <3> QED BY <1>3, <2>1, <3>2
  <2>3. CASE software.at = "shell"
    <3>1. software' = software /\ track' = Tracked(FALSE, d)
      BY <1>5, <2>3 DEF Execute
    <3>2. track' \in TrackType
      BY <1>1, <1>2, <3>1 DEF Tracked, NotRunning, TrackType
    <3>3. Known(software', track')
      BY <1>1, <2>3, <3>1, <3>2 DEF Known
    <3> QED BY <1>3, <2>1, <3>3
  <2>4. CASE software.at = "call"
    <3>1. track.running /\ ~(track.idle + d >= Grace) /\ software.call - d \in Nat
      BY <1>1, <1>2, <2>1, <2>4
    <3>2. /\ software' = [software EXCEPT !.call = @ - d]
          /\ track' = [track EXCEPT !.idle = @ + d]
      BY <1>5, <2>4, <3>1 DEF Execute, Tracked
    <3>3. /\ software' \in SoftwareType /\ software'.at = "call"
          /\ software'.call = software.call - d
      BY <1>1, <2>4, <3>1, <3>2 DEF SoftwareType
    <3>4. track' \in TrackType /\ track'.running /\ track'.idle = track.idle + d
      BY <1>1, <1>2, <3>1, <3>2 DEF TrackType
    <3>5. track'.idle + software'.call <= LongestCall
      BY <1>1, <1>2, <2>4, <3>3, <3>4
    <3> QED BY <1>3, <2>1, <3>3, <3>4, <3>5 DEF Known
  <2> QED BY <1>1, <2>2, <2>3, <2>4 DEF SoftwareType
<1>6. CASE EnterFlash
  <2>1. /\ software' = [software EXCEPT !.at = "flash", !.call = 0]
        /\ track' = [running |-> TRUE, idle |-> 0] /\ UNCHANGED kept
    BY <1>6 DEF EnterFlash, Tracked
  <2>2. software' \in SoftwareType /\ software'.call = 0
    BY <1>1, <2>1 DEF SoftwareType
  <2>3. Known(software', track')
    BY <1>2, <2>1, <2>2 DEF Known, TrackType
  <2> QED BY <1>3, <2>1, <2>3
<1>7. CASE CallBios
  <2>1. /\ software.at = "flash" /\ software' = [software EXCEPT !.at = "call", !.call = LongestCall]
        /\ UNCHANGED <<track, kept>>
    BY <1>7 DEF CallBios
  <2>2. software' \in SoftwareType /\ software'.at = "call" /\ software'.call = LongestCall
    BY <1>1, <1>2, <2>1 DEF SoftwareType
  <2>3. Known(software', track')
    BY <1>1, <1>2, <2>1, <2>2 DEF Known
  <2> QED BY <1>3, <2>1, <2>3
<1>8. CASE ExitApp
  <2>1. /\ software' = [software EXCEPT !.at = "shell", !.call = 0] /\ UNCHANGED <<track, kept>>
    BY <1>8 DEF ExitApp
  <2>2. software' \in SoftwareType /\ software'.at = "shell"
    BY <1>1, <2>1 DEF SoftwareType
  <2> QED BY <1>1, <1>3, <2>1, <2>2 DEF Known
<1>9. ASSUME NEW on \in BOOLEAN, ProgramClock(on) PROVE OwnerInv'
  <2>1. software' = [software EXCEPT !.program = on] /\ UNCHANGED <<track, kept>>
    BY <1>9 DEF ProgramClock
  <2>2. software' \in SoftwareType /\ software'.at = software.at /\ software'.call = software.call
    BY <1>1, <2>1 DEF SoftwareType
  <2>3. Known(software', track')
    BY <1>1, <2>1, <2>2 DEF Known
  <2> QED BY <1>3, <2>1, <2>3
<1>10. CASE OverrideReset
  <2>1. software' = InShell /\ track' = NotRunning /\ UNCHANGED kept
    BY <1>10 DEF OverrideReset
  <2>2. Known(software', track')
    BY <2>1 DEF InShell, NotRunning, Known, SoftwareType, TrackType
  <2> QED BY <1>3, <2>1, <2>2
<1>11. CASE KeepState
  <2>1. kept'.software = software /\ kept'.track = track /\ UNCHANGED <<software, track>>
    BY <1>11 DEF KeepState
  <2> QED BY <2>1 DEF OwnerInv
<1>12. CASE RestoreState
  BY <1>12 DEF RestoreState, OwnerInv
<1>13. CASE FrameBegins \/ StopClock \/ PassStopped \/ Wake \/ UNCHANGED overrideVars
  BY <1>4, <1>13 DEF FrameBegins, StopClock, PassStopped, Wake, overrideVars
<1> QED BY <1>5, <1>6, <1>7, <1>8, <1>9, <1>10, <1>11, <1>12, <1>13 DEF OverrideNext

\* The override of the frontend writes only while the shell owns the RAM, for each
\* length of a frame, of the grace period and of a call that is shorter than it
\* (psemu_track_app_execution of psemu.c, write_datetime_override of main.c).
THEOREM OverrideNeverInApp == OverrideSpec => NeverInApp
<1>1. OverrideInit => OwnerInv
  BY OwnerStart
<1>2. OwnerInv /\ [OverrideNext]_overrideVars => OwnerInv'
  BY OwnerStep
<1>3. OwnerInv => [FrameBegins /\ set' => software.at = "shell"]_overrideVars
  BY DEF OwnerInv, Known, FrameBegins
<1> QED BY <1>1, <1>2, <1>3, PTL DEF OverrideSpec, NeverInApp

-----------------------------------------------------------------------------
(* The clock.                                                                 *)

Digits == [0..7 -> 0..9]

LEMMA PutType ==
    ASSUME NEW w \in Digits, NEW k \in {0, 2, 4, 6}, NEW n \in 0..99
    PROVE  /\ Put(w, k, n) \in Digits
           /\ Two(Put(w, k, n), k) = n
           /\ Put(w, k, n)[k] = n % 10
           /\ \A i \in 0..7 \ {k, k + 1} : Put(w, k, n)[i] = w[i]
<1>1. n % 10 \in 0..9 /\ n \div 10 \in 0..9 /\ 10 * (n \div 10) + (n % 10) = n
  BY SMTT(30)
<1> DEFINE p == Put(w, k, n)
<1>2. p \in Digits /\ p[k] = n % 10 /\ p[k + 1] = n \div 10
      /\ \A i \in 0..7 \ {k, k + 1} : p[i] = w[i]
  BY <1>1 DEF Put, Digits
<1> QED BY <1>1, <1>2 DEF Two

LEMMA TwoType ==
    ASSUME NEW w \in Digits, NEW k \in {0, 2, 4}
    PROVE  Two(w, k) \in 0..99 /\ w[k] \in 0..9 /\ w[k + 1] \in 0..9
BY DEF Two, Digits

With(w, k, u, t) == [w EXCEPT ![k] = u, ![k + 1] = t]

\* Two digits are those of a number.
LEMMA PutTwo ==
    ASSUME NEW w \in Digits, NEW k \in {0, 2, 4}, NEW u \in 0..9, NEW t \in 0..9,
           NEW n \in Nat, n = 10 * t + u
    PROVE  With(w, k, u, t) = Put(w, k, n)
<1>1. n % 10 = u /\ n \div 10 = t
  BY SMTT(30)
<1> QED BY <1>1 DEF Put, With

LEMMA PutZero ==
    ASSUME NEW w \in Digits, NEW k \in {0, 2, 4}
    PROVE  With(w, k, 0, 0) = Put(w, k, 0)
<1>1. 0 \in 0..9 /\ 0 \in Nat /\ 0 = 10 * 0 + 0
  OBVIOUS
<1> QED BY <1>1, PutTwo

LEMMA AddOne ==
    ASSUME NEW w \in Word, NEW k \in 0..7, w[k] < 15
    PROVE  AddAt(w, k) = [w EXCEPT ![k] = w[k] + 1]
<1>1. w[k] \in 0..15 /\ (w[k] + 1) % 16 = w[k] + 1
  BY SMTT(30) DEF Word
<1>2. ASSUME NEW i \in 0..7 PROVE AddAt(w, k)[i] = [w EXCEPT ![k] = w[k] + 1][i]
  <2>1. CASE i = k
    <3>1. \A j \in k..(i - 1) : w[j] = 15
      BY <2>1
    <3> QED BY <1>1, <2>1, <3>1 DEF AddAt, Word
  <2>2. CASE i < k
    BY <2>2 DEF AddAt, Word
  <2>3. CASE i > k
    <3>1. k \in k..(i - 1) /\ w[k] # 15
      BY <1>1, <2>3
    <3> QED BY <2>3, <3>1 DEF AddAt, Word
  <2> QED BY <2>1, <2>2, <2>3
<1> QED BY <1>2 DEF AddAt, Word

\* Units that carry: the digit is cleared and the next one is one more.
LEMMA Carry ==
    ASSUME NEW w \in Digits, NEW k \in {0, 2, 4}
    PROVE  LET units == AddAt(w, k) IN
           /\ units = [w EXCEPT ![k] = w[k] + 1]
           /\ AddAt(Clear(units, {k}), k + 1) = With(w, k, 0, w[k + 1] + 1)
<1> DEFINE units == AddAt(w, k)
           cleared == Clear(units, {k})
<1>1. w \in Word /\ w[k] \in 0..9 /\ w[k + 1] \in 0..9
  BY DEF Digits, Word
<1>2. units = [w EXCEPT ![k] = w[k] + 1]
  BY <1>1, AddOne
<1> HIDE DEF units
<1>3. cleared = [w EXCEPT ![k] = 0]
  BY <1>1, <1>2 DEF Clear, Digits
<1> HIDE DEF cleared
<1>4. cleared \in Word /\ cleared[k + 1] = w[k + 1] /\ k + 1 \in 0..7
  BY <1>1, <1>3 DEF Word
<1>5. AddAt(cleared, k + 1) = [cleared EXCEPT ![k + 1] = cleared[k + 1] + 1]
  BY <1>1, <1>4, AddOne
<1>6. [cleared EXCEPT ![k + 1] = cleared[k + 1] + 1] = [w EXCEPT ![k] = 0, ![k + 1] = w[k + 1] + 1]
  BY <1>1, <1>3, <1>4
<1> QED BY <1>2, <1>5, <1>6 DEF units, cleared, With

\* Two digits of a word are apart from the others.
LEMMA PutApart ==
    ASSUME NEW w \in Digits, NEW k \in {0, 2, 4, 6}, NEW n \in 0..99
    PROVE  /\ \A j \in {0, 2, 4} \ {k} : Two(Put(w, k, n), j) = Two(w, j)
           /\ k # 6 => Put(w, k, n)[6] = w[6]
<1>1. \A i \in 0..7 \ {k, k + 1} : Put(w, k, n)[i] = w[i]
  BY PutType
<1>2. ASSUME NEW j \in {0, 2, 4} \ {k}
      PROVE  j \in 0..7 \ {k, k + 1} /\ j + 1 \in 0..7 \ {k, k + 1}
  OBVIOUS
<1>3. k # 6 => 6 \in 0..7 \ {k, k + 1}
  OBVIOUS
<1> QED BY <1>1, <1>2, <1>3 DEF Two

\* One more, in two digits that do not come to their limit.
LEMMA OneMore ==
    ASSUME NEW w \in Digits, NEW k \in {0, 2, 4}, Two(w, k) < 99
    PROVE  LET units == AddAt(w, k)
               tens  == AddAt(Clear(units, {k}), k + 1)
               next  == Put(w, k, Two(w, k) + 1)
           IN /\ units[k] = w[k] + 1 /\ units[k + 1] = w[k + 1]
              /\ w[k] < 9 => units = next
              /\ w[k] = 9 => tens = next /\ tens[k] = 0 /\ tens[k + 1] = w[k + 1] + 1
<1> DEFINE units == AddAt(w, k)
           tens  == AddAt(Clear(units, {k}), k + 1)
           next  == Put(w, k, Two(w, k) + 1)
<1>1. w[k] \in 0..9 /\ w[k + 1] \in 0..9 /\ Two(w, k) = 10 * w[k + 1] + w[k]
  BY TwoType DEF Two
<1>2. /\ units = [w EXCEPT ![k] = w[k] + 1]
      /\ tens = With(w, k, 0, w[k + 1] + 1)
  BY Carry
<1>3. k \in 0..7 /\ k + 1 \in 0..7 /\ k # k + 1 /\ DOMAIN w = 0..7 /\ k + 1 # k
  BY DEF Digits
<1>4. units[k] = w[k] + 1 /\ units[k + 1] = w[k + 1]
  BY <1>2, <1>3
<1>5. ASSUME w[k] < 9 PROVE units = next
  <2>1. w[k] + 1 \in 0..9 /\ Two(w, k) + 1 \in Nat /\ Two(w, k) + 1 = 10 * w[k + 1] + (w[k] + 1)
    BY <1>1, <1>5
  <2>2. With(w, k, w[k] + 1, w[k + 1]) = next
    BY <1>1, <2>1, PutTwo, Zenon
  <2>3. With(w, k, w[k] + 1, w[k + 1]) = [w EXCEPT ![k] = w[k] + 1]
    BY <1>3 DEF Digits, With
  <2> QED BY <1>2, <2>2, <2>3, Zenon
<1>6. ASSUME w[k] = 9 PROVE tens = next /\ tens[k] = 0 /\ tens[k + 1] = w[k + 1] + 1
  <2>1. /\ w[k + 1] + 1 \in 0..9 /\ 0 \in 0..9
        /\ Two(w, k) + 1 \in Nat /\ Two(w, k) + 1 = 10 * (w[k + 1] + 1) + 0
    BY <1>1, <1>6
  <2>2. With(w, k, 0, w[k + 1] + 1) = next
    BY <2>1, PutTwo, Zenon
  <2> QED BY <1>2, <1>3, <2>2 DEF With
<1> QED BY <1>4, <1>5, <1>6

\* What a field holds after its limit is 0.
Turned(n, limit) == IF n + 1 = limit THEN 0 ELSE n + 1

LEMMA SexagesimalTurns ==
    ASSUME NEW w \in Digits, NEW k \in {0, 2}, Two(w, k) < 60
    PROVE  Sexagesimal(w, k) = Put(w, k, Turned(Two(w, k), 60))
<1> DEFINE units == AddAt(w, k)
           tens  == AddAt(Clear(units, {k}), k + 1)
           next  == Put(w, k, Two(w, k) + 1)
<1>1. w[k] \in 0..9 /\ w[k + 1] \in 0..9 /\ Two(w, k) = 10 * w[k + 1] + w[k]
  BY TwoType DEF Two
<1>2. /\ units[k] = w[k] + 1
      /\ w[k] < 9 => units = next
      /\ w[k] = 9 => tens = next /\ tens[k] = 0 /\ tens[k + 1] = w[k + 1] + 1
  <2>1. Two(w, k) < 99 /\ k \in {0, 2, 4}
    BY <1>1
  <2> QED BY <2>1, OneMore, Zenon
<1>3. tens = With(w, k, 0, w[k + 1] + 1)
  BY Carry
<1> HIDE DEF units, tens
<1>4. CASE w[k] < 9
  BY <1>1, <1>2, <1>4 DEF Sexagesimal, Turned, units, tens
<1>5. CASE w[k] = 9 /\ w[k + 1] # 5
  <2>1. Sexagesimal(w, k) = tens
    BY <1>1, <1>2, <1>5 DEF Sexagesimal, units, tens
  <2> QED BY <1>1, <1>2, <1>5, <2>1 DEF Turned
<1>6. CASE w[k] = 9 /\ w[k + 1] = 5
  <2>1. Sexagesimal(w, k) = Clear(tens, {k, k + 1})
    BY <1>1, <1>2, <1>6 DEF Sexagesimal, units, tens
  <2>2. Clear(tens, {k, k + 1}) = With(w, k, 0, 0)
    BY <1>3 DEF Clear, Digits, With
  <2>3. With(w, k, 0, 0) = Put(w, k, 0)
    BY PutZero
  <2>4. Turned(Two(w, k), 60) = 0
    BY <1>1, <1>6 DEF Turned
  <2> QED BY <2>1, <2>2, <2>3, <2>4
<1> QED BY <1>1, <1>4, <1>5, <1>6

LEMMA DecimalTurns ==
    ASSUME NEW w \in Digits, NEW k \in {0, 2, 4}, NEW t \in 0..9, NEW u \in 1..9,
           Two(w, k) < 10 * t + u
    PROVE  Decimal(w, k, <<t, u>>) = Put(w, k, Turned(Two(w, k), 10 * t + u))
<1> DEFINE units == AddAt(w, k)
           tens  == AddAt(Clear(units, {k}), k + 1)
           next  == Put(w, k, Two(w, k) + 1)
<1>1. w[k] \in 0..9 /\ w[k + 1] \in 0..9 /\ Two(w, k) = 10 * w[k + 1] + w[k]
  BY TwoType DEF Two
<1>2. /\ units[k] = w[k] + 1 /\ units[k + 1] = w[k + 1]
      /\ w[k] < 9 => units = next
      /\ w[k] = 9 => tens = next
  <2>1. Two(w, k) < 99
    BY <1>1
  <2> QED BY <2>1, OneMore, Zenon
<1>3. units = [w EXCEPT ![k] = w[k] + 1]
  BY Carry
<1> HIDE DEF units, tens, next
<1>4. <<units[k + 1], units[k]>> = <<t, u>> <=> Two(w, k) + 1 = 10 * t + u
  <2>1. units[k + 1] \in Nat /\ units[k] \in 1..10 /\ t \in Nat
    BY <1>1, <1>2
  <2>2. units[k + 1] = t /\ units[k] = u <=> 10 * units[k + 1] + units[k] = 10 * t + u
    BY <2>1, SMTT(30)
  <2> QED BY <1>1, <1>2, <2>2
<1>5. CASE Two(w, k) + 1 = 10 * t + u
  <2>1. Decimal(w, k, <<t, u>>) = Clear(units, {k, k + 1})
    BY <1>4, <1>5 DEF Decimal, units
  <2>2. Clear(units, {k, k + 1}) = With(w, k, 0, 0)
    BY <1>3 DEF Clear, Digits, With
  <2>3. With(w, k, 0, 0) = Put(w, k, 0)
    BY PutZero
  <2>4. Turned(Two(w, k), 10 * t + u) = 0
    BY <1>5 DEF Turned
  <2> QED BY <2>1, <2>2, <2>3, <2>4
<1>6. CASE Two(w, k) + 1 # 10 * t + u
  <2>1. Decimal(w, k, <<t, u>>) = next
    <3>1. CASE w[k] = 9
      BY <1>1, <1>2, <1>4, <1>6, <3>1 DEF Decimal, units, tens
    <3>2. CASE w[k] < 9
      BY <1>1, <1>2, <1>4, <1>6, <3>2 DEF Decimal, units, tens
    <3> QED BY <1>1, <3>1, <3>2
  <2> QED BY <1>6, <2>1 DEF Turned, next
<1> QED BY <1>5, <1>6

\* An adjustment does not increment December.
LEMMA MonthTurns ==
    ASSUME NEW w \in Digits, Two(w, 2) < 12
    PROVE  Month(w) = Put(w, 2, Two(w, 2) + 1)
<1> DEFINE units == AddAt(w, 2)
           tens  == AddAt(Clear(units, {2}), 3)
           next  == Put(w, 2, Two(w, 2) + 1)
<1>1. w[2] \in 0..9 /\ w[3] \in 0..9 /\ Two(w, 2) = 10 * w[3] + w[2]
  BY TwoType DEF Two
<1>2. /\ units[2] = w[2] + 1 /\ units[3] = w[3]
      /\ w[2] < 9 => units = next
      /\ w[2] = 9 => tens = next
  <2>1. Two(w, 2) < 99 /\ 2 \in {0, 2, 4} /\ 2 + 1 = 3
    BY <1>1
  <2> QED BY <2>1, OneMore
<1> HIDE DEF units, tens, next
<1>3. <<units[3], units[2]>> # <<1, 3>>
  BY <1>1, <1>2
<1>4. CASE w[2] = 9
  BY <1>1, <1>2, <1>3, <1>4 DEF Month, units, tens, next
<1>5. CASE w[2] < 9
  BY <1>1, <1>2, <1>3, <1>5 DEF Month, units, tens, next
<1> QED BY <1>1, <1>4, <1>5

LEMMA YearTurns ==
    ASSUME NEW w \in Digits
    PROVE  Year(w) = Put(w, 4, Turned(Two(w, 4), 100))
<1> DEFINE units == AddAt(w, 4)
           tens  == AddAt(Clear(units, {4}), 5)
           next  == Put(w, 4, Two(w, 4) + 1)
<1>1. w[4] \in 0..9 /\ w[5] \in 0..9 /\ Two(w, 4) = 10 * w[5] + w[4]
  BY TwoType DEF Two
<1>2. /\ units = [w EXCEPT ![4] = w[4] + 1]
      /\ tens = With(w, 4, 0, w[5] + 1)
  <2>1. 4 \in {0, 2, 4} /\ 4 + 1 = 5
    OBVIOUS
  <2> QED BY <2>1, Carry
<1>3. units[4] = w[4] + 1 /\ tens[5] = w[5] + 1
  <2> HIDE DEF units, tens
  <2> QED BY <1>2 DEF Digits, With
<1> HIDE DEF units, tens, next
<1>4. CASE w[4] = 9 /\ w[5] = 9
  <2>1. Year(w) = Clear(tens, {4, 5})
    BY <1>3, <1>4 DEF Year, units, tens
  <2>2. Clear(tens, {4, 5}) = With(w, 4, 0, 0)
    <3>1. tens = [w EXCEPT ![4] = 0, ![5] = w[5] + 1]
      BY <1>2 DEF With
    <3>2. With(w, 4, 0, 0) = [w EXCEPT ![4] = 0, ![5] = 0]
      BY DEF With
    <3> QED BY <3>1, <3>2 DEF Clear, Digits
  <2>3. With(w, 4, 0, 0) = Put(w, 4, 0)
    BY PutZero
  <2>4. Turned(Two(w, 4), 100) = 0
    BY <1>1, <1>4 DEF Turned
  <2> QED BY <2>1, <2>2, <2>3, <2>4
<1>5. CASE w[4] # 9 \/ w[5] # 9
  <2>1. Two(w, 4) < 99
    BY <1>1, <1>5
  <2>2. (w[4] < 9 => units = next) /\ (w[4] = 9 => tens = next)
    BY <2>1, OneMore DEF units, tens, next
  <2>3. Year(w) = next
    <3>1. CASE w[4] = 9
      BY <1>1, <1>3, <1>5, <2>2, <3>1 DEF Year, units, tens
    <3>2. CASE w[4] < 9
      BY <1>1, <1>3, <2>2, <3>2 DEF Year, units, tens
    <3> QED BY <1>1, <3>1, <3>2
  <2> QED BY <2>1, <2>3, TwoType DEF Turned, next
<1> QED BY <1>4, <1>5

LEMMA WeekdayTurns ==
    ASSUME NEW w \in Digits, w[6] \in 1..7
    PROVE  Weekday(w) = [w EXCEPT ![6] = (w[6] % 7) + 1]
<1> DEFINE day == AddAt(w, 6)
<1>1. w \in Word /\ w[6] % 7 = IF w[6] = 7 THEN 0 ELSE w[6]
  BY SMTT(30) DEF Digits, Word
<1>2. day = [w EXCEPT ![6] = w[6] + 1]
  BY <1>1, AddOne
<1>3. Weekday(w) = IF day[6] = 8 THEN [day EXCEPT ![6] = 1] ELSE day
  BY DEF Weekday
<1> HIDE DEF day
<1>4. day[6] = w[6] + 1
  BY <1>1, <1>2 DEF Word
<1>5. CASE w[6] = 7
  <2>1. Weekday(w) = [[w EXCEPT ![6] = w[6] + 1] EXCEPT ![6] = 1]
    BY <1>2, <1>3, <1>4, <1>5
  <2> QED BY <1>1, <1>5, <2>1 DEF Digits
<1>6. CASE w[6] # 7
  <2>1. Weekday(w) = day
    BY <1>3, <1>4, <1>6
  <2> QED BY <1>1, <1>2, <1>6, <2>1
<1> QED BY <1>5, <1>6

\* The parts of a word of the time and of a word of the date.
TimeIs(w, s, m, h, d) == w \in Digits /\ Two(w, 0) = s /\ Two(w, 2) = m /\ Two(w, 4) = h /\ w[6] = d
DateIs(w, d, m, y)    == w \in Digits /\ Two(w, 0) = d /\ Two(w, 2) = m /\ Two(w, 4) = y

LEMMA PutTime ==
    ASSUME NEW w, NEW s, NEW m, NEW h, NEW d, TimeIs(w, s, m, h, d), NEW n \in 0..99
    PROVE  /\ TimeIs(Put(w, 0, n), n, m, h, d)
           /\ TimeIs(Put(w, 2, n), s, n, h, d)
           /\ TimeIs(Put(w, 4, n), s, m, n, d)
<1>1. w \in Digits
  BY DEF TimeIs
<1>2. ASSUME NEW k \in {0, 2, 4}
      PROVE  /\ Put(w, k, n) \in Digits /\ Two(Put(w, k, n), k) = n
             /\ \A j \in {0, 2, 4} \ {k} : Two(Put(w, k, n), j) = Two(w, j)
             /\ Put(w, k, n)[6] = w[6]
  <2>1. k \in {0, 2, 4, 6} /\ k # 6
    OBVIOUS
  <2>2. Put(w, k, n) \in Digits /\ Two(Put(w, k, n), k) = n
    BY <1>1, <2>1, PutType
  <2>3. /\ \A j \in {0, 2, 4} \ {k} : Two(Put(w, k, n), j) = Two(w, j)
        /\ k # 6 => Put(w, k, n)[6] = w[6]
    BY <1>1, <2>1, PutApart
  <2> QED BY <2>1, <2>2, <2>3
<1> QED BY <1>2 DEF TimeIs

LEMMA PutDate ==
    ASSUME NEW w, NEW d, NEW m, NEW y, DateIs(w, d, m, y), NEW n \in 0..99
    PROVE  /\ DateIs(Put(w, 0, n), n, m, y)
           /\ DateIs(Put(w, 2, n), d, n, y)
           /\ DateIs(Put(w, 4, n), d, m, n)
<1>1. w \in Digits
  BY DEF DateIs
<1>2. ASSUME NEW k \in {0, 2, 4}
      PROVE  /\ Put(w, k, n) \in Digits /\ Two(Put(w, k, n), k) = n
             /\ \A j \in {0, 2, 4} \ {k} : Two(Put(w, k, n), j) = Two(w, j)
  <2>1. k \in {0, 2, 4, 6} /\ k # 6
    OBVIOUS
  <2>2. Put(w, k, n) \in Digits /\ Two(Put(w, k, n), k) = n
    BY <1>1, <2>1, PutType
  <2>3. /\ \A j \in {0, 2, 4} \ {k} : Two(Put(w, k, n), j) = Two(w, j)
        /\ k # 6 => Put(w, k, n)[6] = w[6]
    BY <1>1, <2>1, PutApart
  <2> QED BY <2>1, <2>2, <2>3
<1> QED BY <1>2 DEF DateIs

-----------------------------------------------------------------------------
(* The calendar.                                                              *)

Leap(y) == IF y % 4 = 0 THEN 1 ELSE 0
YearStart(y) == 365 * y + (y + 3) \div 4
MonthStart(m, y) == Before[m] + (IF m > 2 /\ y % 4 = 0 THEN 1 ELSE 0)
DayOf(d, m, y) == YearStart(y) + MonthStart(m, y) + d - 1

IsDate(d, m, y) == y \in 0..99 /\ m \in 1..12 /\ d \in 1..MonthLength(m, y)

LEMMA YearLength ==
    ASSUME NEW y \in 0..99
    PROVE  /\ YearStart(y + 1) = YearStart(y) + 365 + Leap(y)
           /\ YearStart(y) \in Nat /\ YearStart(y + 1) <= Century
           /\ y = 99 => YearStart(y + 1) = Century
BY SMTT(60) DEF YearStart, Leap, Century

LEMMA MonthsOfYear ==
    ASSUME NEW y \in 0..99, NEW m \in 1..12
    PROVE  /\ MonthLength(m, y) = DaysInMonth(m, y)
           /\ MonthLength(m, y) \in 28..31 /\ MonthStart(m, y) \in Nat
           /\ m < 12 => MonthStart(m + 1, y) = MonthStart(m, y) + MonthLength(m, y)
           /\ m = 12 => MonthStart(m, y) + MonthLength(m, y) = 365 + Leap(y)
           /\ m < 12 => MonthStart(m, y) + MonthLength(m, y) <= 365 + Leap(y) - 28
<1> DEFINE leap == y % 4 = 0
<1>1. m \in {1, 2, 3, 4, 5, 6, 7, 8, 9, 10, 11, 12} /\ leap \in BOOLEAN
  OBVIOUS
<1> HIDE DEF leap
<1>2. MonthLength(m, y) = Before[m + 1] - Before[m] + (IF m = 2 /\ leap THEN 1 ELSE 0)
  BY DEF MonthLength, leap
<1>3. \A n \in 1..12 : MonthStart(n, y) = Before[n] + (IF n > 2 /\ leap THEN 1 ELSE 0)
  BY DEF MonthStart, leap
<1>4. DaysInMonth(m, y) = IF m = 2 /\ leap THEN 29 ELSE Lengths[m]
  BY DEF DaysInMonth, leap
<1>5. Leap(y) = IF leap THEN 1 ELSE 0
  BY DEF Leap, leap
<1>6. /\ Before[1] = 0 /\ Before[2] = 31 /\ Before[3] = 59 /\ Before[4] = 90
      /\ Before[5] = 120 /\ Before[6] = 151 /\ Before[7] = 181 /\ Before[8] = 212
      /\ Before[9] = 243 /\ Before[10] = 273 /\ Before[11] = 304 /\ Before[12] = 334
      /\ Before[13] = 365
  BY DEF Before
<1>7. /\ Lengths[1] = 31 /\ Lengths[2] = 28 /\ Lengths[3] = 31 /\ Lengths[4] = 30
      /\ Lengths[5] = 31 /\ Lengths[6] = 30 /\ Lengths[7] = 31 /\ Lengths[8] = 31
      /\ Lengths[9] = 30 /\ Lengths[10] = 31 /\ Lengths[11] = 30 /\ Lengths[12] = 31
  BY DEF Lengths
<1>8. MonthLength(m, y) = DaysInMonth(m, y) /\ MonthLength(m, y) \in 28..31
  BY <1>1, <1>2, <1>4, <1>6, <1>7
<1>9. MonthStart(m, y) \in Nat
  BY <1>1, <1>3, <1>6
<1>10. m < 12 => MonthStart(m + 1, y) = MonthStart(m, y) + MonthLength(m, y)
  BY <1>1, <1>2, <1>3, <1>6
<1>11. m = 12 => MonthStart(m, y) + MonthLength(m, y) = 365 + Leap(y)
  BY <1>1, <1>2, <1>3, <1>5, <1>6
<1>12. m < 12 => MonthStart(m, y) + MonthLength(m, y) <= 365 + Leap(y) - 28
  BY <1>1, <1>2, <1>3, <1>5, <1>6
<1> QED BY <1>8, <1>9, <1>10, <1>11, <1>12

\* The next day is the day with the next number (rtc_advance_date).
LEMMA DateAdvances ==
    ASSUME NEW w, NEW d, NEW m, NEW y, DateIs(w, d, m, y), IsDate(d, m, y)
    PROVE  \E e, n, z : /\ DateIs(AdvanceDate(w), e, n, z) /\ IsDate(e, n, z)
                        /\ DayOf(e, n, z) = (DayOf(d, m, y) + 1) % Century
<1>1. /\ y \in 0..99 /\ m \in 1..12 /\ d \in 1..MonthLength(m, y)
      /\ MonthLength(m, y) \in 28..31 /\ MonthStart(m, y) \in Nat /\ YearStart(y) \in Nat
      /\ DaysInMonth(m, y) = MonthLength(m, y) /\ Leap(y) \in 0..1
  <2>1. y \in 0..99 /\ m \in 1..12 /\ d \in 1..MonthLength(m, y)
    BY DEF IsDate
  <2>2. /\ MonthLength(m, y) = DaysInMonth(m, y) /\ MonthLength(m, y) \in 28..31
        /\ MonthStart(m, y) \in Nat
    BY <2>1, MonthsOfYear, Zenon
  <2>3. YearStart(y) \in Nat
    BY <2>1, YearLength, Zenon
  <2>4. Leap(y) \in 0..1
    BY DEF Leap
  <2> QED BY <2>1, <2>2, <2>3, <2>4
<1> DEFINE put(a, b, c) == Put(Put(Put(w, 0, a), 2, b), 4, c)
<1>2. ASSUME NEW a \in 0..99, NEW b \in 0..99, NEW c \in 0..99
      PROVE  DateIs(put(a, b, c), a, b, c)
  <2>1. DateIs(Put(w, 0, a), a, m, y)
    BY PutDate
  <2>2. DateIs(Put(Put(w, 0, a), 2, b), a, b, y)
    BY <2>1, PutDate
  <2> QED BY <2>2, PutDate
<1>3. /\ Two(w, 0) = d /\ Two(w, 2) = m /\ Two(w, 4) = y
  BY DEF DateIs
<1>4. AdvanceDate(w) = CASE d + 1 <= DaysInMonth(m, y) -> put(d + 1, m, y)
                         [] d + 1 > DaysInMonth(m, y) /\ m < 12 -> put(1, m + 1, y)
                         [] OTHER -> put(1, 1, (y + 1) % 100)
  BY <1>3 DEF AdvanceDate
<1> HIDE DEF put
<1>5. ASSUME NEW n \in Nat, n < Century PROVE n % Century = n
  BY <1>5, SMTT(30) DEF Century
<1>6. CASE d + 1 <= MonthLength(m, y)
  <2>1. AdvanceDate(w) = put(d + 1, m, y)
    BY <1>1, <1>4, <1>6
  <2>2. DateIs(AdvanceDate(w), d + 1, m, y)
    <3>1. d + 1 \in 0..99 /\ m \in 0..99 /\ y \in 0..99
      BY <1>1, <1>6
    <3> QED BY <1>2, <2>1, <3>1, Zenon
  <2>3. IsDate(d + 1, m, y)
    BY <1>1, <1>6 DEF IsDate
  <2>4. DayOf(d + 1, m, y) = DayOf(d, m, y) + 1 /\ DayOf(d, m, y) + 1 \in Nat
    BY <1>1 DEF DayOf
  <2>5. DayOf(d, m, y) + 1 < Century
    <3>1. MonthStart(m, y) + MonthLength(m, y) <= 365 + Leap(y)
      BY <1>1, MonthsOfYear
    <3>2. YearStart(y) + 365 + Leap(y) <= Century /\ Century \in Nat
      BY <1>1, YearLength DEF Century
    <3> QED BY <1>1, <1>6, <3>1, <3>2 DEF DayOf
  <2> QED BY <1>5, <2>2, <2>3, <2>4, <2>5
<1>7. CASE d + 1 > MonthLength(m, y) /\ m < 12
  <2>1. AdvanceDate(w) = put(1, m + 1, y)
    BY <1>1, <1>4, <1>7
  <2>2. DateIs(AdvanceDate(w), 1, m + 1, y)
    <3>1. 1 \in 0..99 /\ m + 1 \in 0..99 /\ y \in 0..99
      BY <1>1, <1>7
    <3> QED BY <1>2, <2>1, <3>1, Zenon
  <2>3. m + 1 \in 1..12 /\ MonthLength(m + 1, y) \in 28..31
    <3>1. m + 1 \in 1..12
      BY <1>1, <1>7
    <3> QED BY <1>1, <3>1, MonthsOfYear, Zenon
  <2>4. IsDate(1, m + 1, y)
    BY <1>1, <2>3 DEF IsDate
  <2>5. MonthStart(m + 1, y) = MonthStart(m, y) + MonthLength(m, y)
    BY <1>1, <1>7, MonthsOfYear
  <2>6. DayOf(1, m + 1, y) = DayOf(d, m, y) + 1 /\ DayOf(d, m, y) + 1 \in Nat
    BY <1>1, <1>7, <2>5 DEF DayOf
  <2>7. DayOf(d, m, y) + 1 < Century
    <3>1. MonthStart(m, y) + MonthLength(m, y) <= 365 + Leap(y) - 28
      BY <1>1, <1>7, MonthsOfYear
    <3>2. YearStart(y) + 365 + Leap(y) <= Century /\ Century \in Nat
      BY <1>1, YearLength DEF Century
    <3> QED BY <1>1, <1>7, <3>1, <3>2 DEF DayOf
  <2> QED BY <1>5, <2>2, <2>4, <2>6, <2>7
<1>8. CASE d + 1 > MonthLength(m, y) /\ m = 12
  <2>1. AdvanceDate(w) = put(1, 1, (y + 1) % 100)
    BY <1>1, <1>4, <1>8
  <2>2. (y + 1) % 100 = (IF y = 99 THEN 0 ELSE y + 1) /\ (y + 1) % 100 \in 0..99
    BY <1>1, SMTT(30)
  <2>3. DateIs(AdvanceDate(w), 1, 1, (y + 1) % 100)
    <3>1. 1 \in 0..99
      OBVIOUS
    <3> QED BY <1>2, <2>1, <2>2, <3>1, Zenon
  <2>4. MonthLength(1, (y + 1) % 100) \in 28..31
    <3>1. 1 \in 1..12
      OBVIOUS
    <3> QED BY <2>2, <3>1, MonthsOfYear, Zenon
  <2>5. IsDate(1, 1, (y + 1) % 100)
    BY <2>2, <2>4 DEF IsDate
  <2>6. MonthStart(m, y) + MonthLength(m, y) = 365 + Leap(y)
    BY <1>1, <1>8, MonthsOfYear
  <2>7. MonthStart(1, (y + 1) % 100) = 0
    BY DEF MonthStart, Before
  <2>8. YearStart(y + 1) = YearStart(y) + 365 + Leap(y) /\ Century \in Nat \ {0}
    BY <1>1, YearLength DEF Century
  <2>9. DayOf(d, m, y) + 1 = YearStart(y + 1)
    BY <1>1, <1>8, <2>6, <2>8 DEF DayOf
  <2>10. CASE y = 99
    <3>1. YearStart(y + 1) = Century /\ YearStart(0) = 0
      BY <1>1, <2>10, YearLength, SMTT(30) DEF YearStart
    <3>2. Century % Century = 0
      BY SMTT(30) DEF Century
    <3>3. DayOf(1, 1, (y + 1) % 100) = 0
      BY <2>2, <2>7, <2>10, <3>1 DEF DayOf
    <3> QED BY <2>3, <2>5, <2>9, <3>1, <3>2, <3>3
  <2>11. CASE y # 99
    <3>1. (y + 1) % 100 = y + 1 /\ y + 1 \in 0..99
      BY <1>1, <2>2, <2>11
    <3>2. YearStart(y + 1) \in Nat /\ YearStart(y + 1) < Century
      <4>1. /\ YearStart(y + 1) \in Nat /\ YearStart(y + 1 + 1) <= Century
            /\ YearStart(y + 1 + 1) = YearStart(y + 1) + 365 + Leap(y + 1)
        BY <3>1, YearLength
      <4>2. Leap(y + 1) \in 0..1
        BY DEF Leap
      <4> QED BY <2>8, <4>1, <4>2
    <3>3. DayOf(1, 1, (y + 1) % 100) = YearStart(y + 1)
      BY <2>7, <3>1, <3>2 DEF DayOf
    <3> QED BY <1>5, <2>3, <2>5, <2>9, <3>2, <3>3
  <2> QED BY <2>10, <2>11
<1> QED BY <1>1, <1>6, <1>7, <1>8

-----------------------------------------------------------------------------
(* The fields of the clock.                                                   *)

RtcType == [program : BOOLEAN, select : Fields, control : 0..1, line : BOOLEAN,
            time : Digits, date : Digits]

\* The day is 0 or beyond its month between two increments.
InRange(r) ==
    /\ Field(r, 0) \in 0..59 /\ Field(r, 1) \in 0..59 /\ Field(r, 2) \in 0..23
    /\ Field(r, 3) \in 1..7 /\ Field(r, 4) \in 0..31 /\ Field(r, 5) \in 1..12
    /\ Field(r, 6) \in 0..99

OnCalendar(r) == IsDate(Field(r, 4), Field(r, 5), Field(r, 6))

\* What only the registers hold.
SameControl(r, s) == /\ s.program = r.program /\ s.select = r.select
                     /\ s.control = r.control /\ s.line = r.line

LEMMA FieldIs ==
    ASSUME NEW r
    PROVE  /\ Field(r, 0) = Two(r.time, 0) /\ Field(r, 1) = Two(r.time, 2)
           /\ Field(r, 2) = Two(r.time, 4) /\ Field(r, 3) = r.time[6]
           /\ Field(r, 4) = Two(r.date, 0) /\ Field(r, 5) = Two(r.date, 2)
           /\ Field(r, 6) = Two(r.date, 4)
<1>1. /\ DigitOf[0] = 0 /\ DigitOf[1] = 2 /\ DigitOf[2] = 4
      /\ DigitOf[4] = 0 /\ DigitOf[5] = 2 /\ DigitOf[6] = 4
  BY DEF DigitOf, Fields, InTime
<1> QED BY <1>1 DEF Field, InTime

LEMMA FieldsAre ==
    Fields = {0, 1, 2, 3, 4, 5, 6}
BY DEF Fields

\* The fields are those of the words.
LEMMA SameWords ==
    ASSUME NEW r, NEW s, s.time = r.time, s.date = r.date
    PROVE  /\ \A f \in Fields : Field(s, f) = Field(r, f)
           /\ InRange(s) = InRange(r) /\ OnCalendar(s) = OnCalendar(r)
BY FieldIs, FieldsAre DEF InRange, OnCalendar

LEMMA TimeChanges ==
    ASSUME NEW r \in RtcType, NEW w, NEW a, NEW b, NEW c, NEW d, TimeIs(w, a, b, c, d)
    PROVE  LET s == [r EXCEPT !.time = w] IN
           /\ s \in RtcType /\ SameControl(r, s) /\ s.date = r.date
           /\ Field(s, 0) = a /\ Field(s, 1) = b /\ Field(s, 2) = c /\ Field(s, 3) = d
           /\ \A f \in {4, 5, 6} : Field(s, f) = Field(r, f)
<1> DEFINE s == [r EXCEPT !.time = w]
<1>1. s.time = w /\ s.date = r.date /\ SameControl(r, s)
  BY DEF RtcType, SameControl
<1>2. s \in RtcType
  BY DEF RtcType, TimeIs
<1> HIDE DEF s
<1>3. /\ Field(s, 0) = a /\ Field(s, 1) = b /\ Field(s, 2) = c /\ Field(s, 3) = d
  BY <1>1, FieldIs DEF TimeIs
<1>4. Field(s, 4) = Field(r, 4) /\ Field(s, 5) = Field(r, 5) /\ Field(s, 6) = Field(r, 6)
  BY <1>1, FieldIs
<1> QED BY <1>1, <1>2, <1>3, <1>4 DEF s

LEMMA DateChanges ==
    ASSUME NEW r \in RtcType, NEW w, NEW a, NEW b, NEW c, DateIs(w, a, b, c)
    PROVE  LET s == [r EXCEPT !.date = w] IN
           /\ s \in RtcType /\ SameControl(r, s) /\ s.time = r.time
           /\ Field(s, 4) = a /\ Field(s, 5) = b /\ Field(s, 6) = c
           /\ \A f \in {0, 1, 2, 3} : Field(s, f) = Field(r, f)
<1> DEFINE s == [r EXCEPT !.date = w]
<1>1. s.date = w /\ s.time = r.time /\ SameControl(r, s)
  BY DEF RtcType, SameControl
<1>2. s \in RtcType
  BY DEF RtcType, DateIs
<1> HIDE DEF s
<1>3. Field(s, 4) = a /\ Field(s, 5) = b /\ Field(s, 6) = c
  BY <1>1, FieldIs DEF DateIs
<1>4. /\ Field(s, 0) = Field(r, 0) /\ Field(s, 1) = Field(r, 1)
      /\ Field(s, 2) = Field(r, 2) /\ Field(s, 3) = Field(r, 3)
  BY <1>1, FieldIs
<1> QED BY <1>1, <1>2, <1>3, <1>4 DEF s

LEMMA WordsAre ==
    ASSUME NEW r \in RtcType
    PROVE  /\ TimeIs(r.time, Field(r, 0), Field(r, 1), Field(r, 2), Field(r, 3))
           /\ DateIs(r.date, Field(r, 4), Field(r, 5), Field(r, 6))
BY FieldIs DEF RtcType, TimeIs, DateIs

LEMMA TurnedType ==
    ASSUME NEW limit \in 1..100, NEW n \in 0..limit - 1
    PROVE  Turned(n, limit) \in 0..limit - 1 /\ Turned(n, limit) \in 0..99
BY DEF Turned

LEMMA WeekdayTime ==
    ASSUME NEW w, NEW s, NEW m, NEW h, NEW d \in 1..7, TimeIs(w, s, m, h, d)
    PROVE  TimeIs(Weekday(w), s, m, h, (d % 7) + 1) /\ (d % 7) + 1 \in 1..7
<1>1. (d % 7) + 1 \in 1..7
  BY SMTT(30)
<1> DEFINE n == (d % 7) + 1
<1>2. w \in Digits /\ w[6] = d
  BY DEF TimeIs
<1>3. Weekday(w) = [w EXCEPT ![6] = n]
  BY <1>2, WeekdayTurns
<1> HIDE DEF n
<1>4. n \in 1..7
  BY <1>1 DEF n
<1>5. Weekday(w) \in Digits /\ Weekday(w)[6] = n
      /\ \A i \in {0, 1, 2, 3, 4, 5} : Weekday(w)[i] = w[i]
  BY <1>2, <1>3, <1>4 DEF Digits
<1>6. \A k \in {0, 2, 4} : Two(Weekday(w), k) = Two(w, k)
  BY <1>5 DEF Two
<1>7. TimeIs(Weekday(w), s, m, h, n)
  BY <1>5, <1>6 DEF TimeIs
<1> QED BY <1>4, <1>7 DEF n

\* An increment changes its field alone (rtc_increment_field), but in December.
LEMMA IncrementIs ==
    ASSUME NEW r \in RtcType, InRange(r), NEW f \in Fields, f = 5 => Field(r, 5) < 12
    PROVE  LET s == Increment(r, f) IN
           /\ s \in RtcType /\ SameControl(r, s) /\ InRange(s)
           /\ \A g \in Fields \ {f} : Field(s, g) = Field(r, g)
           /\ f = 5 => Field(s, 5) = Field(r, 5) + 1
<1> DEFINE s == Increment(r, f)
<1>1. /\ TimeIs(r.time, Field(r, 0), Field(r, 1), Field(r, 2), Field(r, 3))
      /\ DateIs(r.date, Field(r, 4), Field(r, 5), Field(r, 6))
      /\ r.time \in Digits /\ r.date \in Digits
  BY WordsAre DEF RtcType
<1>2. /\ Two(r.time, 0) = Field(r, 0) /\ Two(r.time, 2) = Field(r, 1) /\ Two(r.time, 4) = Field(r, 2)
      /\ r.time[6] = Field(r, 3)
      /\ Two(r.date, 0) = Field(r, 4) /\ Two(r.date, 2) = Field(r, 5) /\ Two(r.date, 4) = Field(r, 6)
  BY FieldIs
<1>3. /\ Field(r, 0) \in 0..59 /\ Field(r, 1) \in 0..59 /\ Field(r, 2) \in 0..23
      /\ Field(r, 3) \in 1..7 /\ Field(r, 4) \in 0..31 /\ Field(r, 5) \in 1..12
      /\ Field(r, 6) \in 0..99
  BY DEF InRange
<1>4. CASE f = 0
  <2>1. s = [r EXCEPT !.time = Sexagesimal(r.time, 0)]
    BY <1>4 DEF Increment, DigitOf, Fields, InTime
  <2>2. Turned(Field(r, 0), 60) \in 0..59 /\ Turned(Field(r, 0), 60) \in 0..99
    BY <1>3 DEF Turned
  <2>3. Sexagesimal(r.time, 0) = Put(r.time, 0, Turned(Field(r, 0), 60))
    <3>1. Two(r.time, 0) < 60 /\ 0 \in {0, 2}
      BY <1>2, <1>3
    <3> QED BY <1>1, <1>2, <3>1, SexagesimalTurns
  <2>4. TimeIs(Sexagesimal(r.time, 0), Turned(Field(r, 0), 60), Field(r, 1), Field(r, 2), Field(r, 3))
    BY <1>1, <2>2, <2>3, PutTime, Zenon
  <2> HIDE DEF s
  <2>5. /\ s \in RtcType /\ SameControl(r, s) /\ Field(s, 0) = Turned(Field(r, 0), 60)
        /\ Field(s, 1) = Field(r, 1) /\ Field(s, 2) = Field(r, 2) /\ Field(s, 3) = Field(r, 3)
        /\ Field(s, 4) = Field(r, 4) /\ Field(s, 5) = Field(r, 5) /\ Field(s, 6) = Field(r, 6)
    BY <2>1, <2>4, TimeChanges
  <2> QED BY <1>3, <1>4, <2>2, <2>5, FieldsAre DEF InRange, s
<1>5. CASE f = 1
  <2>1. s = [r EXCEPT !.time = Sexagesimal(r.time, 2)]
    BY <1>5 DEF Increment, DigitOf, Fields, InTime
  <2>2. Turned(Field(r, 1), 60) \in 0..59 /\ Turned(Field(r, 1), 60) \in 0..99
    BY <1>3 DEF Turned
  <2>3. Sexagesimal(r.time, 2) = Put(r.time, 2, Turned(Field(r, 1), 60))
    <3>1. Two(r.time, 2) < 60 /\ 2 \in {0, 2}
      BY <1>2, <1>3
    <3> QED BY <1>1, <1>2, <3>1, SexagesimalTurns
  <2>4. TimeIs(Sexagesimal(r.time, 2), Field(r, 0), Turned(Field(r, 1), 60), Field(r, 2), Field(r, 3))
    BY <1>1, <2>2, <2>3, PutTime, Zenon
  <2> HIDE DEF s
  <2>5. /\ s \in RtcType /\ SameControl(r, s) /\ Field(s, 1) = Turned(Field(r, 1), 60)
        /\ Field(s, 0) = Field(r, 0) /\ Field(s, 2) = Field(r, 2) /\ Field(s, 3) = Field(r, 3)
        /\ Field(s, 4) = Field(r, 4) /\ Field(s, 5) = Field(r, 5) /\ Field(s, 6) = Field(r, 6)
    BY <2>1, <2>4, TimeChanges
  <2> QED BY <1>3, <1>5, <2>2, <2>5, FieldsAre DEF InRange, s
<1>6. CASE f = 2
  <2>1. s = [r EXCEPT !.time = Decimal(r.time, 4, <<2, 4>>)]
    BY <1>6 DEF Increment
  <2>2. Turned(Field(r, 2), 24) \in 0..23 /\ Turned(Field(r, 2), 24) \in 0..99
    BY <1>3 DEF Turned
  <2>3. Decimal(r.time, 4, <<2, 4>>) = Put(r.time, 4, Turned(Field(r, 2), 24))
    <3>1. Two(r.time, 4) < 10 * 2 + 4 /\ 4 \in {0, 2, 4} /\ 2 \in 0..9 /\ 4 \in 1..9 /\ 10 * 2 + 4 = 24
      BY <1>2, <1>3
    <3>2. Decimal(r.time, 4, <<2, 4>>) = Put(r.time, 4, Turned(Two(r.time, 4), 10 * 2 + 4))
      BY <1>1, <3>1, DecimalTurns, Zenon
    <3> QED BY <1>2, <3>1, <3>2
  <2>4. TimeIs(Decimal(r.time, 4, <<2, 4>>), Field(r, 0), Field(r, 1), Turned(Field(r, 2), 24), Field(r, 3))
    BY <1>1, <2>2, <2>3, PutTime, Zenon
  <2> HIDE DEF s
  <2>5. /\ s \in RtcType /\ SameControl(r, s) /\ Field(s, 2) = Turned(Field(r, 2), 24)
        /\ Field(s, 0) = Field(r, 0) /\ Field(s, 1) = Field(r, 1) /\ Field(s, 3) = Field(r, 3)
        /\ Field(s, 4) = Field(r, 4) /\ Field(s, 5) = Field(r, 5) /\ Field(s, 6) = Field(r, 6)
    BY <2>1, <2>4, TimeChanges
  <2> QED BY <1>3, <1>6, <2>2, <2>5, FieldsAre DEF InRange, s
<1>7. CASE f = 3
  <2>1. s = [r EXCEPT !.time = Weekday(r.time)]
    BY <1>7 DEF Increment
  <2>2. /\ TimeIs(Weekday(r.time), Field(r, 0), Field(r, 1), Field(r, 2), (Field(r, 3) % 7) + 1)
        /\ (Field(r, 3) % 7) + 1 \in 1..7
    BY <1>1, <1>3, WeekdayTime, Zenon
  <2> HIDE DEF s
  <2>3. /\ s \in RtcType /\ SameControl(r, s) /\ Field(s, 3) = (Field(r, 3) % 7) + 1
        /\ Field(s, 0) = Field(r, 0) /\ Field(s, 1) = Field(r, 1) /\ Field(s, 2) = Field(r, 2)
        /\ Field(s, 4) = Field(r, 4) /\ Field(s, 5) = Field(r, 5) /\ Field(s, 6) = Field(r, 6)
    BY <2>1, <2>2, TimeChanges
  <2> QED BY <1>3, <1>7, <2>2, <2>3, FieldsAre DEF InRange, s
<1>8. CASE f = 4
  <2>1. s = [r EXCEPT !.date = Decimal(r.date, 0, <<3, 2>>)]
    BY <1>8 DEF Increment
  <2>2. Turned(Field(r, 4), 32) \in 0..31 /\ Turned(Field(r, 4), 32) \in 0..99
    BY <1>3 DEF Turned
  <2>3. Decimal(r.date, 0, <<3, 2>>) = Put(r.date, 0, Turned(Field(r, 4), 32))
    <3>1. Two(r.date, 0) < 10 * 3 + 2 /\ 0 \in {0, 2, 4} /\ 3 \in 0..9 /\ 2 \in 1..9 /\ 10 * 3 + 2 = 32
      BY <1>2, <1>3
    <3>2. Decimal(r.date, 0, <<3, 2>>) = Put(r.date, 0, Turned(Two(r.date, 0), 10 * 3 + 2))
      BY <1>1, <3>1, DecimalTurns, Zenon
    <3> QED BY <1>2, <3>1, <3>2
  <2>4. DateIs(Decimal(r.date, 0, <<3, 2>>), Turned(Field(r, 4), 32), Field(r, 5), Field(r, 6))
    BY <1>1, <2>2, <2>3, PutDate, Zenon
  <2> HIDE DEF s
  <2>5. /\ s \in RtcType /\ SameControl(r, s) /\ Field(s, 4) = Turned(Field(r, 4), 32)
        /\ Field(s, 0) = Field(r, 0) /\ Field(s, 1) = Field(r, 1) /\ Field(s, 2) = Field(r, 2)
        /\ Field(s, 3) = Field(r, 3) /\ Field(s, 5) = Field(r, 5) /\ Field(s, 6) = Field(r, 6)
    BY <2>1, <2>4, DateChanges
  <2> QED BY <1>3, <1>8, <2>2, <2>5, FieldsAre DEF InRange, s
<1>9. CASE f = 5
  <2>1. s = [r EXCEPT !.date = Month(r.date)]
    BY <1>9 DEF Increment
  <2>2. Field(r, 5) + 1 \in 1..12 /\ Field(r, 5) + 1 \in 0..99
    BY <1>3, <1>9
  <2>3. Month(r.date) = Put(r.date, 2, Field(r, 5) + 1)
    BY <1>1, <1>2, <1>9, MonthTurns
  <2>4. DateIs(Month(r.date), Field(r, 4), Field(r, 5) + 1, Field(r, 6))
    BY <1>1, <2>2, <2>3, PutDate, Zenon
  <2> HIDE DEF s
  <2>5. /\ s \in RtcType /\ SameControl(r, s) /\ Field(s, 5) = Field(r, 5) + 1
        /\ Field(s, 0) = Field(r, 0) /\ Field(s, 1) = Field(r, 1) /\ Field(s, 2) = Field(r, 2)
        /\ Field(s, 3) = Field(r, 3) /\ Field(s, 4) = Field(r, 4) /\ Field(s, 6) = Field(r, 6)
    BY <2>1, <2>4, DateChanges
  <2> QED BY <1>3, <1>9, <2>2, <2>5, FieldsAre DEF InRange, s
<1>10. CASE f = 6
  <2>1. s = [r EXCEPT !.date = Year(r.date)]
    BY <1>10 DEF Increment
  <2>2. Turned(Field(r, 6), 100) \in 0..99
    BY <1>3 DEF Turned
  <2>3. Year(r.date) = Put(r.date, 4, Turned(Field(r, 6), 100))
    BY <1>1, <1>2, YearTurns
  <2>4. DateIs(Year(r.date), Field(r, 4), Field(r, 5), Turned(Field(r, 6), 100))
    BY <1>1, <2>2, <2>3, PutDate, Zenon
  <2> HIDE DEF s
  <2>5. /\ s \in RtcType /\ SameControl(r, s) /\ Field(s, 6) = Turned(Field(r, 6), 100)
        /\ Field(s, 0) = Field(r, 0) /\ Field(s, 1) = Field(r, 1) /\ Field(s, 2) = Field(r, 2)
        /\ Field(s, 3) = Field(r, 3) /\ Field(s, 4) = Field(r, 4) /\ Field(s, 5) = Field(r, 5)
    BY <2>1, <2>4, DateChanges
  <2> QED BY <1>3, <1>10, <2>2, <2>5, FieldsAre DEF InRange, s
<1> QED BY <1>4, <1>5, <1>6, <1>7, <1>8, <1>9, <1>10, FieldsAre

LEMMA WrappedIs ==
    ASSUME NEW w \in Digits, NEW k \in {0, 2, 4}
    PROVE  Wrapped(w, k) <=> Two(w, k) = 0
<1>1. w[k] \in 0..9 /\ w[k + 1] \in 0..9
  BY TwoType
<1> QED BY <1>1 DEF Wrapped, Two

LEMMA DayNumberIs ==
    ASSUME NEW r, InRange(r)
    PROVE  DayNumber(r) = DayOf(Field(r, 4), Field(r, 5), Field(r, 6))
<1> DEFINE d == Field(r, 4)
           m == Field(r, 5)
           y == Field(r, 6)
<1>1. d \in Nat /\ m \in 1..12 /\ y \in 0..99
  BY DEF InRange
<1>2. DayNumber(r) = 365 * y + (y + 3) \div 4 + Before[m]
                     + (IF m > 2 /\ y % 4 = 0 THEN 1 ELSE 0) + d - 1
  BY DEF DayNumber
<1> HIDE DEF d, m, y
<1>3. Before[m] \in Nat /\ (y + 3) \div 4 \in Nat
  <2>1. m \in {1, 2, 3, 4, 5, 6, 7, 8, 9, 10, 11, 12}
    BY <1>1
  <2> QED BY <1>1, <2>1, SMTT(30) DEF Before
<1> DEFINE leap == IF m > 2 /\ y % 4 = 0 THEN 1 ELSE 0
<1>4. leap \in Nat
  OBVIOUS
<1>5. DayOf(d, m, y) = ((365 * y + (y + 3) \div 4) + (Before[m] + leap)) + d - 1
  BY DEF DayOf, YearStart, MonthStart
<1> HIDE DEF leap
<1> DEFINE q == (y + 3) \div 4
           b == Before[m]
<1>6. q \in Nat /\ b \in Nat
  BY <1>3
<1>7. DayNumber(r) = 365 * y + q + b + leap + d - 1
  BY <1>2 DEF leap
<1>8. DayOf(d, m, y) = ((365 * y + q) + (b + leap)) + d - 1
  BY <1>5
<1> HIDE DEF q, b
<1>9. DayNumber(r) = DayOf(d, m, y)
  BY <1>1, <1>4, <1>6, <1>7, <1>8
<1> QED BY <1>9 DEF d, m, y

\* A second on the clock is the next one of the calendar (rtc_advance_second).
LEMMA SecondAdvances ==
    ASSUME NEW c \in RtcType, InRange(c), OnCalendar(c)
    PROVE  LET s == AdvanceSecond(c) IN
           /\ s \in RtcType /\ SameControl(c, s) /\ InRange(s) /\ OnCalendar(s)
           /\ Follows(c, s)
<1> DEFINE s == AdvanceSecond(c)
           S == Field(c, 0)
           M == Field(c, 1)
           H == Field(c, 2)
           D == Field(c, 3)
           seconds == Sexagesimal(c.time, 0)
           minutes == Sexagesimal(seconds, 2)
           hours   == Decimal(minutes, 4, <<2, 4>>)
<1>1. /\ S \in 0..59 /\ M \in 0..59 /\ H \in 0..23 /\ D \in 1..7
      /\ Field(c, 4) \in 0..31 /\ Field(c, 5) \in 1..12 /\ Field(c, 6) \in 0..99
  BY DEF InRange
<1>2. TimeIs(c.time, S, M, H, D) /\ DateIs(c.date, Field(c, 4), Field(c, 5), Field(c, 6))
  BY WordsAre
<1>3. s = CASE ~Wrapped(seconds, 0) -> [c EXCEPT !.time = seconds]
            [] Wrapped(seconds, 0) /\ ~Wrapped(minutes, 2) -> [c EXCEPT !.time = minutes]
            [] Wrapped(seconds, 0) /\ Wrapped(minutes, 2) /\ ~Wrapped(hours, 4) ->
                   [c EXCEPT !.time = hours]
            [] OTHER -> [c EXCEPT !.time = Weekday(hours), !.date = AdvanceDate(c.date)]
  BY DEF AdvanceSecond
<1>4. /\ Turned(S, 60) \in 0..59 /\ Turned(S, 60) \in 0..99
      /\ Turned(M, 60) \in 0..59 /\ Turned(M, 60) \in 0..99
      /\ Turned(H, 24) \in 0..23 /\ Turned(H, 24) \in 0..99
  BY <1>1 DEF Turned
<1> HIDE DEF s, S, M, H, D
<1>5. TimeIs(seconds, Turned(S, 60), M, H, D)
  <2>1. Two(c.time, 0) = S /\ S < 60 /\ c.time \in Digits /\ 0 \in {0, 2}
    BY <1>1, <1>2 DEF TimeIs
  <2>2. seconds = Put(c.time, 0, Turned(S, 60))
    BY <2>1, SexagesimalTurns
  <2> QED BY <1>2, <1>4, <2>2, PutTime, Zenon
<1> HIDE DEF seconds
<1>6. TimeIs(minutes, Turned(S, 60), Turned(M, 60), H, D)
  <2>1. Two(seconds, 2) = M /\ M < 60 /\ seconds \in Digits /\ 2 \in {0, 2}
    BY <1>1, <1>5 DEF TimeIs
  <2>2. minutes = Put(seconds, 2, Turned(M, 60))
    BY <2>1, SexagesimalTurns
  <2> QED BY <1>4, <1>5, <2>2, PutTime, Zenon
<1> HIDE DEF minutes
<1>7. TimeIs(hours, Turned(S, 60), Turned(M, 60), Turned(H, 24), D)
  <2>1. /\ Two(minutes, 4) = H /\ Two(minutes, 4) < 10 * 2 + 4 /\ minutes \in Digits
        /\ 4 \in {0, 2, 4} /\ 2 \in 0..9 /\ 4 \in 1..9 /\ 10 * 2 + 4 = 24
    BY <1>1, <1>6 DEF TimeIs
  <2>2. hours = Put(minutes, 4, Turned(Two(minutes, 4), 10 * 2 + 4))
    BY <2>1, DecimalTurns, Zenon
  <2>3. hours = Put(minutes, 4, Turned(H, 24))
    BY <2>1, <2>2
  <2> QED BY <1>4, <1>6, <2>3, PutTime, Zenon
<1> HIDE DEF hours
<1>8. /\ Wrapped(seconds, 0) <=> Turned(S, 60) = 0
      /\ Wrapped(minutes, 2) <=> Turned(M, 60) = 0
      /\ Wrapped(hours, 4) <=> Turned(H, 24) = 0
  BY <1>5, <1>6, <1>7, WrappedIs DEF TimeIs
<1>9. SecondOfDay(c) = 3600 * H + 60 * M + S
  BY DEF SecondOfDay, S, M, H
<1> DEFINE at(w) == [c EXCEPT !.time = w]
           clock(h, b, a) == 3600 * h + 60 * b + a
           early == SecondOfDay(c) < 86399
<1>10. ASSUME NEW w, NEW a \in 0..59, NEW b \in 0..59, NEW h \in 0..23,
              TimeIs(w, a, b, h, D), s = at(w), clock(h, b, a) = SecondOfDay(c) + 1, early
       PROVE  /\ s \in RtcType /\ SameControl(c, s) /\ InRange(s) /\ OnCalendar(s)
              /\ Follows(c, s)
  <2>1. /\ s \in RtcType /\ SameControl(c, s) /\ s.date = c.date
        /\ Field(s, 0) = a /\ Field(s, 1) = b /\ Field(s, 2) = h /\ Field(s, 3) = D
        /\ Field(s, 4) = Field(c, 4) /\ Field(s, 5) = Field(c, 5) /\ Field(s, 6) = Field(c, 6)
    BY <1>10, TimeChanges
  <2>2. InRange(s) /\ OnCalendar(s)
    BY <1>1, <2>1 DEF InRange, OnCalendar
  <2>3. SecondOfDay(s) = SecondOfDay(c) + 1
    BY <1>10, <2>1 DEF SecondOfDay
  <2> QED BY <1>10, <2>1, <2>2, <2>3 DEF Follows, D
<1> HIDE DEF at, clock, early
<1>11. CASE Turned(S, 60) # 0
  <2>1. Turned(S, 60) = S + 1 /\ S # 59
    BY <1>1, <1>11 DEF Turned
  <2>2. s = at(seconds)
    BY <1>3, <1>8, <1>11 DEF at
  <2>3. /\ clock(H, M, Turned(S, 60)) = SecondOfDay(c) + 1
        /\ early
    BY <1>1, <1>9, <2>1 DEF clock, early
  <2>4. /\ s \in RtcType /\ SameControl(c, s) /\ InRange(s) /\ OnCalendar(s)
        /\ Follows(c, s)
    BY <1>1, <1>4, <1>5, <1>10, <2>2, <2>3, Zenon
  <2> QED BY <2>4 DEF s
<1>12. CASE Turned(S, 60) = 0 /\ Turned(M, 60) # 0
  <2>1. S = 59 /\ Turned(M, 60) = M + 1 /\ M # 59
    BY <1>1, <1>12 DEF Turned
  <2>2. s = at(minutes)
    BY <1>3, <1>8, <1>12 DEF at
  <2>3. /\ clock(H, Turned(M, 60), Turned(S, 60)) = SecondOfDay(c) + 1
        /\ early
    BY <1>1, <1>9, <1>12, <2>1 DEF clock, early
  <2>4. /\ s \in RtcType /\ SameControl(c, s) /\ InRange(s) /\ OnCalendar(s)
        /\ Follows(c, s)
    BY <1>1, <1>4, <1>6, <1>10, <2>2, <2>3, Zenon
  <2> QED BY <2>4 DEF s
<1>13. CASE Turned(S, 60) = 0 /\ Turned(M, 60) = 0 /\ Turned(H, 24) # 0
  <2>1. S = 59 /\ M = 59 /\ Turned(H, 24) = H + 1 /\ H # 23
    BY <1>1, <1>13 DEF Turned
  <2>2. s = at(hours)
    BY <1>3, <1>8, <1>13 DEF at
  <2>3. /\ clock(Turned(H, 24), Turned(M, 60), Turned(S, 60)) = SecondOfDay(c) + 1
        /\ early
    BY <1>1, <1>9, <1>13, <2>1 DEF clock, early
  <2>4. /\ s \in RtcType /\ SameControl(c, s) /\ InRange(s) /\ OnCalendar(s)
        /\ Follows(c, s)
    BY <1>1, <1>4, <1>7, <1>10, <2>2, <2>3, Zenon
  <2> QED BY <2>4 DEF s
<1>14. CASE Turned(S, 60) = 0 /\ Turned(M, 60) = 0 /\ Turned(H, 24) = 0
  <2>1. S = 59 /\ M = 59 /\ H = 23
    BY <1>1, <1>14 DEF Turned
  <2> DEFINE w == Weekday(hours)
             t == [c EXCEPT !.time = w]
  <2>2. s = [t EXCEPT !.date = AdvanceDate(c.date)]
    BY <1>3, <1>8, <1>14 DEF RtcType
  <2>3. TimeIs(w, 0, 0, 0, (D % 7) + 1) /\ (D % 7) + 1 \in 1..7
    BY <1>1, <1>7, <1>14, WeekdayTime
  <2> HIDE DEF w
  <2>4. /\ t \in RtcType /\ SameControl(c, t)
        /\ Field(t, 0) = 0 /\ Field(t, 1) = 0 /\ Field(t, 2) = 0 /\ Field(t, 3) = (D % 7) + 1
    BY <2>3, TimeChanges
  <2>5. PICK e, n, z : /\ DateIs(AdvanceDate(c.date), e, n, z) /\ IsDate(e, n, z)
                       /\ DayOf(e, n, z)
                            = (DayOf(Field(c, 4), Field(c, 5), Field(c, 6)) + 1) % Century
    BY <1>2, DateAdvances DEF OnCalendar
  <2> HIDE DEF t
  <2>6. /\ s \in RtcType /\ SameControl(t, s)
        /\ Field(s, 4) = e /\ Field(s, 5) = n /\ Field(s, 6) = z
        /\ Field(s, 0) = Field(t, 0) /\ Field(s, 1) = Field(t, 1)
        /\ Field(s, 2) = Field(t, 2) /\ Field(s, 3) = Field(t, 3)
    BY <2>2, <2>4, <2>5, DateChanges
  <2>7. SameControl(c, s) /\ OnCalendar(s)
    BY <2>4, <2>5, <2>6 DEF SameControl, OnCalendar
  <2>8. InRange(s)
    <3>1. z \in 0..99 /\ n \in 1..12 /\ e \in 1..MonthLength(n, z) /\ MonthLength(n, z) \in 28..31
      BY <2>5, MonthsOfYear DEF IsDate
    <3> QED BY <2>3, <2>4, <2>6, <3>1 DEF InRange
  <2>9. SecondOfDay(c) = 86399 /\ SecondOfDay(s) = 0
    BY <1>9, <2>1, <2>4, <2>6 DEF SecondOfDay
  <2>10. /\ DayNumber(c) = DayOf(Field(c, 4), Field(c, 5), Field(c, 6))
         /\ DayNumber(s) = DayOf(Field(s, 4), Field(s, 5), Field(s, 6))
    BY <2>8, DayNumberIs
  <2>11. DayNumber(s) = (DayNumber(c) + 1) % Century
    BY <2>5, <2>6, <2>10
  <2> QED BY <2>4, <2>6, <2>7, <2>8, <2>9, <2>11 DEF Follows, D, s
<1> QED BY <1>11, <1>12, <1>13, <1>14 DEF s

\* A set of the host puts its time into the fields (psemu_set_datetime).
LEMMA SetIs ==
    ASSUME NEW t, IsTime(t)
    PROVE  /\ TimeOf(t) \in Digits /\ DateOf(t) \in Digits
           /\ \A r : r.time = TimeOf(t) /\ r.date = DateOf(t)
                      => \A f \in Fields : Field(r, f) = Wanted(t, f)
<1>1. /\ t[6] \in 0..99 /\ t[5] \in 0..99 /\ t[4] \in 0..99 /\ t[7] \in 1..7
      /\ t[3] \in 0..99 /\ t[2] \in 0..99 /\ t[1] \in 0..99
  <2>1. t[1] \in 0..99 /\ t[2] \in 1..12
    BY DEF IsTime
  <2>2. MonthLength(t[2], t[1]) \in 28..31
    BY <2>1, MonthsOfYear
  <2> QED BY <2>1, <2>2 DEF IsTime
<1>2. TimeIs(ZeroWord, 0, 0, 0, 0) /\ DateIs(ZeroWord, 0, 0, 0)
  BY DEF ZeroWord, TimeIs, DateIs, Digits, Two
<1> DEFINE w == Put(Put(Put(ZeroWord, 0, t[6]), 2, t[5]), 4, t[4])
<1>3. TimeIs(w, t[6], t[5], t[4], 0)
  <2>1. TimeIs(Put(ZeroWord, 0, t[6]), t[6], 0, 0, 0)
    BY <1>1, <1>2, PutTime, Zenon
  <2>2. TimeIs(Put(Put(ZeroWord, 0, t[6]), 2, t[5]), t[6], t[5], 0, 0)
    BY <1>1, <2>1, PutTime, Zenon
  <2> QED BY <1>1, <2>2, PutTime, Zenon
<1>4. DateIs(DateOf(t), t[3], t[2], t[1])
  <2>1. DateIs(Put(ZeroWord, 0, t[3]), t[3], 0, 0)
    BY <1>1, <1>2, PutDate, Zenon
  <2>2. DateIs(Put(Put(ZeroWord, 0, t[3]), 2, t[2]), t[3], t[2], 0)
    BY <1>1, <2>1, PutDate, Zenon
  <2> QED BY <1>1, <2>2, PutDate, Zenon DEF DateOf
<1>5. TimeOf(t) = Put(w, 6, t[7])
  BY DEF TimeOf
<1> HIDE DEF w
<1>6. TimeIs(TimeOf(t), t[6], t[5], t[4], t[7])
  <2>1. w \in Digits /\ 6 \in {0, 2, 4, 6} /\ t[7] \in 0..99 /\ t[7] % 10 = t[7]
    BY <1>1, <1>3, SMTT(30) DEF TimeIs
  <2>2. Put(w, 6, t[7]) \in Digits /\ Put(w, 6, t[7])[6] = t[7]
    BY <2>1, PutType
  <2>3. \A j \in {0, 2, 4} \ {6} : Two(Put(w, 6, t[7]), j) = Two(w, j)
    BY <2>1, PutApart, Zenon
  <2> QED BY <1>3, <1>5, <2>2, <2>3 DEF TimeIs
<1>7. /\ Wanted(t, 0) = t[6] /\ Wanted(t, 1) = t[5] /\ Wanted(t, 2) = t[4] /\ Wanted(t, 3) = t[7]
      /\ Wanted(t, 4) = t[3] /\ Wanted(t, 5) = t[2] /\ Wanted(t, 6) = t[1]
  BY DEF Wanted
<1>8. ASSUME NEW r, r.time = TimeOf(t), r.date = DateOf(t), NEW f \in Fields
      PROVE  Field(r, f) = Wanted(t, f)
  BY <1>4, <1>6, <1>7, <1>8, FieldIs, FieldsAre DEF TimeIs, DateIs
<1> QED BY <1>4, <1>6, <1>8 DEF TimeIs, DateIs

\* A clock at such a time is on the calendar.
LEMMA WantedIs ==
    ASSUME NEW t, IsTime(t)
    PROVE  /\ Wanted(t, 5) \in 1..12
           /\ \A r : (\A f \in Fields : Field(r, f) = Wanted(t, f)) => InRange(r) /\ OnCalendar(r)
<1>1. /\ Wanted(t, 0) = t[6] /\ Wanted(t, 1) = t[5] /\ Wanted(t, 2) = t[4] /\ Wanted(t, 3) = t[7]
      /\ Wanted(t, 4) = t[3] /\ Wanted(t, 5) = t[2] /\ Wanted(t, 6) = t[1]
  BY DEF Wanted
<1>2. t[1] \in 0..99 /\ t[2] \in 1..12
  BY DEF IsTime
<1>3. MonthLength(t[2], t[1]) \in 28..31
  BY <1>2, MonthsOfYear
<1>4. /\ t[6] \in 0..59 /\ t[5] \in 0..59 /\ t[4] \in 0..23 /\ t[7] \in 1..7
      /\ t[3] \in 1..MonthLength(t[2], t[1]) /\ t[3] \in 0..31
  BY <1>2, <1>3 DEF IsTime
<1> QED BY <1>1, <1>2, <1>4, FieldsAre DEF InRange, OnCalendar, IsDate

-----------------------------------------------------------------------------
(* The kernel and the clock.                                                  *)

Resting == kernel = Idle /\ ~rtc.program /\ rtc.control = 0

\* A field that has no increment to come is at its target, and the month is not
\* beyond it.
Adjusting ==
    /\ kernel.target \in Targets /\ kernel.todo \in Seq(Fields) /\ kernel.todo # <<>>
    /\ kernel = [todo |-> kernel.todo, target |-> kernel.target]
    /\ rtc.program /\ rtc.select = Head(kernel.todo)
    /\ Field(rtc, 5) <= Wanted(kernel.target, 5)
    /\ \A f \in Fields : \/ Field(rtc, f) = Wanted(kernel.target, f)
                         \/ \E i \in 1..Len(kernel.todo) : kernel.todo[i] = f
    /\ rtc.control = 1 => ~Reached

ClockInv ==
    /\ rtc \in RtcType /\ InRange(rtc)
    /\ ~rtc.program => OnCalendar(rtc)
    /\ Resting \/ Adjusting

LEMMA RestingIff ==
    ASSUME ClockInv
    PROVE  (Resting <=> ~rtc.program) /\ (Resting <=> kernel.todo = <<>>)
BY DEF ClockInv, Resting, Adjusting, Idle

LEMMA PowerOnIs ==
    RtcPowerOn \in RtcType /\ InRange(RtcPowerOn) /\ OnCalendar(RtcPowerOn)
<1> DEFINE t == <<98, 1, 1, 0, 0, 0, 4>>
<1>1. IsTime(t)
  <2>1. t[1] = 98 /\ t[2] = 1 /\ t[3] = 1 /\ t[4] = 0 /\ t[5] = 0 /\ t[6] = 0 /\ t[7] = 4
    OBVIOUS
  <2>2. MonthLength(1, 98) \in 28..31
    BY MonthsOfYear
  <2>3. t \in [1..7 -> Nat]
    OBVIOUS
  <2> HIDE DEF t
  <2> QED BY <2>1, <2>2, <2>3 DEF IsTime
<1>2. RtcPowerOn.time = TimeOf(t) /\ RtcPowerOn.date = DateOf(t)
  BY DEF RtcPowerOn
<1> HIDE DEF t
<1>3. \A f \in Fields : Field(RtcPowerOn, f) = Wanted(t, f)
  BY <1>1, <1>2, SetIs
<1>4. RtcPowerOn \in RtcType
  <2>1. RtcPowerOn.time \in Digits /\ RtcPowerOn.date \in Digits
    BY <1>1, <1>2, SetIs
  <2> QED BY <2>1 DEF RtcPowerOn, RtcType, Fields
<1> QED BY <1>1, <1>3, <1>4, WantedIs

LEMMA ClockStart == ClockInit => ClockInv
<1> SUFFICES ASSUME ClockInit PROVE ClockInv
  OBVIOUS
<1>1. rtc = RtcPowerOn /\ kernel = Idle
  BY DEF ClockInit
<1>2. ~RtcPowerOn.program /\ RtcPowerOn.control = 0
  BY DEF RtcPowerOn
<1> QED BY <1>1, <1>2, PowerOnIs DEF ClockInv, Resting

\* A fall of the line is a second of a clock that runs, and nothing else is.
LEMMA TransitionIs ==
    ASSUME ClockInv, Transition
    PROVE  /\ ClockInv'
           /\ ~(rtc.line /\ ~rtc.program) => UNCHANGED <<rtc.time, rtc.date>>
           /\ ~rtc.program /\ rtc.line => Follows(rtc, rtc')
<1> DEFINE r == [rtc EXCEPT !.line = ~@]
<1>1. rtc \in RtcType /\ InRange(rtc) /\ (~rtc.program => OnCalendar(rtc))
  BY DEF ClockInv
<1>2. /\ r \in RtcType /\ r.time = rtc.time /\ r.date = rtc.date /\ r.program = rtc.program
      /\ r.select = rtc.select /\ r.control = rtc.control /\ r.line = ~rtc.line
  BY <1>1 DEF RtcType
<1>3. rtc' = (IF ~r.program /\ ~r.line THEN AdvanceSecond(r) ELSE r) /\ UNCHANGED kernel
  BY DEF Transition
<1> HIDE DEF r
<1>4. /\ \A f \in Fields : Field(r, f) = Field(rtc, f)
      /\ InRange(r) /\ (~rtc.program => OnCalendar(r))
  BY <1>1, <1>2, SameWords
<1>5. CASE rtc.program
  <2>1. rtc' = r /\ Adjusting
    BY <1>2, <1>3, <1>5, RestingIff DEF ClockInv
  <2>2. Reached' = Reached
    <3>1. Head(kernel.todo) \in Fields
      BY <2>1 DEF Adjusting
    <3> QED BY <1>3, <1>4, <2>1, <3>1 DEF Reached
  <2>3. 5 \in Fields
    BY DEF Fields
  <2>4. Adjusting'
    BY <1>2, <1>3, <1>4, <2>1, <2>2, <2>3 DEF Adjusting
  <2> QED BY <1>2, <1>4, <1>5, <2>1, <2>4 DEF ClockInv
<1>6. CASE ~rtc.program /\ ~rtc.line
  <2>1. rtc' = r /\ Resting
    BY <1>1, <1>2, <1>3, <1>6, RestingIff DEF RtcType
  <2> QED BY <1>2, <1>3, <1>4, <1>6, <2>1 DEF ClockInv, Resting
<1>7. CASE ~rtc.program /\ rtc.line
  <2>1. rtc' = AdvanceSecond(r) /\ Resting
    BY <1>1, <1>2, <1>3, <1>7, RestingIff DEF RtcType
  <2>2. /\ rtc' \in RtcType /\ SameControl(r, rtc') /\ InRange(rtc') /\ OnCalendar(rtc')
        /\ Follows(r, rtc')
    BY <1>2, <1>4, <1>7, <2>1, SecondAdvances
  <2>3. Follows(rtc, rtc')
    <3>1. 0 \in Fields /\ 1 \in Fields /\ 2 \in Fields /\ 3 \in Fields
          /\ 4 \in Fields /\ 5 \in Fields /\ 6 \in Fields
      BY DEF Fields
    <3>2. SecondOfDay(r) = SecondOfDay(rtc) /\ DayNumber(r) = DayNumber(rtc)
          /\ Field(r, 3) = Field(rtc, 3)
      BY <1>4, <3>1 DEF SecondOfDay, DayNumber
    <3> QED BY <1>2, <2>2, <3>2 DEF Follows
  <2>4. Resting'
    BY <1>2, <1>3, <2>1, <2>2 DEF Resting, SameControl
  <2> QED BY <1>7, <2>2, <2>3, <2>4 DEF ClockInv
<1> QED BY <1>1, <1>5, <1>6, <1>7 DEF RtcType

LEMMA WriteControlIs ==
    ASSUME ClockInv, WriteControlOne
    PROVE  ClockInv'
<1>1. /\ rtc \in RtcType /\ InRange(rtc) /\ Adjusting /\ UNCHANGED kernel
  BY RestingIff DEF ClockInv, WriteControlOne
<1> DEFINE f == Head(kernel.todo)
           t == kernel.target
<1>2. /\ f \in Fields /\ f = rtc.select /\ 5 \in Fields /\ Wanted(t, 5) \in 1..12
      /\ Field(rtc, 5) \in 1..12 /\ Field(rtc, 5) <= Wanted(t, 5)
      /\ rtc.program /\ rtc.control \in 0..1
  <2>1. IsTime(t)
    BY <1>1, ClockUnitAssumption DEF Adjusting
  <2>2. Wanted(t, 5) \in 1..12
    BY <2>1, WantedIs
  <2> QED BY <1>1, <2>2 DEF Adjusting, InRange, Fields, RtcType
<1>3. Reached <=> Field(rtc, f) = Wanted(t, f)
  BY DEF Reached
<1>4. Reached' <=> Field(rtc', f) = Wanted(t, f)
  BY <1>1 DEF Reached
<1>5. \A g \in Fields : \/ Field(rtc, g) = Wanted(t, g)
                        \/ \E i \in 1..Len(kernel.todo) : kernel.todo[i] = g
  BY <1>1 DEF Adjusting
<1>6. f = kernel.todo[1] /\ 1 \in 1..Len(kernel.todo)
  BY <1>1 DEF Adjusting
<1> HIDE DEF f, t
<1>7. CASE rtc.control = 1
  <2>1. rtc' = [Increment(rtc, f) EXCEPT !.control = 0] /\ ~Reached
    BY <1>1, <1>2, <1>7 DEF WriteControlOne, Adjusting
  <2>2. f = 5 => Field(rtc, 5) < 12 /\ Field(rtc, 5) + 1 <= Wanted(t, 5)
    BY <1>2, <1>3, <2>1
  <2> DEFINE s == Increment(rtc, f)
  <2>3. /\ s \in RtcType /\ SameControl(rtc, s) /\ InRange(s)
        /\ \A g \in Fields \ {f} : Field(s, g) = Field(rtc, g)
        /\ f = 5 => Field(s, 5) = Field(rtc, 5) + 1
    BY <1>1, <1>2, <2>2, IncrementIs
  <2> HIDE DEF s
  <2>4. rtc' = [s EXCEPT !.control = 0]
    BY <2>1 DEF s
  <2>5. /\ rtc' \in RtcType /\ rtc'.time = s.time /\ rtc'.date = s.date /\ rtc'.control = 0
        /\ rtc'.program = s.program /\ rtc'.select = s.select
    BY <2>3, <2>4 DEF RtcType
  <2>6. (\A g \in Fields : Field(rtc', g) = Field(s, g)) /\ InRange(rtc')
    BY <2>3, <2>5, SameWords
  <2>7. \A g \in Fields : \/ Field(rtc', g) = Wanted(t, g)
                          \/ \E i \in 1..Len(kernel.todo) : kernel.todo[i] = g
    BY <1>5, <1>6, <2>3, <2>6
  <2>8. Field(rtc', 5) <= Wanted(t, 5)
    BY <1>2, <2>2, <2>3, <2>6
  <2>9. Adjusting'
    BY <1>1, <2>3, <2>5, <2>7, <2>8 DEF Adjusting, SameControl, t
  <2>10. rtc'.program
    BY <1>2, <2>3, <2>5 DEF SameControl
  <2> QED BY <2>5, <2>6, <2>9, <2>10 DEF ClockInv
<1>8. CASE rtc.control = 0
  <2>1. rtc' = [rtc EXCEPT !.control = 1] /\ ~Reached
    BY <1>8 DEF WriteControlOne
  <2>2. /\ rtc' \in RtcType /\ rtc'.time = rtc.time /\ rtc'.date = rtc.date
        /\ rtc'.program = rtc.program /\ rtc'.select = rtc.select
    BY <1>1, <2>1 DEF RtcType
  <2>3. (\A g \in Fields : Field(rtc', g) = Field(rtc, g)) /\ InRange(rtc')
    BY <1>1, <2>2, SameWords
  <2>4. ~Reached'
    BY <1>2, <1>3, <1>4, <2>1, <2>3
  <2>5. Adjusting'
    BY <1>1, <1>2, <2>2, <2>3, <2>4 DEF Adjusting
  <2> QED BY <1>2, <2>2, <2>3, <2>5 DEF ClockInv
<1> QED BY <1>2, <1>7, <1>8

LEMMA NextFieldIs ==
    ASSUME ClockInv, NextField
    PROVE  ClockInv'
<1>1. /\ rtc \in RtcType /\ InRange(rtc) /\ Adjusting
      /\ Tail(kernel.todo) # <<>> /\ rtc.control = 0 /\ Reached
      /\ kernel' = [kernel EXCEPT !.todo = Tail(@)]
      /\ rtc' = [rtc EXCEPT !.select = Head(kernel'.todo)]
  BY RestingIff DEF ClockInv, NextField
<1> DEFINE todo == kernel.todo
           t == kernel.target
<1>2. /\ todo \in Seq(Fields) /\ todo # <<>> /\ t \in Targets
      /\ kernel = [todo |-> todo, target |-> t] /\ rtc.program
      /\ Field(rtc, 5) <= Wanted(t, 5)
      /\ \A f \in Fields : \/ Field(rtc, f) = Wanted(t, f)
                           \/ \E i \in 1..Len(todo) : todo[i] = f
  BY <1>1 DEF Adjusting
<1>3. kernel' = [todo |-> Tail(todo), target |-> t]
  BY <1>1, <1>2
<1>4. Field(rtc, Head(todo)) = Wanted(t, Head(todo))
  BY <1>1 DEF Reached
<1> HIDE DEF todo, t
<1>5. Tail(todo) \in Seq(Fields) /\ Tail(todo) # <<>> /\ Head(Tail(todo)) \in Fields
  BY <1>1, <1>2 DEF todo
<1>6. /\ rtc' \in RtcType /\ rtc'.time = rtc.time /\ rtc'.date = rtc.date /\ rtc'.control = 0
      /\ rtc'.program /\ rtc'.select = Head(Tail(todo))
  BY <1>1, <1>2, <1>3, <1>5 DEF RtcType
<1>7. (\A f \in Fields : Field(rtc', f) = Field(rtc, f)) /\ InRange(rtc')
  BY <1>1, <1>6, SameWords
<1>8. ASSUME NEW f \in Fields
      PROVE  \/ Field(rtc', f) = Wanted(t, f)
             \/ \E i \in 1..Len(Tail(todo)) : Tail(todo)[i] = f
  <2>1. CASE Field(rtc, f) = Wanted(t, f)
    BY <1>7, <2>1
  <2>2. CASE Field(rtc, f) # Wanted(t, f)
    <3>1. PICK i \in 1..Len(todo) : todo[i] = f
      BY <1>2, <2>2
    <3>2. i # 1
      BY <1>2, <1>4, <2>2, <3>1
    <3>3. i - 1 \in 1..Len(Tail(todo)) /\ Tail(todo)[i - 1] = todo[i]
      BY <1>2, <3>1, <3>2
    <3> QED BY <3>1, <3>3
  <2> QED BY <2>1, <2>2
<1>9. Adjusting'
  <2>1. 5 \in Fields
    BY DEF Fields
  <2> QED BY <1>2, <1>3, <1>5, <1>6, <1>7, <1>8, <2>1 DEF Adjusting
<1> QED BY <1>6, <1>7, <1>9 DEF ClockInv

\* Each field is at its target when the kernel leaves program mode.
LEMMA EndAdjustIs ==
    ASSUME ClockInv, EndAdjust
    PROVE  /\ ClockInv'
           /\ \A f \in Fields : Field(rtc', f) = Wanted(kernel.target, f)
<1>1. /\ rtc \in RtcType /\ InRange(rtc) /\ Len(kernel.todo) = 1 /\ rtc.control = 0 /\ Reached
      /\ kernel' = Idle /\ rtc' = [rtc EXCEPT !.program = FALSE]
  BY DEF ClockInv, EndAdjust
<1>2. Adjusting
  <2>1. kernel.todo # <<>>
    BY <1>1
  <2> QED BY <2>1, RestingIff DEF ClockInv
<1> DEFINE t == kernel.target
<1>3. \A f \in Fields : Field(rtc, f) = Wanted(t, f)
  <2>1. ASSUME NEW i \in 1..Len(kernel.todo) PROVE kernel.todo[i] = Head(kernel.todo)
    BY <1>1, <1>2 DEF Adjusting
  <2> QED BY <1>1, <1>2, <2>1 DEF Adjusting, Reached
<1>4. /\ rtc' \in RtcType /\ rtc'.time = rtc.time /\ rtc'.date = rtc.date
      /\ ~rtc'.program /\ rtc'.control = 0
  BY <1>1 DEF RtcType
<1>5. \A f \in Fields : Field(rtc', f) = Wanted(t, f)
  BY <1>3, <1>4, SameWords
<1>6. IsTime(t)
  BY <1>2, ClockUnitAssumption DEF Adjusting
<1>7. InRange(rtc') /\ OnCalendar(rtc')
  BY <1>5, <1>6, WantedIs
<1> QED BY <1>1, <1>4, <1>5, <1>7 DEF ClockInv, Resting

LEMMA BeginAdjustIs ==
    ASSUME ClockInv, ~MonthWraps, NEW t \in Targets, NEW o \in Orders, BeginAdjust(t, o)
    PROVE  ClockInv'
<1>1. /\ rtc \in RtcType /\ InRange(rtc) /\ kernel = Idle /\ Field(rtc, 5) <= Wanted(t, 5)
      /\ kernel' = [todo |-> o, target |-> t]
      /\ rtc' = [rtc EXCEPT !.program = TRUE, !.select = Head(o)]
  BY DEF ClockInv, BeginAdjust
<1>2. Resting
  BY <1>1, RestingIff DEF Idle
<1>3. o \in Seq(Fields) /\ \A f \in Fields : \E i \in 1..Len(o) : o[i] = f
  BY ClockUnitAssumption
<1>4. o # <<>> /\ Head(o) \in Fields
  <2>1. 0 \in Fields
    BY DEF Fields
  <2>2. Len(o) > 0
    BY <1>3, <2>1
  <2> QED BY <1>3, <2>2
<1>5. /\ rtc' \in RtcType /\ rtc'.time = rtc.time /\ rtc'.date = rtc.date /\ rtc'.control = 0
      /\ rtc'.program /\ rtc'.select = Head(o)
  BY <1>1, <1>2, <1>4 DEF RtcType, Resting
<1>6. (\A f \in Fields : Field(rtc', f) = Field(rtc, f)) /\ InRange(rtc')
  BY <1>1, <1>5, SameWords
<1>7. Adjusting'
  <2>1. 5 \in Fields
    BY DEF Fields
  <2> QED BY <1>1, <1>3, <1>4, <1>5, <1>6, <2>1 DEF Adjusting
<1> QED BY <1>5, <1>6, <1>7 DEF ClockInv

LEMMA ClockStep ==
    ASSUME ClockInv, ~MonthWraps, [ClockNext]_clockVars
    PROVE  ClockInv'
<1>1. CASE Transition
  BY <1>1, TransitionIs
<1>2. ASSUME NEW t \in HostTimes, SetDatetime(t) PROVE ClockInv'
  <2>1. /\ rtc \in RtcType /\ ~rtc.program /\ UNCHANGED kernel
        /\ rtc' = [rtc EXCEPT !.time = TimeOf(t), !.date = DateOf(t)]
    BY <1>2 DEF SetDatetime, ClockInv
  <2>2. Resting /\ IsTime(t)
    BY <2>1, RestingIff, ClockUnitAssumption
  <2>3. TimeOf(t) \in Digits /\ DateOf(t) \in Digits
    BY <2>2, SetIs
  <2>4. /\ rtc' \in RtcType /\ SameControl(rtc, rtc')
        /\ rtc'.time = TimeOf(t) /\ rtc'.date = DateOf(t)
    BY <2>1, <2>3 DEF RtcType, SameControl
  <2>5. \A f \in Fields : Field(rtc', f) = Wanted(t, f)
    BY <2>2, <2>4, SetIs
  <2>6. InRange(rtc') /\ OnCalendar(rtc')
    BY <2>2, <2>5, WantedIs
  <2> QED BY <2>1, <2>2, <2>6, <2>4 DEF ClockInv, Resting, SameControl
<1>3. CASE ResetClock
  <2>1. rtc' = RtcPowerOn /\ kernel' = Idle
    BY <1>3 DEF ResetClock
  <2>2. ~RtcPowerOn.program /\ RtcPowerOn.control = 0
    BY DEF RtcPowerOn
  <2> QED BY <2>1, <2>2, PowerOnIs DEF ClockInv, Resting
<1>4. ASSUME NEW t \in Targets, NEW o \in Orders, BeginAdjust(t, o) PROVE ClockInv'
  BY <1>4, BeginAdjustIs
<1>5. CASE KernelStep
  BY <1>5, WriteControlIs, NextFieldIs, EndAdjustIs DEF KernelStep
<1>6. CASE UNCHANGED clockVars
  BY <1>6 DEF clockVars, ClockInv, Resting, Adjusting, Reached
<1> QED BY <1>1, <1>2, <1>3, <1>4, <1>5, <1>6 DEF ClockNext

\* A fall of the line of a clock that runs is the next second of the calendar, each
\* other transition leaves the time and the date, and an adjustment
\* of the kernel ends at its target, from each time that is set and in each order
\* of the fields, if the kernel does not bring a month to an earlier one
\* (rtc_advance_second, rtc_increment_field, rtc_write8 of rtc.c).
THEOREM ClockIsAlwaysExact == ~MonthWraps => (ClockSpec => ClockIsExact)
<1> SUFFICES ASSUME ~MonthWraps PROVE ClockSpec => ClockIsExact
  OBVIOUS
<1>1. ClockInit => ClockInv
  BY ClockStart
<1>2. ClockInv /\ [ClockNext]_clockVars => ClockInv'
  BY ClockStep
<1>3. ClockInv =>
        [/\ (Transition /\ rtc.line /\ ~rtc.program) => Follows(rtc, rtc')
         /\ (Transition /\ ~(rtc.line /\ ~rtc.program)) => UNCHANGED <<rtc.time, rtc.date>>]_clockVars
  BY TransitionIs
<1>4. ClockInv =>
        [(EndAdjust /\ kernel.todo # <<>>) =>
            \A f \in Fields : Field(rtc', f) = Wanted(kernel.target, f)]_clockVars
  BY EndAdjustIs
<1> QED BY <1>1, <1>2, <1>3, <1>4, PTL DEF ClockSpec, ClockIsExact, SecondIsExact, AdjustIsExact

-----------------------------------------------------------------------------
(* The content files.                                                         *)

LEMMA FrameDivision ==
    ASSUME NEW e \in Int
    PROVE  /\ e % BlockFrames \in 0..BlockFrames - 1
           /\ e \div BlockFrames \in Int
           /\ e = (e \div BlockFrames) * BlockFrames + (e % BlockFrames)
<1> DEFINE m == BlockFrames
<1>1. m \in Nat /\ m > 0
  BY ContentAssumption
<1> HIDE DEF m
<1>2. e % m \in 0..m - 1 /\ e \div m \in Int /\ e = m * (e \div m) + (e % m)
  BY <1>1, SMTT(30)
<1> DEFINE q == e \div m
<1>3. q \in Int
  BY <1>2
<1> HIDE DEF q
<1>4. m * q = q * m
  BY <1>1, <1>3, SMTT(30)
<1>5. e = q * m + (e % m)
  BY <1>2, <1>4 DEF q
<1> QED BY <1>2, <1>5 DEF m, q

LEMMA FrameDivisionIsUnique ==
    ASSUME NEW q \in Int, NEW r \in 0..BlockFrames - 1
    PROVE  (q * BlockFrames + r) \div BlockFrames = q /\ (q * BlockFrames + r) % BlockFrames = r
<1> DEFINE m == BlockFrames
<1>1. m \in Nat /\ m > 0
  BY ContentAssumption
<1>2. r \in Int /\ 0 <= r /\ r < m
  BY <1>1
<1> HIDE DEF m
<1>3. (m * q + r) % m = r /\ (m * q + r) \div m = q
  BY <1>1, <1>2, SMTT(30)
<1>4. m * q = q * m
  BY <1>1, SMTT(30)
<1> QED BY <1>3, <1>4 DEF m

\* The frames of q blocks.
LEMMA FramesOf ==
    ASSUME NEW p \in Int, NEW q \in Int
    PROVE  /\ q * BlockFrames \in Int
           /\ (q + 1) * BlockFrames = q * BlockFrames + BlockFrames
           /\ (q - 1) * BlockFrames = q * BlockFrames - BlockFrames
           /\ p <= q <=> p * BlockFrames <= q * BlockFrames
           /\ p < q => p * BlockFrames + BlockFrames <= q * BlockFrames
<1> DEFINE m == BlockFrames
<1>1. m \in Nat /\ m > 0
  BY ContentAssumption
<1> HIDE DEF m
<1>2. q * m \in Int /\ p * m \in Int
  BY <1>1, SMTT(30)
<1>3. (q + 1) * m = q * m + m /\ (q - 1) * m = q * m - m /\ (p + 1) * m = p * m + m
  BY <1>1, SMTT(30)
<1>4. (p < q => (p + 1) * m <= q * m) /\ (q < p => (q + 1) * m <= p * m)
  BY <1>1, SMTT(30)
<1> QED BY <1>1, <1>2, <1>3, <1>4 DEF m

LEMMA Sizes ==
    /\ Blocks \in Nat /\ Blocks >= 2 /\ BlockFrames \in Nat /\ BlockFrames >= 2
    /\ Blocks <= BlockFrames /\ AppBlocks \in Nat
    /\ AppBlocks * BlockFrames \in Nat /\ CardFrames \in Nat
    /\ CardFrames = BlockFrames + AppBlocks * BlockFrames
    /\ AppBlocks * BlockFrames >= BlockFrames
<1>1. Blocks \in Nat /\ BlockFrames \in Nat /\ Blocks # 0 /\ Blocks # 1
      /\ BlockFrames # 0 /\ BlockFrames # 1 /\ Blocks <= BlockFrames
  BY ContentAssumption
<1>2. Blocks >= 2 /\ BlockFrames >= 2 /\ AppBlocks \in Nat /\ AppBlocks \in Int /\ 1 <= AppBlocks
      /\ Blocks \in Int /\ 1 \in Int
  BY <1>1 DEF AppBlocks
<1>3. AppBlocks * BlockFrames \in Int /\ 1 * BlockFrames <= AppBlocks * BlockFrames
  BY <1>2, FramesOf
<1>4. AppBlocks * BlockFrames = CardFrames - BlockFrames /\ CardFrames \in Int
  BY <1>2, FramesOf DEF AppBlocks, CardFrames
<1>5. 1 * BlockFrames = BlockFrames
  BY <1>1
<1> QED BY <1>1, <1>2, <1>3, <1>4, <1>5

\* Whole blocks and a frame are not a card.
LEMMA NotCard ==
    ASSUME NEW n \in Nat, n % BlockFrames = 0
    PROVE  n + 1 # CardFrames
<1> SUFFICES ASSUME n + 1 = CardFrames PROVE FALSE
  OBVIOUS
<1>1. /\ BlockFrames \in Nat /\ BlockFrames >= 2 /\ AppBlocks \in Int /\ AppBlocks * BlockFrames \in Int
      /\ CardFrames = BlockFrames + AppBlocks * BlockFrames
  BY Sizes
<1>2. n = AppBlocks * BlockFrames + (BlockFrames - 1) /\ BlockFrames - 1 \in 0..BlockFrames - 1
  BY <1>1
<1>3. n % BlockFrames = BlockFrames - 1
  BY <1>1, <1>2, FrameDivisionIsUnique
<1> QED BY <1>1, <1>3

-----------------------------------------------------------------------------
(* Files and their kinds.                                                     *)

Made == {Blank, CardHead}
        \cup {DirectoryFrame(b, count, size) : b \in Nat, count \in Nat, size \in Nat}
AnyCell == Cells \cup Made
ContentFiles == {f \in Seq(AnyCell) : Len(f) > 0}

\* What a file of a kind looks like.
HasKind(f, kind) ==
    \/ kind = "card" /\ Len(f) = CardFrames
    \/ /\ kind = "gme" /\ f[1].kind = "gme" /\ Len(f) - 1 > 0 /\ (Len(f) - 1) % BlockFrames = 0
       /\ Len(f) - 1 <= CardFrames
    \/ /\ kind = "mcs" /\ f[1].kind = "entry" /\ f[1].size = Len(f) - 1
       /\ Len(f) - 1 > 0 /\ (Len(f) - 1) % BlockFrames = 0
       /\ Len(f) - 1 <= AppBlocks * BlockFrames /\ f[2].kind = "title"
    \/ /\ kind = "app" /\ Len(f) <= AppBlocks * BlockFrames /\ f[1].kind = "title"

LEMMA AfterHead ==
    ASSUME NEW S, NEW f \in Seq(S), Len(f) > 1
    PROVE  /\ After(f, 1) \in Seq(S) /\ Len(After(f, 1)) = Len(f) - 1
           /\ \A i \in 1..Len(f) - 1 : After(f, 1)[i] = f[i + 1]
<1>1. Len(f) \in Nat /\ 2 \in 1..Len(f) + 1 /\ \A i \in 1..Len(f) : f[i] \in S
  BY ElementOfSeq, LenProperties
<1>2. SubSeq(f, 2, Len(f)) \in Seq(S) /\ Len(SubSeq(f, 2, Len(f))) = Len(f) - 1
  BY <1>1
<1>3. \A i \in 1..Len(f) - 1 : SubSeq(f, 2, Len(f))[i] = f[i + 1]
  BY <1>1
<1> QED BY <1>2, <1>3 DEF After

LEMMA KindIs ==
    ASSUME NEW f \in ContentFiles, NEW kind \in {"card", "gme", "mcs", "app"}
    PROVE  IdentifyContent(f) = kind <=> HasKind(f, kind)
<1>1. f \in Seq(AnyCell) /\ Len(f) \in Nat /\ Len(f) > 0
  BY DEF ContentFiles
<1>2. Len(f) > 1 => Len(After(f, 1)) = Len(f) - 1 /\ After(f, 1)[1] = f[2]
  BY <1>1, AfterHead
<1>3. Len(f) - 1 > 0 /\ (Len(f) - 1) % BlockFrames = 0 => Len(f) # CardFrames
  BY <1>1, NotCard
<1>4. /\ AppBlocks * BlockFrames \in Nat /\ CardFrames \in Nat /\ BlockFrames >= 2
      /\ CardFrames = BlockFrames + AppBlocks * BlockFrames
  BY Sizes
<1> DEFINE gme == IsGme(f)
           mcs == IsMcsFrame(f) /\ BodyIsValid(After(f, 1))
           app == BodyIsValid(f)
<1>5. gme <=> /\ f[1].kind = "gme" /\ Len(f) - 1 > 0 /\ (Len(f) - 1) % BlockFrames = 0
              /\ Len(f) - 1 <= CardFrames
  BY DEF IsGme
<1>6. mcs <=> /\ f[1].kind = "entry" /\ f[1].size = Len(f) - 1
              /\ Len(f) - 1 > 0 /\ (Len(f) - 1) % BlockFrames = 0
              /\ Len(f) - 1 <= AppBlocks * BlockFrames /\ f[2].kind = "title"
  BY <1>1, <1>2 DEF IsMcsFrame, BodyIsValid
<1>7. app <=> Len(f) <= AppBlocks * BlockFrames /\ f[1].kind = "title"
  BY DEF BodyIsValid
<1>8. IdentifyContent(f) = CASE Len(f) = CardFrames -> "card"
                             [] Len(f) # CardFrames /\ gme -> "gme"
                             [] mcs -> "mcs"
                             [] Len(f) # CardFrames /\ app -> "app"
                             [] OTHER -> "unknown"
  BY DEF IdentifyContent
<1> HIDE DEF gme, mcs, app
<1>9. /\ gme => ~mcs /\ ~app /\ Len(f) # CardFrames
      /\ mcs => ~app /\ Len(f) # CardFrames
      /\ app => Len(f) # CardFrames
  <2>1. gme => ~mcs /\ ~app
    BY <1>5, <1>6, <1>7
  <2>2. (gme => Len(f) # CardFrames) /\ (mcs => Len(f) # CardFrames)
    BY <1>3, <1>5, <1>6
  <2>3. mcs => ~app
    BY <1>6, <1>7
  <2>4. app => Len(f) # CardFrames
    <3>1. app => Len(f) <= AppBlocks * BlockFrames
      BY <1>7
    <3> DEFINE total == AppBlocks * BlockFrames
    <3>2. total \in Nat /\ BlockFrames \in Nat /\ BlockFrames >= 2 /\ CardFrames = BlockFrames + total
      BY Sizes
    <3>3. app => Len(f) <= total
      BY <3>1
    <3> HIDE DEF total
    <3> QED BY <1>1, <3>2, <3>3
  <2> QED BY <2>1, <2>2, <2>3, <2>4
<1>10. /\ HasKind(f, "card") <=> Len(f) = CardFrames
       /\ HasKind(f, "gme") <=> gme
       /\ HasKind(f, "mcs") <=> mcs
       /\ HasKind(f, "app") <=> app
  BY <1>5, <1>6, <1>7 DEF HasKind
<1>11. CASE gme
  BY <1>8, <1>9, <1>10, <1>11
<1>12. CASE mcs
  BY <1>8, <1>9, <1>10, <1>12
<1>13. CASE app
  BY <1>8, <1>9, <1>10, <1>13
<1>14. CASE ~gme /\ ~mcs /\ ~app
  BY <1>8, <1>9, <1>10, <1>14
<1> QED BY <1>11, <1>12, <1>13, <1>14

-----------------------------------------------------------------------------
(* A card around an app.                                                      *)

LEMMA ConcatIs ==
    ASSUME NEW s \in Seq(AnyCell), NEW t \in Seq(AnyCell)
    PROVE  /\ s \o t \in Seq(AnyCell) /\ Len(s \o t) = Len(s) + Len(t)
           /\ \A i \in 1..Len(s) : (s \o t)[i] = s[i]
           /\ \A i \in 1..Len(t) : (s \o t)[Len(s) + i] = t[i]
<1>1. Len(s) \in Nat /\ Len(t) \in Nat
  OBVIOUS
<1>2. /\ s \o t \in Seq(AnyCell) /\ Len(s \o t) = Len(s) + Len(t)
      /\ \A i \in 1..Len(s) + Len(t) : (s \o t)[i] = IF i <= Len(s) THEN s[i] ELSE t[i - Len(s)]
  BY ConcatProperties
<1>3. ASSUME NEW i \in 1..Len(s) PROVE (s \o t)[i] = s[i]
  <2>1. i \in 1..Len(s) + Len(t) /\ i <= Len(s)
    BY <1>1
  <2> QED BY <1>2, <2>1
<1>4. ASSUME NEW i \in 1..Len(t) PROVE (s \o t)[Len(s) + i] = t[i]
  <2> DEFINE j == Len(s) + i
  <2>1. j \in 1..Len(s) + Len(t) /\ ~(j <= Len(s)) /\ j - Len(s) = i
    BY <1>1
  <2> HIDE DEF j
  <2>2. (s \o t)[j] = t[i]
    BY <1>2, <2>1
  <2> QED BY <2>2 DEF j
<1> QED BY <1>2, <1>3, <1>4

LEMMA BlanksAre ==
    ASSUME NEW n \in Nat
    PROVE  /\ Blanks(n) \in Seq(AnyCell) /\ Len(Blanks(n)) = n
           /\ \A i \in 1..n : Blanks(n)[i] = Blank
<1>1. Blank \in AnyCell
  BY DEF AnyCell, Made
<1>2. \A i \in 1..n : Blank \in AnyCell
  BY <1>1
<1> QED BY <1>2 DEF Blanks

LEMMA FlashImageIs ==
    ASSUME NEW image \in Seq(AnyCell), Len(image) <= CardFrames
    PROVE  /\ LoadFlashImage(image) \in Seq(AnyCell)
           /\ Len(LoadFlashImage(image)) = CardFrames
           /\ \A i \in 1..Len(image) : LoadFlashImage(image)[i] = image[i]
<1>1. Len(image) \in Nat /\ CardFrames \in Nat /\ CardFrames - Len(image) \in Nat
  BY Sizes
<1> DEFINE rest == Blanks(CardFrames - Len(image))
<1>2. rest \in Seq(AnyCell) /\ Len(rest) = CardFrames - Len(image)
  BY <1>1, BlanksAre
<1>3. LoadFlashImage(image) = image \o rest
  BY DEF LoadFlashImage
<1> HIDE DEF rest
<1>4. /\ image \o rest \in Seq(AnyCell) /\ Len(image \o rest) = Len(image) + Len(rest)
      /\ \A i \in 1..Len(image) : (image \o rest)[i] = image[i]
  BY <1>2, ConcatIs
<1> QED BY <1>1, <1>2, <1>3, <1>4

\* The blocks of a body, of which the last one can be in part empty.
BlocksOf(size) == (size + BlockFrames - 1) \div BlockFrames

LEMMA AppIs ==
    ASSUME NEW body \in Seq(AnyCell), Len(body) <= AppBlocks * BlockFrames
    PROVE  /\ LoadApp(body) \in Seq(AnyCell) /\ Len(LoadApp(body)) = CardFrames
           /\ \A b \in 1..AppBlocks :
                 LoadApp(body)[b + 1] = DirectoryFrame(b, BlocksOf(Len(body)), Len(body))
           /\ \A i \in 1..Len(body) : LoadApp(body)[BlockFrames + i] = body[i]
<1> DEFINE count == BlocksOf(Len(body))
           directory == [i \in 1..Blocks |->
                            IF i = 1 THEN CardHead ELSE DirectoryFrame(i - 1, count, Len(body))]
           gap == Blanks(BlockFrames - Blocks)
           image == directory \o gap \o body
<1>1. /\ Blocks \in Nat /\ BlockFrames \in Nat /\ BlockFrames >= 2 /\ BlockFrames - Blocks \in Nat
      /\ AppBlocks * BlockFrames \in Nat /\ CardFrames = BlockFrames + AppBlocks * BlockFrames
      /\ AppBlocks = Blocks - 1 /\ Len(body) \in Nat
  BY Sizes DEF AppBlocks
<1>2. count \in Nat
  <2> DEFINE n == Len(body) + BlockFrames - 1
  <2>1. n \in Nat /\ BlockFrames > 0
    BY <1>1
  <2> HIDE DEF n
  <2>2. n \div BlockFrames \in Nat
    BY <1>1, <2>1, SMTT(30)
  <2> QED BY <2>2 DEF n, BlocksOf
<1>3. LoadApp(body) = LoadFlashImage(image)
  BY DEF LoadApp, BlocksOf
<1> HIDE DEF count
<1>4. /\ directory \in Seq(AnyCell) /\ Len(directory) = Blocks
      /\ \A i \in 1..Blocks : directory[i] = IF i = 1 THEN CardHead
                                             ELSE DirectoryFrame(i - 1, count, Len(body))
  <2>1. ASSUME NEW i \in 1..Blocks
        PROVE  (IF i = 1 THEN CardHead ELSE DirectoryFrame(i - 1, count, Len(body))) \in AnyCell
    <3>1. CASE i = 1
      BY <3>1 DEF AnyCell, Made
    <3>2. CASE i # 1
      <4>1. i - 1 \in Nat
        BY <3>2
      <4>2. DirectoryFrame(i - 1, count, Len(body)) \in Made
        BY <1>1, <1>2, <4>1, SMT DEF Made
      <4> QED BY <3>2, <4>2 DEF AnyCell
    <3> QED BY <3>1, <3>2
  <2> QED BY <1>1, <2>1
<1>5. gap \in Seq(AnyCell) /\ Len(gap) = BlockFrames - Blocks
  BY <1>1, BlanksAre
<1> HIDE DEF directory, gap
<1>6. /\ directory \o gap \in Seq(AnyCell) /\ Len(directory \o gap) = BlockFrames
      /\ \A i \in 1..Blocks : (directory \o gap)[i] = directory[i]
  <2>1. /\ directory \o gap \in Seq(AnyCell) /\ Len(directory \o gap) = Len(directory) + Len(gap)
        /\ \A i \in 1..Len(directory) : (directory \o gap)[i] = directory[i]
    BY <1>4, <1>5, ConcatIs
  <2>2. Blocks + (BlockFrames - Blocks) = BlockFrames
    BY <1>1
  <2> QED BY <1>4, <1>5, <2>1, <2>2
<1> DEFINE front == directory \o gap
<1> HIDE DEF front
<1>7. /\ front \in Seq(AnyCell) /\ Len(front) = BlockFrames
       /\ \A i \in 1..Blocks : front[i] = directory[i]
  BY <1>6 DEF front
<1>8. /\ front \o body \in Seq(AnyCell) /\ Len(front \o body) = BlockFrames + Len(body)
      /\ \A i \in 1..BlockFrames : (front \o body)[i] = front[i]
      /\ \A i \in 1..Len(body) : (front \o body)[BlockFrames + i] = body[i]
  <2>1. /\ front \o body \in Seq(AnyCell) /\ Len(front \o body) = Len(front) + Len(body)
        /\ \A i \in 1..Len(front) : (front \o body)[i] = front[i]
        /\ \A i \in 1..Len(body) : (front \o body)[Len(front) + i] = body[i]
    BY <1>7, ConcatIs
  <2> QED BY <1>7, <2>1
<1>9. image = front \o body
  BY DEF front
<1> HIDE DEF image
<1>10. Len(image) \in Nat /\ Len(image) <= CardFrames
  BY <1>1, <1>8, <1>9
<1>11. /\ LoadApp(body) \in Seq(AnyCell) /\ Len(LoadApp(body)) = CardFrames
       /\ \A i \in 1..Len(image) : LoadApp(body)[i] = image[i]
  BY <1>3, <1>8, <1>9, <1>10, FlashImageIs
<1>12. ASSUME NEW b \in 1..AppBlocks
       PROVE  LoadApp(body)[b + 1] = DirectoryFrame(b, count, Len(body))
  <2>1. /\ b + 1 \in 1..Blocks /\ b + 1 \in 1..BlockFrames /\ b + 1 \in 1..Len(image)
        /\ b + 1 # 1 /\ b + 1 - 1 = b
    BY <1>1, <1>8, <1>9
  <2>2. LoadApp(body)[b + 1] = directory[b + 1]
    BY <1>8, <1>9, <1>11, <1>7, <2>1
  <2> QED BY <1>4, <2>1, <2>2
<1>13. ASSUME NEW i \in 1..Len(body)
       PROVE  LoadApp(body)[BlockFrames + i] = body[i]
  <2>1. BlockFrames + i \in 1..Len(image)
    BY <1>1, <1>8, <1>9
  <2> QED BY <1>8, <1>9, <1>11, <2>1
<1> QED BY <1>11, <1>12, <1>13 DEF count

Kinds == {"card", "gme", "mcs", "app"}

\* The cells of a file that go into the flash, and the cells of the flash before
\* them.
Body(f, kind) == IF kind \in {"gme", "mcs"} THEN After(f, 1) ELSE f
Base(kind)    == IF kind \in {"mcs", "app"} THEN BlockFrames ELSE 0

LEMMA BodyIs ==
    ASSUME NEW f \in ContentFiles, NEW kind \in Kinds, HasKind(f, kind)
    PROVE  /\ Body(f, kind) \in Seq(AnyCell) /\ Len(Body(f, kind)) \in Nat
           /\ Len(Body(f, kind)) > 0
           /\ kind \in {"card", "app"} => Body(f, kind) = f
           /\ kind \in {"gme", "mcs"} =>
                 /\ Len(f) > 1 /\ Body(f, kind) = After(f, 1)
                 /\ Len(Body(f, kind)) = Len(f) - 1
                 /\ \A i \in 1..Len(f) - 1 : Body(f, kind)[i] = f[i + 1]
           /\ kind \in {"card", "gme"} => Len(Body(f, kind)) <= CardFrames
           /\ kind \in {"mcs", "app"} => /\ Len(Body(f, kind)) <= AppBlocks * BlockFrames
                                         /\ Body(f, kind)[1].kind = "title"
           /\ Base(kind) \in Nat /\ Base(kind) + Len(Body(f, kind)) <= CardFrames
<1>1. f \in Seq(AnyCell) /\ Len(f) \in Nat /\ Len(f) > 0
  BY DEF ContentFiles
<1> DEFINE total == AppBlocks * BlockFrames
<1>2. total \in Nat /\ BlockFrames \in Nat /\ CardFrames \in Nat /\ CardFrames = BlockFrames + total
  BY Sizes
<1>3. /\ kind = "card" => Len(f) = CardFrames
      /\ kind = "gme" => Len(f) - 1 > 0 /\ Len(f) - 1 <= CardFrames
      /\ kind = "mcs" => Len(f) - 1 > 0 /\ Len(f) - 1 <= total /\ f[2].kind = "title"
      /\ kind = "app" => Len(f) <= total /\ f[1].kind = "title"
  BY DEF HasKind
<1> HIDE DEF total
<1>4. CASE kind \in {"card", "app"}
  <2>1. Body(f, kind) = f
    BY <1>4 DEF Body
  <2>2. Base(kind) = IF kind = "app" THEN BlockFrames ELSE 0
    BY <1>4 DEF Base
  <2> QED BY <1>1, <1>2, <1>3, <1>4, <2>1, <2>2 DEF total
<1>5. CASE kind \in {"gme", "mcs"}
  <2>1. Body(f, kind) = After(f, 1)
    BY <1>5 DEF Body
  <2>2. Len(f) > 1
    BY <1>1, <1>3, <1>5
  <2>3. /\ Body(f, kind) \in Seq(AnyCell) /\ Len(Body(f, kind)) = Len(f) - 1
        /\ \A i \in 1..Len(f) - 1 : Body(f, kind)[i] = f[i + 1]
    BY <1>1, <2>1, <2>2, AfterHead
  <2>4. Body(f, kind)[1] = f[2]
    BY <1>1, <2>2, <2>3
  <2>5. Base(kind) = IF kind = "mcs" THEN BlockFrames ELSE 0
    BY <1>5 DEF Base
  <2> QED BY <1>1, <1>2, <1>3, <1>5, <2>1, <2>2, <2>3, <2>4, <2>5 DEF total
<1> QED BY <1>4, <1>5 DEF Kinds

\* A load puts the cells of the file into the flash.
LEMMA LoadIs ==
    ASSUME NEW f \in ContentFiles, NEW kind \in Kinds, HasKind(f, kind)
    PROVE  /\ LoadContent(f) \in Seq(AnyCell) /\ Len(LoadContent(f)) = CardFrames
           /\ \A i \in 1..Len(Body(f, kind)) : LoadContent(f)[Base(kind) + i] = Body(f, kind)[i]
           /\ kind \in {"mcs", "app"} => LoadContent(f) = LoadApp(Body(f, kind))
<1>1. IdentifyContent(f) = kind
  BY KindIs DEF Kinds
<1> DEFINE body == Body(f, kind)
<1>2. /\ body \in Seq(AnyCell) /\ Len(body) \in Nat
      /\ kind \in {"card", "gme"} => Len(body) <= CardFrames
      /\ kind \in {"mcs", "app"} => Len(body) <= AppBlocks * BlockFrames
  BY BodyIs
<1>3. CASE kind \in {"card", "gme"}
  <2>1. LoadContent(f) = LoadFlashImage(body) /\ Base(kind) = 0
    BY <1>1, <1>3 DEF LoadContent, Body, Base
  <2> HIDE DEF body
  <2>2. /\ LoadFlashImage(body) \in Seq(AnyCell) /\ Len(LoadFlashImage(body)) = CardFrames
        /\ \A i \in 1..Len(body) : LoadFlashImage(body)[i] = body[i]
    BY <1>2, <1>3, FlashImageIs
  <2>3. \A i \in 1..Len(body) : 0 + i = i
    BY <1>2
  <2>4. kind \notin {"mcs", "app"}
    BY <1>3
  <2> QED BY <2>1, <2>2, <2>3, <2>4 DEF body
<1>4. CASE kind \in {"mcs", "app"}
  <2>1. LoadContent(f) = LoadApp(body) /\ Base(kind) = BlockFrames
    BY <1>1, <1>4 DEF LoadContent, Body, Base
  <2> HIDE DEF body
  <2>2. /\ LoadApp(body) \in Seq(AnyCell) /\ Len(LoadApp(body)) = CardFrames
        /\ \A i \in 1..Len(body) : LoadApp(body)[BlockFrames + i] = body[i]
    BY <1>2, <1>4, AppIs
  <2> QED BY <2>1, <2>2 DEF body
<1> QED BY <1>3, <1>4 DEF Kinds

-----------------------------------------------------------------------------
(* The write-back.                                                            *)

Loaded ==
    /\ opened \in ContentFiles
    /\ card \in Seq(AnyCell) /\ Len(card) = CardFrames
    /\ \A i \in 1..CardFrames : i \notin stores => card[i] = LoadContent(opened)[i]

Writes(kind) ==
    IF kind \in {"card", "gme"} THEN CardFrames ELSE Len(Body(opened, kind))

\* The part of the flash that a write-back takes.
LEMMA PartIs ==
    ASSUME NEW s \in Seq(AnyCell), NEW base \in Nat, NEW n \in Nat, base + n <= Len(s)
    PROVE  /\ Part(s, base + 1, base + n) \in Seq(AnyCell)
           /\ Len(Part(s, base + 1, base + n)) = n
           /\ \A i \in 1..n : Part(s, base + 1, base + n)[i] = s[base + i]
<1>1. Len(s) \in Nat /\ \A i \in 1..Len(s) : s[i] \in AnyCell
  BY ElementOfSeq, LenProperties
<1> DEFINE a == base + 1
           b == base + n
<1>2. a \in Int /\ b \in Int /\ \A i \in a..b : i \in 1..Len(s)
  BY <1>1
<1>3. a <= b => b - a + 1 = n
  BY DEF a, b
<1>4. ~(a <= b) => n = 0
  BY DEF a, b
<1>5. \A i \in 1..n : i \in 1..(b - a + 1) /\ a + i - 1 = base + i
  BY DEF a, b
<1> HIDE DEF a, b
<1>6. \A i \in a..b : s[i] \in AnyCell
  BY <1>1, <1>2
<1>7. /\ SubSeq(s, a, b) \in Seq(AnyCell)
      /\ Len(SubSeq(s, a, b)) = IF a <= b THEN b - a + 1 ELSE 0
      /\ \A i \in 1..b - a + 1 : SubSeq(s, a, b)[i] = s[a + i - 1]
  BY <1>2, <1>6, SubSeqProperties
<1>8. Len(SubSeq(s, a, b)) = n
  BY <1>3, <1>4, <1>7
<1>9. \A i \in 1..n : SubSeq(s, a, b)[i] = s[base + i]
  BY <1>5, <1>7
<1>10. Part(s, base + 1, base + n) = SubSeq(s, a, b)
  BY DEF Part, a, b
<1> QED BY <1>7, <1>8, <1>9, <1>10

LEMMA BuildIs ==
    ASSUME Loaded, NEW kind \in Kinds, HasKind(opened, kind)
    PROVE  /\ BuildFileImage \in ContentFiles
           /\ Body(BuildFileImage, kind) \in Seq(AnyCell)
           /\ Len(Body(BuildFileImage, kind)) = Writes(kind)
           /\ \A i \in 1..Writes(kind) : Body(BuildFileImage, kind)[i] = card[Base(kind) + i]
           /\ kind \in {"gme", "mcs"} => /\ BuildFileImage[1] = opened[1]
                                         /\ Len(BuildFileImage) = Writes(kind) + 1
<1>1. IdentifyContent(opened) = kind
  BY KindIs DEF Kinds, Loaded
<1>2. /\ opened \in ContentFiles /\ card \in Seq(AnyCell) /\ Len(card) = CardFrames
      /\ opened \in Seq(AnyCell) /\ Len(opened) \in Nat /\ Len(opened) > 0
      /\ opened[1] \in AnyCell
  <2>1. opened \in Seq(AnyCell) /\ Len(opened) > 0 /\ Len(opened) \in Nat
    BY DEF Loaded, ContentFiles
  <2>2. 1 \in 1..Len(opened)
    BY <2>1
  <2>3. opened[1] \in AnyCell
    BY <2>1, <2>2, ElementOfSeq
  <2> QED BY <2>1, <2>3 DEF Loaded
<1>3. /\ CardFrames \in Nat /\ CardFrames > 0 /\ BlockFrames \in Nat
  <2> DEFINE total == AppBlocks * BlockFrames
  <2>1. total \in Nat /\ BlockFrames \in Nat /\ BlockFrames >= 2 /\ CardFrames = BlockFrames + total
    BY Sizes
  <2> HIDE DEF total
  <2> QED BY <2>1
<1> DEFINE body == Body(opened, kind)
<1>4. /\ Len(body) \in Nat /\ Len(body) > 0 /\ Base(kind) \in Nat
      /\ Base(kind) + Len(body) <= CardFrames
      /\ kind = "app" => Len(body) = Len(opened)
      /\ kind = "mcs" => Len(body) = Len(opened) - 1
  BY <1>2, BodyIs
<1>5. kind \in {"card", "gme"} => Writes(kind) = CardFrames /\ Base(kind) = 0
  BY DEF Writes, Base
<1>6. kind \in {"mcs", "app"} => Writes(kind) = Len(body) /\ Base(kind) = BlockFrames
  BY DEF Writes, Base
<1> HIDE DEF body
\* What the write-back writes after the head of the file.
<1> DEFINE part == IF kind \in {"card", "gme"} THEN card
                   ELSE Part(card, BlockFrames + 1, BlockFrames + Len(body))
<1>7. /\ part \in Seq(AnyCell) /\ Len(part) = Writes(kind)
      /\ \A i \in 1..Writes(kind) : part[i] = card[Base(kind) + i]
  <2>1. CASE kind \in {"card", "gme"}
    <3>1. \A i \in 1..CardFrames : 0 + i = i
      BY <1>3
    <3> QED BY <1>2, <1>5, <2>1, <3>1
  <2>2. CASE kind \in {"mcs", "app"}
    <3>1. part = Part(card, BlockFrames + 1, BlockFrames + Len(body))
      BY <2>2
    <3>2. BlockFrames + Len(body) <= Len(card)
      BY <1>2, <1>4, <1>6, <2>2
    <3> QED BY <1>2, <1>3, <1>4, <1>6, <2>2, <3>1, <3>2, PartIs
  <2> QED BY <2>1, <2>2 DEF Kinds
<1>8. Writes(kind) \in Nat /\ Writes(kind) > 0
  BY <1>3, <1>4, <1>5, <1>6 DEF Kinds
<1>9. /\ kind \in {"card", "app"} => BuildFileImage = part
      /\ kind \in {"gme", "mcs"} => BuildFileImage = <<opened[1]>> \o part
  <2>1. kind = "mcs" => BlockFrames + Len(opened) - 1 = BlockFrames + Len(body)
    BY <1>2, <1>3, <1>4
  <2>2. kind = "app" => Len(body) = Len(opened)
    BY <1>4
  <2> QED BY <1>1, <2>1, <2>2 DEF BuildFileImage
<1> HIDE DEF part
<1>10. CASE kind \in {"card", "app"}
  <2>1. Body(BuildFileImage, kind) = part /\ BuildFileImage = part
    BY <1>9, <1>10 DEF Body
  <2>2. part \in ContentFiles
    BY <1>7, <1>8 DEF ContentFiles
  <2> QED BY <1>7, <1>10, <2>1, <2>2
<1>11. CASE kind \in {"gme", "mcs"}
  <2> DEFINE built == <<opened[1]>> \o part
  <2>1. <<opened[1]>> \in Seq(AnyCell) /\ Len(<<opened[1]>>) = 1 /\ <<opened[1]>>[1] = opened[1]
    BY <1>2
  <2> DEFINE head == <<opened[1]>>
  <2> HIDE DEF head
  <2>2. head \in Seq(AnyCell) /\ Len(head) = 1 /\ head[1] = opened[1]
    BY <2>1 DEF head
  <2>3. /\ head \o part \in Seq(AnyCell) /\ Len(head \o part) = 1 + Len(part)
        /\ (head \o part)[1] = head[1]
        /\ \A i \in 1..Len(part) : (head \o part)[1 + i] = part[i]
    <3>1. /\ head \o part \in Seq(AnyCell) /\ Len(head \o part) = Len(head) + Len(part)
          /\ \A i \in 1..Len(head) : (head \o part)[i] = head[i]
          /\ \A i \in 1..Len(part) : (head \o part)[Len(head) + i] = part[i]
      BY <1>7, <2>2, ConcatIs
    <3>2. 1 \in 1..Len(head) /\ Len(head) = 1
      BY <2>2
    <3> QED BY <3>1, <3>2
  <2>4. built = head \o part /\ BuildFileImage = built
    BY <1>9, <1>11 DEF head
  <2> HIDE DEF built
  <2>5. built \in Seq(AnyCell) /\ Len(built) = Writes(kind) + 1 /\ built[1] = opened[1]
    BY <1>7, <1>8, <2>2, <2>3, <2>4
  <2>6. Len(built) > 1 /\ Len(built) - 1 = Writes(kind)
    BY <1>8, <2>5
  <2>7. /\ After(built, 1) \in Seq(AnyCell) /\ Len(After(built, 1)) = Writes(kind)
        /\ \A i \in 1..Writes(kind) : After(built, 1)[i] = built[i + 1]
    BY <2>5, <2>6, AfterHead
  <2>8. \A i \in 1..Writes(kind) : i + 1 = 1 + i /\ built[1 + i] = part[i]
    BY <1>7, <1>8, <2>3, <2>4
  <2>9. Body(BuildFileImage, kind) = After(built, 1)
    BY <1>11, <2>4 DEF Body
  <2>10. built \in ContentFiles
    BY <2>5, <2>6 DEF ContentFiles
  <2> QED BY <1>7, <1>11, <2>4, <2>5, <2>7, <2>8, <2>9, <2>10
<1> QED BY <1>10, <1>11 DEF Kinds

\* The header of an app is in the flash.
Headed(kind) == kind \in {"mcs", "app"} => card[BlockFrames + 1].kind = "title"

LEMMA KindStays ==
    ASSUME Loaded, NEW kind \in Kinds, HasKind(opened, kind), Headed(kind)
    PROVE  HasKind(BuildFileImage, kind)
<1> DEFINE built == BuildFileImage
<1>1. /\ built \in ContentFiles /\ Len(Body(built, kind)) = Writes(kind)
      /\ \A i \in 1..Writes(kind) : Body(built, kind)[i] = card[Base(kind) + i]
      /\ kind \in {"gme", "mcs"} => built[1] = opened[1] /\ Len(built) = Writes(kind) + 1
  BY BuildIs
<1> HIDE DEF built
<1>2. built \in Seq(AnyCell) /\ Len(built) \in Nat /\ Len(built) > 0
  BY <1>1 DEF ContentFiles
<1>3. CASE kind = "card"
  <2>1. Body(built, kind) = built /\ Writes(kind) = CardFrames
    BY <1>3 DEF Body, Writes
  <2> QED BY <1>1, <1>3, <2>1 DEF HasKind, built
<1>4. CASE kind = "gme"
  <2>1. Writes(kind) = CardFrames /\ opened[1].kind = "gme"
    BY <1>4 DEF Writes, HasKind
  <2>2. CardFrames \in Nat /\ CardFrames > 0 /\ CardFrames % BlockFrames = 0
    <3>1. Blocks \in Int /\ Blocks * BlockFrames \in Int /\ BlockFrames \in Nat /\ BlockFrames >= 2
      BY Sizes, FramesOf
    <3>2. CardFrames \in Nat /\ CardFrames > 0
      <4> DEFINE total == AppBlocks * BlockFrames
      <4>1. total \in Nat /\ BlockFrames \in Nat /\ BlockFrames >= 2 /\ CardFrames = BlockFrames + total
        BY Sizes
      <4> HIDE DEF total
      <4> QED BY <4>1
    <3>3. 0 \in 0..BlockFrames - 1
      BY <3>1
    <3>4. (Blocks * BlockFrames + 0) % BlockFrames = 0
      BY <3>1, <3>3, FrameDivisionIsUnique
    <3> DEFINE n == Blocks * BlockFrames
    <3>5. n \in Int /\ n = CardFrames /\ (n + 0) % BlockFrames = 0
      BY <3>1, <3>4 DEF CardFrames
    <3> HIDE DEF n
    <3>6. n + 0 = n
      BY <3>5
    <3> QED BY <3>2, <3>5, <3>6
  <2>3. built[1].kind = "gme" /\ Len(built) - 1 = CardFrames
    BY <1>1, <1>4, <2>1, <2>2
  <2> QED BY <1>4, <2>2, <2>3 DEF HasKind, built
<1>5. ASSUME kind \in {"mcs", "app"} PROVE Body(built, kind)[1].kind = "title"
  <2>1. Writes(kind) = Len(Body(opened, kind)) /\ Base(kind) = BlockFrames
    BY <1>5 DEF Writes, Base
  <2>2. Len(Body(opened, kind)) \in Nat /\ Len(Body(opened, kind)) > 0
    BY BodyIs DEF Loaded
  <2>3. 1 \in 1..Writes(kind)
    BY <2>1, <2>2
  <2> QED BY <1>1, <1>5, <2>1, <2>3 DEF Headed
<1>6. CASE kind = "mcs"
  <2>1. /\ opened[1].kind = "entry" /\ opened[1].size = Len(opened) - 1 /\ Len(opened) - 1 > 0
        /\ (Len(opened) - 1) % BlockFrames = 0 /\ Len(opened) - 1 <= AppBlocks * BlockFrames
    BY <1>6 DEF HasKind
  <2>2. Writes(kind) = Len(opened) - 1 /\ Len(opened) \in Nat
    <3>1. opened \in ContentFiles
      BY DEF Loaded
    <3>2. Len(Body(opened, kind)) = Len(opened) - 1
      BY <1>6, <3>1, BodyIs
    <3>3. Writes(kind) = Len(Body(opened, kind))
      BY <1>6 DEF Writes
    <3> QED BY <3>1, <3>2, <3>3 DEF ContentFiles
  <2>3. Len(built) = Len(opened) /\ Len(built) > 1
    BY <1>1, <1>6, <2>1, <2>2
  <2>4. Body(built, kind) = After(built, 1)
    BY <1>6 DEF Body
  <2>5. After(built, 1)[1] = built[2]
    <3>1. /\ 1 \in 1..Len(built) - 1 /\ 1 + 1 = 2
          /\ \A i \in 1..Len(built) - 1 : After(built, 1)[i] = built[i + 1]
      BY <1>2, <2>3, AfterHead
    <3> QED BY <3>1
  <2>6. built[2].kind = "title" /\ built[1] = opened[1]
    BY <1>1, <1>5, <1>6, <2>4, <2>5
  <2> QED BY <1>6, <2>1, <2>3, <2>6 DEF HasKind, built
<1>7. CASE kind = "app"
  <2>1. Body(built, kind) = built /\ Body(opened, kind) = opened /\ Writes(kind) = Len(Body(opened, kind))
    BY <1>7 DEF Body, Writes
  <2>2. Len(opened) <= AppBlocks * BlockFrames
    BY <1>7 DEF HasKind
  <2>3. Len(built) = Len(opened) /\ built[1].kind = "title"
    BY <1>1, <1>5, <1>7, <2>1
  <2> QED BY <1>7, <2>2, <2>3 DEF HasKind, built
<1> QED BY <1>3, <1>4, <1>6, <1>7 DEF Kinds

LEMMA RegionIs ==
    ASSUME Loaded, NEW kind \in Kinds, HasKind(opened, kind), NEW i \in Region(opened)
    PROVE  /\ i - Base(kind) \in 1..Writes(kind) /\ i \in 1..CardFrames
           /\ Base(kind) + (i - Base(kind)) = i
<1>1. IdentifyContent(opened) = kind /\ opened \in ContentFiles /\ Len(opened) \in Nat
  BY KindIs DEF Kinds, Loaded, ContentFiles
<1>2. /\ kind \in {"card", "gme"} => Writes(kind) = CardFrames /\ Base(kind) = 0
      /\ kind \in {"mcs", "app"} => Writes(kind) = Len(Body(opened, kind)) /\ Base(kind) = BlockFrames
  BY DEF Writes, Base
<1>3. CardFrames \in Nat /\ BlockFrames \in Nat
  BY Sizes
<1>4. CASE kind \in {"card", "gme"}
  <2>1. i \in 1..CardFrames
    BY <1>1, <1>4 DEF Region
  <2> QED BY <1>2, <1>3, <1>4, <2>1
<1>5. CASE kind \in {"mcs", "app"}
  <2>1. /\ kind = "mcs" => Len(Body(opened, kind)) = Len(opened) - 1
        /\ kind = "app" => Len(Body(opened, kind)) = Len(opened)
        /\ BlockFrames + Len(Body(opened, kind)) <= CardFrames
    BY <1>1, <1>2, <1>5, BodyIs
  <2>2. /\ kind = "mcs" => i \in (BlockFrames + 1)..(BlockFrames + Len(opened) - 1)
        /\ kind = "app" => i \in (BlockFrames + 1)..(BlockFrames + Len(opened))
    BY <1>1, <1>5 DEF Region
  <2>3. i \in BlockFrames + 1..BlockFrames + Writes(kind)
    BY <1>1, <1>2, <1>3, <1>5, <2>1, <2>2
  <2> DEFINE w == Writes(kind)
  <2>4. w \in Int /\ BlockFrames + w <= CardFrames
    BY <1>1, <1>2, <1>5, <2>1
  <2> HIDE DEF w
  <2>5. i \in BlockFrames + 1..BlockFrames + w
    BY <2>3 DEF w
  <2>6. i - BlockFrames \in 1..w /\ i \in 1..CardFrames /\ BlockFrames + (i - BlockFrames) = i
    BY <1>3, <2>4, <2>5
  <2> QED BY <1>2, <1>5, <2>6 DEF w
<1> QED BY <1>4, <1>5 DEF Kinds

LEMMA HeadedIs ==
    ASSUME Loaded, NEW kind \in Kinds, HasKind(opened, kind)
    PROVE  CanStart <=> Headed(kind)
<1>1. IdentifyContent(opened) = kind
  BY KindIs DEF Kinds, Loaded
<1> QED BY <1>1 DEF CanStart, Headed, Kinds

LEMMA ReadsBackHolds ==
    ASSUME Loaded, NEW kind \in Kinds, HasKind(opened, kind)
    PROVE  ReadsBack
<1> SUFFICES ASSUME CanStart
             PROVE  /\ IdentifyContent(BuildFileImage) = IdentifyContent(opened)
                    /\ \A i \in Region(opened) : LoadContent(BuildFileImage)[i] = card[i]
  BY DEF ReadsBack
<1> DEFINE built == BuildFileImage
<1>1. built \in ContentFiles /\ HasKind(built, kind) /\ opened \in ContentFiles
  BY HeadedIs, KindStays, BuildIs DEF Loaded
<1>2. Len(Body(built, kind)) = Writes(kind) /\ \A i \in 1..Writes(kind) : Body(built, kind)[i] = card[Base(kind) + i]
  BY BuildIs
<1> HIDE DEF built
<1>3. IdentifyContent(built) = kind /\ IdentifyContent(opened) = kind
  BY <1>1, KindIs DEF Kinds
<1>4. \A i \in 1..Len(Body(built, kind)) : LoadContent(built)[Base(kind) + i] = Body(built, kind)[i]
  BY <1>1, LoadIs
<1>5. ASSUME NEW i \in Region(opened) PROVE LoadContent(built)[i] = card[i]
  <2>1. i - Base(kind) \in 1..Writes(kind) /\ Base(kind) + (i - Base(kind)) = i
    BY RegionIs
  <2> QED BY <1>2, <1>4, <2>1
<1> QED BY <1>3, <1>5 DEF built

-----------------------------------------------------------------------------
(* The identity.                                                              *)

LEMMA TitleIcons ==
    ASSUME NEW c \in AnyCell, c.kind = "title"
    PROVE  c.icons \in 0..3
<1>1. c \notin Made
  <2>1. c # Blank /\ c # CardHead
    BY DEF Blank, CardHead
  <2>2. ASSUME NEW b \in Nat, NEW count \in Nat, NEW size \in Nat
        PROVE  DirectoryFrame(b, count, size).kind = "entry"
    BY DEF DirectoryFrame, Entry
  <2>3. c \notin {DirectoryFrame(b, count, size) : b \in Nat, count \in Nat, size \in Nat}
    BY <2>2
  <2> QED BY <2>1, <2>3 DEF Made
<1> QED BY <1>1, ContentAssumption DEF AnyCell

\* The identity of an app reads four frames at most.
LEMMA TitleSame ==
    ASSUME NEW s \in Seq(AnyCell), NEW t \in Seq(AnyCell), Len(s) = Len(t), Len(s) > 0,
           s[1].kind = "title", \A i \in 1..Len(s) : i <= 4 => s[i] = t[i]
    PROVE  TitleIdentity(s) = TitleIdentity(t)
<1>1. Len(s) \in Nat /\ 1 \in 1..Len(s) /\ 1 <= 4 /\ s[1] \in AnyCell
  <2>1. Len(s) \in Nat /\ 1 \in 1..Len(s)
    OBVIOUS
  <2> QED BY <2>1, ElementOfSeq
<1>2. s[1] = t[1] /\ s[1].icons \in 0..3
  BY <1>1, TitleIcons
<1> DEFINE frames == IF s[1].icons < 1 THEN 1 ELSE s[1].icons
           end == IF 1 + frames > Len(s) THEN Len(s) ELSE 1 + frames
<1>3. end \in Nat /\ end <= 4 /\ end <= Len(s)
  <2> DEFINE icons == s[1].icons
             n == Len(s)
  <2>1. icons \in 0..3 /\ n \in Nat
    BY <1>1, <1>2
  <2> HIDE DEF icons, n
  <2>2. (IF icons < 1 THEN 1 ELSE icons) \in 1..3
    BY <2>1
  <2> DEFINE k == IF icons < 1 THEN 1 ELSE icons
  <2>3. k \in 1..3
    BY <2>2
  <2> HIDE DEF k
  <2>4. LET e == IF 1 + k > n THEN n ELSE 1 + k IN e \in Nat /\ e <= 4 /\ e <= n
    BY <2>1, <2>3
  <2> QED BY <2>4 DEF k, icons, n
<1>4. TitleIdentity(s) = Part(s, 1, end) /\ TitleIdentity(t) = Part(t, 1, end)
  BY <1>2 DEF TitleIdentity
<1> HIDE DEF end
<1>5. 0 \in Nat /\ 0 + 1 = 1 /\ 0 + end = end /\ \A i \in 1..end : 0 + i = i /\ i \in 1..Len(s) /\ i <= 4
  BY <1>1, <1>3
<1>6. /\ Part(s, 0 + 1, 0 + end) \in Seq(AnyCell) /\ Len(Part(s, 0 + 1, 0 + end)) = end
      /\ \A i \in 1..end : Part(s, 0 + 1, 0 + end)[i] = s[0 + i]
  BY <1>3, <1>5, PartIs
<1>7. /\ Part(t, 0 + 1, 0 + end) \in Seq(AnyCell) /\ Len(Part(t, 0 + 1, 0 + end)) = end
      /\ \A i \in 1..end : Part(t, 0 + 1, 0 + end)[i] = t[0 + i]
  BY <1>3, <1>5, PartIs
<1> DEFINE a == Part(s, 1, end)
           b == Part(t, 1, end)
<1>8. a \in Seq(AnyCell) /\ b \in Seq(AnyCell) /\ Len(a) = end /\ Len(b) = end
  BY <1>5, <1>6, <1>7
<1>9. \A i \in 1..end : a[i] = b[i]
  BY <1>5, <1>6, <1>7
<1> HIDE DEF a, b
<1>10. a = b
  BY <1>8, <1>9, SeqEqual
<1> QED BY <1>4, <1>10 DEF a, b

\* A cell of the file that no store wrote is in the flash as it was.
LEMMA KeptCells ==
    ASSUME Loaded, NEW kind \in Kinds, HasKind(opened, kind),
           NEW i \in 1..Len(Body(opened, kind)), Base(kind) + i \notin stores
    PROVE  card[Base(kind) + i] = Body(opened, kind)[i]
<1>1. opened \in ContentFiles
  BY DEF Loaded
<1>2. /\ Len(Body(opened, kind)) \in Nat /\ Base(kind) \in Nat
      /\ Base(kind) + Len(Body(opened, kind)) <= CardFrames
  BY <1>1, BodyIs
<1>3. Base(kind) + i \in 1..CardFrames
  BY <1>2, Sizes
<1>4. LoadContent(opened)[Base(kind) + i] = Body(opened, kind)[i]
  BY <1>1, LoadIs
<1> QED BY <1>3, <1>4 DEF Loaded

LEMMA KeepsIdentityHolds ==
    ASSUME Loaded, NEW kind \in Kinds, HasKind(opened, kind)
    PROVE  KeepsIdentity
<1> SUFFICES ASSUME stores \cap IdentityCells = {}
             PROVE  ContentIdentity(BuildFileImage) = ContentIdentity(opened)
  BY DEF KeepsIdentity
<1> DEFINE built == BuildFileImage
           before == Body(opened, kind)
           after == Body(built, kind)
<1>1. opened \in ContentFiles /\ IdentifyContent(opened) = kind
  BY KindIs DEF Kinds, Loaded
<1>2. IdentityCells = IF kind \in {"card", "gme"} THEN 2..Blocks ELSE (BlockFrames + 1)..(BlockFrames + 4)
  BY <1>1 DEF IdentityCells
<1>3. /\ before \in Seq(AnyCell) /\ Len(before) \in Nat /\ Len(before) > 0
      /\ kind \in {"mcs", "app"} => before[1].kind = "title"
      /\ kind \in {"card", "app"} => before = opened
      /\ kind \in {"gme", "mcs"} => before = After(opened, 1) /\ Len(before) = Len(opened) - 1
  BY <1>1, BodyIs
<1>4. /\ built \in ContentFiles /\ after \in Seq(AnyCell) /\ Len(after) = Writes(kind)
      /\ \A i \in 1..Writes(kind) : after[i] = card[Base(kind) + i]
      /\ kind \in {"gme", "mcs"} => built[1] = opened[1]
  BY BuildIs
<1>5. \A i \in 1..Len(before) : Base(kind) + i \notin stores => card[Base(kind) + i] = before[i]
  BY KeptCells
<1>6. /\ kind \in {"card", "app"} => after = built
      /\ kind \in {"gme", "mcs"} => after = After(built, 1)
  BY DEF Body
<1>7. /\ Base(kind) = IF kind \in {"mcs", "app"} THEN BlockFrames ELSE 0
      /\ Writes(kind) = IF kind \in {"card", "gme"} THEN CardFrames ELSE Len(before)
  BY DEF Base, Writes
<1>8. kind = "card" => Len(before) = CardFrames
  BY <1>3 DEF HasKind
<1>9. kind = "gme" => Len(before) > 0 /\ Len(before) % BlockFrames = 0
  BY <1>3 DEF HasKind
<1> HIDE DEF built, before, after
<1>10. CASE kind \in {"card", "gme"}
  <2>1. Len(before) >= Blocks /\ CardFrames >= Blocks
    <3>1. CardFrames >= Blocks /\ Blocks <= BlockFrames
      <4> DEFINE total == AppBlocks * BlockFrames
      <4>1. /\ total \in Nat /\ BlockFrames \in Nat /\ Blocks \in Nat /\ Blocks <= BlockFrames
            /\ CardFrames = BlockFrames + total
        BY Sizes
      <4> HIDE DEF total
      <4> QED BY <4>1
    <3>2. CASE kind = "card"
      BY <1>8, <3>1, <3>2
    <3>3. CASE kind = "gme"
      <4> DEFINE n == Len(before)
      <4>1. n \in Nat /\ n > 0 /\ n % BlockFrames = 0 /\ BlockFrames \in Nat /\ BlockFrames >= 2
            /\ Blocks \in Nat /\ Blocks <= BlockFrames
        BY <1>3, <1>9, <3>3, Sizes
      <4> HIDE DEF n
      <4>2. n >= BlockFrames
        <5>1. BlockFrames > n => n % BlockFrames = n
          <6> SUFFICES ASSUME BlockFrames > n PROVE n % BlockFrames = n
            OBVIOUS
          <6>1. n \in 0..BlockFrames - 1 /\ 0 \in Int
            BY <4>1
          <6>2. (0 * BlockFrames + n) % BlockFrames = n
            BY <6>1, FrameDivisionIsUnique
          <6>3. 0 * BlockFrames + n = n
            BY <4>1
          <6> QED BY <6>2, <6>3
        <5> QED BY <4>1, <5>1
      <4>3. n >= Blocks
        BY <4>1, <4>2
      <4> QED BY <3>1, <4>3 DEF n
    <3> QED BY <1>10, <3>2, <3>3
  <2>2. ASSUME NEW i \in 1..Blocks - 1
        PROVE  after[i + 1] = before[i + 1]
    <3>1. /\ i + 1 \in 2..Blocks /\ 0 + (i + 1) = i + 1
          /\ i + 1 \in 1..Len(before) /\ i + 1 \in 1..CardFrames
      BY <1>3, <2>1, Sizes
    <3>2. i + 1 \notin stores
      BY <1>2, <1>10, <3>1
    <3>3. Base(kind) = 0 /\ Writes(kind) = CardFrames
      BY <1>7, <1>10
    <3> DEFINE j == i + 1
    <3>4. j \in 1..Len(before) /\ j \in 1..CardFrames /\ j \notin stores /\ 0 + j = j
      BY <3>1, <3>2
    <3> HIDE DEF j
    <3>5. card[j] = before[j] /\ after[j] = card[j]
      BY <1>4, <1>5, <3>3, <3>4
    <3> QED BY <3>5 DEF j
  <2>3. DirectoryIdentity(after) = DirectoryIdentity(before)
    BY <2>2 DEF DirectoryIdentity
  <2>4. Headed(kind)
    BY <1>10 DEF Headed
  <2>5. IdentifyContent(built) = kind
    BY <1>4, <2>4, KindStays, KindIs DEF Kinds, built
  <2>6. ContentIdentity(opened) = DirectoryIdentity(before)
    BY <1>1, <1>3, <1>10 DEF ContentIdentity
  <2>7. ContentIdentity(built) = DirectoryIdentity(after)
    BY <1>6, <1>10, <2>5 DEF ContentIdentity
  <2> QED BY <2>3, <2>6, <2>7 DEF built
<1>11. CASE kind \in {"mcs", "app"}
  <2>1. Base(kind) = BlockFrames /\ Writes(kind) = Len(before) /\ BlockFrames \in Nat
    BY <1>7, <1>11, Sizes
  <2>2. ASSUME NEW i \in 1..Len(before), i <= 4
        PROVE  /\ card[BlockFrames + i] = before[i] /\ after[i] = before[i]
    <3>1. BlockFrames + i \in (BlockFrames + 1)..(BlockFrames + 4)
      BY <1>3, <2>1, <2>2
    <3>2. BlockFrames + i \notin stores
      BY <1>2, <1>11, <3>1
    <3> QED BY <1>4, <1>5, <2>1, <3>2
  <2>3. TitleIdentity(before) = TitleIdentity(after)
    <3>1. /\ Len(before) = Len(after) /\ before[1].kind = "title"
          /\ \A i \in 1..Len(before) : i <= 4 => before[i] = after[i]
      BY <1>3, <1>4, <1>11, <2>1, <2>2
    <3> QED BY <1>3, <1>4, <3>1, TitleSame
  <2>4. Headed(kind)
    <3>1. 1 \in 1..Len(before) /\ 1 <= 4
      BY <1>3
    <3>2. card[BlockFrames + 1] = before[1]
      BY <2>2, <3>1
    <3> QED BY <1>3, <1>11, <3>2 DEF Headed
  <2>5. IdentifyContent(built) = kind
    BY <1>4, <2>4, KindStays, KindIs DEF Kinds, built
  <2>6. kind = "mcs" => ContentIdentity(built) = ContentIdentity(opened)
    BY <1>1, <1>3, <1>4, <1>6, <2>3, <2>5 DEF ContentIdentity
  <2>7. kind = "app" => ContentIdentity(built) = ContentIdentity(opened)
    BY <1>1, <1>3, <1>6, <2>3, <2>5 DEF ContentIdentity
  <2> QED BY <1>11, <2>6, <2>7 DEF built
<1> QED BY <1>10, <1>11 DEF Kinds

-----------------------------------------------------------------------------
(* The directory of an app.                                                   *)

LEMMA NatIsLeast ==
    ASSUME NEW S, 0 \in S, \A n \in Nat : n \in S => n + 1 \in S
    PROVE  Nat \subseteq S
<1> DEFINE R == OpToRel(<, Nat)
<1>0. IsWellFoundedOn(R, Nat) BY NatLessThanWellFounded
<1>1. SUFFICES ASSUME Nat \ S # {} PROVE FALSE
  OBVIOUS
<1> HIDE DEF R
<1>2. PICK x \in Nat \ S : \A y \in Nat \ S : ~(<<y, x>> \in R)
  BY <1>0, <1>1, WFMin
<1>3. x # 0 /\ x - 1 \in Nat
  BY <1>2
<1>4. x - 1 \notin S
  BY <1>2, <1>3
<1>5. <<x - 1, x>> \in R
  BY <1>2, <1>3 DEF R, OpToRel
<1> QED BY <1>2, <1>3, <1>4, <1>5

\* The blocks in the order in which the directory links them.
List(count, c) ==
    CHOOSE f : f = [n \in 1..count |-> IF n = 1 THEN 1 ELSE c[f[n - 1] + 1].next + 1]

\* A list in which each block but the last links to the next one is in order.
LEMMA ListInOrder ==
    ASSUME NEW count \in Nat, NEW c, \A b \in 1..count - 1 : c[b + 1].next = b
    PROVE  \A n \in 1..count : List(count, c)[n] = n
<1> DEFINE g == List(count, c)
<1> DEFINE Step(f) == [n \in 1..count |-> IF n = 1 THEN 1 ELSE c[f[n - 1] + 1].next + 1]
           straight == [n \in 1..count |-> n]
<1>1. ASSUME NEW n \in 1..count, n # 1
      PROVE  n - 1 \in 1..count - 1 /\ n - 1 \in 1..count /\ c[(n - 1) + 1].next + 1 = n
  <2>1. n - 1 \in 1..count - 1 /\ n - 1 \in 1..count /\ n - 1 + 1 = n
    BY <1>1
  <2> DEFINE b == n - 1
  <2>2. b \in 1..count - 1 /\ b + 1 = n
    BY <2>1
  <2> HIDE DEF b
  <2>3. c[b + 1].next = b
    BY <2>2
  <2> QED BY <2>1, <2>2, <2>3 DEF b
<1>2. straight = Step(straight)
  <2>1. ASSUME NEW n \in 1..count
        PROVE  straight[n] = IF n = 1 THEN 1 ELSE c[straight[n - 1] + 1].next + 1
    <3>1. CASE n = 1
      BY <3>1
    <3>2. CASE n # 1
      <4>1. straight[n - 1] = n - 1
        BY <1>1, <3>2
      <4> QED BY <1>1, <3>2, <4>1
    <3> QED BY <3>1, <3>2
  <2> QED BY <2>1
<1>3. g = Step(g)
  <2>1. \E f : f = Step(f)
    BY <1>2
  <2>2. g = CHOOSE f : f = Step(f)
    BY DEF List
  <2> HIDE DEF Step
  <2> QED BY <2>1, <2>2
<1> HIDE DEF g
<1>4. ASSUME NEW n \in 1..count
      PROVE  g[n] = IF n = 1 THEN 1 ELSE c[g[n - 1] + 1].next + 1
  <2> DEFINE e(n_) == IF n_ = 1 THEN 1 ELSE c[g[n_ - 1] + 1].next + 1
  <2>1. g = [n_ \in 1..count |-> e(n_)]
    BY <1>3
  <2> HIDE DEF e
  <2>2. g[n] = e(n)
    BY <2>1
  <2> QED BY <2>2 DEF e
<1> DEFINE S == {n \in Nat : n \in 1..count => g[n] = n}
<1>5. 0 \in S
  OBVIOUS
<1>6. ASSUME NEW n \in Nat, n \in S PROVE n + 1 \in S
  <2> DEFINE m == n + 1
  <2>1. m \in Nat /\ m - 1 = n
    BY <1>6
  <2>2. SUFFICES ASSUME m \in 1..count PROVE g[m] = m
    BY <2>1
  <2> HIDE DEF m
  <2>3. CASE m = 1
    BY <1>4, <2>2, <2>3
  <2>4. CASE m # 1
    <3>1. m - 1 \in 1..count /\ c[(m - 1) + 1].next + 1 = m
      BY <1>1, <2>2, <2>4
    <3>2. g[m - 1] = m - 1
      BY <1>6, <2>1, <3>1
    <3>3. g[m] = c[g[m - 1] + 1].next + 1
      BY <1>4, <2>2, <2>4
    <3> QED BY <3>1, <3>2, <3>3
  <2> QED BY <2>3, <2>4
<1> HIDE DEF S
<1>7. Nat \subseteq S
  BY <1>5, <1>6, NatIsLeast
<1>8. ASSUME NEW n \in 1..count PROVE g[n] = n
  <2>1. n \in Nat
    OBVIOUS
  <2>2. n \in S
    BY <1>7, <2>1
  <2> QED BY <2>2 DEF S
<1> QED BY <1>8 DEF g

\* The blocks of an app of size frames, which fit the card.
LEMMA BlocksAre ==
    ASSUME NEW size \in Nat, size > 0, size <= AppBlocks * BlockFrames
    PROVE  /\ size \div BlockFrames + (IF size % BlockFrames = 0 THEN 0 ELSE 1) = BlocksOf(size)
           /\ BlocksOf(size) \in 1..AppBlocks
           /\ size <= BlocksOf(size) * BlockFrames
<1> DEFINE q == size \div BlockFrames
           r == size % BlockFrames
           total == AppBlocks * BlockFrames
           base == q * BlockFrames
<1>1. BlockFrames \in Nat /\ BlockFrames >= 2 /\ AppBlocks \in Nat /\ total \in Nat
  BY Sizes
<1>2. size \in Int /\ q \in Int /\ r \in 0..BlockFrames - 1 /\ size = base + r
  BY FrameDivision
<1>3. /\ base \in Int /\ (q + 1) * BlockFrames = base + BlockFrames
      /\ AppBlocks <= q <=> total <= base
      /\ AppBlocks < q => total + BlockFrames <= base
      /\ 0 * BlockFrames = 0
      /\ q <= 0 <=> base <= 0 * BlockFrames
      /\ q < 0 => base + BlockFrames <= 0 * BlockFrames
  BY <1>1, <1>2, FramesOf
<1>4. q = size \div BlockFrames /\ r = size % BlockFrames
  OBVIOUS
<1>5. q * BlockFrames = base
  OBVIOUS
<1>6. size <= total
  OBVIOUS
<1> HIDE DEF base, total
<1>7. CASE r = 0
  <2>1. size + BlockFrames - 1 = q * BlockFrames + (BlockFrames - 1) /\ BlockFrames - 1 \in 0..BlockFrames - 1
    BY <1>1, <1>2, <1>3, <1>5, <1>7
  <2>2. BlocksOf(size) = q
    BY <1>2, <2>1, FrameDivisionIsUnique DEF BlocksOf
  <2> HIDE DEF q, r
  <2>3. q \in 1..AppBlocks /\ size <= base /\ q + 0 = q
    BY <1>1, <1>2, <1>3, <1>6, <1>7
  <2> QED BY <1>4, <1>5, <1>7, <2>2, <2>3
<1>8. CASE r # 0
  <2>1. /\ size + BlockFrames - 1 = (q + 1) * BlockFrames + (r - 1) /\ r - 1 \in 0..BlockFrames - 1
        /\ q + 1 \in Int
    BY <1>1, <1>2, <1>3, <1>8
  <2>2. BlocksOf(size) = q + 1
    BY <2>1, FrameDivisionIsUnique DEF BlocksOf
  <2> HIDE DEF q, r
  <2>3. q + 1 \in 1..AppBlocks /\ size <= base + BlockFrames
    BY <1>1, <1>2, <1>3, <1>6, <1>8
  <2> QED BY <1>3, <1>4, <1>8, <2>2, <2>3
<1> QED BY <1>7, <1>8

\* Cell i of a body is in its block, at its place.
LEMMA PlaceIs ==
    ASSUME NEW size \in Nat, size > 0, size <= AppBlocks * BlockFrames, NEW i \in 1..size
    PROVE  /\ (i - 1) \div BlockFrames + 1 \in 1..BlocksOf(size)
           /\ ((i - 1) \div BlockFrames + 1) * BlockFrames + ((i - 1) % BlockFrames) + 1 = BlockFrames + i
<1> DEFINE e == i - 1
           p == e \div BlockFrames
           s == e % BlockFrames
           k == BlocksOf(size)
           start == p * BlockFrames
           top == k * BlockFrames
<1>1. BlockFrames \in Nat /\ BlockFrames >= 2 /\ k \in Nat /\ size <= top
  BY Sizes, BlocksAre
<1>2. e \in Int /\ p \in Int /\ s \in 0..BlockFrames - 1 /\ e = start + s
  BY FrameDivision
<1>3. /\ start \in Int /\ top \in Int /\ (p + 1) * BlockFrames = start + BlockFrames
      /\ k <= p <=> top <= start
      /\ 0 * BlockFrames = 0
      /\ p < 0 => start + BlockFrames <= 0 * BlockFrames
  BY <1>1, <1>2, FramesOf
<1>4. e = i - 1 /\ e >= 0 /\ e < size
  OBVIOUS
<1> DEFINE next == (p + 1) * BlockFrames
<1>5. next = start + BlockFrames
  BY <1>3
<1> HIDE DEF e, p, s, k, start, top, next
<1>6. p + 1 \in 1..k
  BY <1>1, <1>2, <1>3, <1>4
<1>7. next + s + 1 = BlockFrames + i
  BY <1>1, <1>2, <1>3, <1>4, <1>5
<1> QED BY <1>6, <1>7 DEF e, p, s, k, next

LEMMA FrameIs ==
    ASSUME NEW count \in Nat, NEW b \in 1..count, NEW size
    PROVE  /\ DirectoryFrame(b, count, size).next = IF b < count THEN b ELSE NoBlock
           /\ b = 1 => /\ DirectoryFrame(b, count, size).size = size
                       /\ DirectoryFrame(b, count, size).pocket
<1>1. ~(b > count)
  OBVIOUS
<1> QED BY <1>1 DEF DirectoryFrame, Entry

LEMMA DirectoryLeadsHolds ==
    ASSUME Loaded, NEW kind \in Kinds, HasKind(opened, kind)
    PROVE  DirectoryLeads
<1>1. opened \in ContentFiles /\ IdentifyContent(opened) = kind
  BY KindIs DEF Kinds, Loaded
<1> SUFFICES ASSUME kind \in {"mcs", "app"}, stores = {} PROVE DirectoryLeads
  BY <1>1 DEF DirectoryLeads
<1> DEFINE body == Body(opened, kind)
           size == Len(body)
           blocks == BlocksOf(size)
<1>2. /\ body \in Seq(AnyCell) /\ size \in Nat /\ size > 0 /\ size <= AppBlocks * BlockFrames
      /\ BlockFrames + size <= CardFrames
  BY <1>1, BodyIs DEF Base
<1>3. LoadContent(opened) = LoadApp(body)
  BY <1>1, LoadIs
<1>4. \A i \in 1..CardFrames : card[i] = LoadApp(body)[i]
  BY <1>3 DEF Loaded
<1>5. blocks \in 1..AppBlocks /\ blocks \in Nat
  BY <1>2, BlocksAre
<1>6. body = IF IdentifyContent(opened) = "mcs" THEN After(opened, 1) ELSE opened
  BY <1>1 DEF Body
<1>7. size \div BlockFrames + (IF size % BlockFrames = 0 THEN 0 ELSE 1) = blocks
  BY <1>2, BlocksAre
<1>8. ASSUME NEW i \in 1..size
      PROVE  /\ (i - 1) \div BlockFrames + 1 \in 1..blocks
             /\ ((i - 1) \div BlockFrames + 1) * BlockFrames + ((i - 1) % BlockFrames) + 1 = BlockFrames + i
  BY <1>2, PlaceIs
<1> HIDE DEF body
<1>9. /\ \A b \in 1..AppBlocks : LoadApp(body)[b + 1] = DirectoryFrame(b, blocks, size)
      /\ \A i \in 1..size : LoadApp(body)[BlockFrames + i] = body[i]
  BY <1>2, AppIs
<1> HIDE DEF blocks
<1>10. ASSUME NEW b \in 1..AppBlocks PROVE card[b + 1] = DirectoryFrame(b, blocks, size)
  <2>1. b + 1 \in 1..CardFrames
    <3> DEFINE total == AppBlocks * BlockFrames
    <3>1. /\ total \in Nat /\ BlockFrames \in Nat /\ Blocks \in Nat /\ Blocks <= BlockFrames
          /\ CardFrames = BlockFrames + total /\ AppBlocks = Blocks - 1
      BY Sizes DEF AppBlocks
    <3> HIDE DEF total
    <3> QED BY <3>1
  <2> QED BY <1>4, <1>9, <2>1
<1>11. ASSUME NEW i \in 1..size PROVE card[BlockFrames + i] = body[i]
  <2>1. BlockFrames + i \in 1..CardFrames
    BY <1>2, Sizes
  <2> QED BY <1>4, <1>9, <2>1
<1> DEFINE count == card[2].size \div BlockFrames + (IF card[2].size % BlockFrames = 0 THEN 0 ELSE 1)
<1>12. card[2].size = size /\ card[2].pocket /\ count = blocks
  <2>1. 1 \in 1..AppBlocks /\ 1 + 1 = 2 /\ 1 \in 1..blocks
    BY <1>5, Sizes
  <2>2. card[2] = DirectoryFrame(1, blocks, size)
    BY <1>10, <2>1
  <2>3. card[2].size = size /\ card[2].pocket
    BY <1>5, <2>1, <2>2, FrameIs
  <2> QED BY <1>7, <2>3
<1>13. card[blocks + 1].next = NoBlock
  <2>1. blocks \in 1..blocks /\ ~(blocks < blocks)
    BY <1>5
  <2>2. DirectoryFrame(blocks, blocks, size).next = NoBlock
    BY <1>5, <2>1, FrameIs
  <2> QED BY <1>5, <1>10, <2>2
<1>14. \A b \in 1..blocks - 1 : card[b + 1].next = b
  <2> TAKE b \in 1..blocks - 1
  <2>1. b \in 1..AppBlocks /\ b \in 1..blocks /\ b < blocks
    BY <1>5, Sizes
  <2>2. DirectoryFrame(b, blocks, size).next = b
    BY <1>5, <2>1, FrameIs
  <2> QED BY <1>10, <2>1, <2>2
<1> DEFINE block == CHOOSE f : f = [n \in 1..count |-> IF n = 1 THEN 1 ELSE card[f[n - 1] + 1].next + 1]
<1>15. \A n \in 1..blocks : block[n] = n
  <2>1. block = List(count, card)
    BY DEF List
  <2> HIDE DEF block
  <2>2. \A n \in 1..blocks : List(blocks, card)[n] = n
    BY <1>5, <1>14, ListInOrder
  <2> QED BY <1>12, <2>1, <2>2
<1> HIDE DEF block
<1>16. card[block[count] + 1].next = NoBlock
  BY <1>5, <1>12, <1>13, <1>15
<1>17. ASSUME NEW i \in 1..size
       PROVE  card[block[(i - 1) \div BlockFrames + 1] * BlockFrames + ((i - 1) % BlockFrames) + 1] = body[i]
  <2>1. block[(i - 1) \div BlockFrames + 1] = (i - 1) \div BlockFrames + 1
    BY <1>8, <1>15
  <2> QED BY <1>8, <1>11, <2>1
<1> QED BY <1>6, <1>12, <1>16, <1>17 DEF DirectoryLeads, block

-----------------------------------------------------------------------------
(* Sessions.                                                                  *)

ContentInv ==
    /\ userFile = <<>> \/ userFile \in ContentFiles
    /\ \/ opened = <<>>
       \/ Loaded /\ \E kind \in Kinds : HasKind(opened, kind)

LEMMA InputsAreFiles ==
    Inputs \subseteq ContentFiles
<1> SUFFICES ASSUME NEW f \in Inputs PROVE f \in ContentFiles
  OBVIOUS
<1>1. f \in Seq(Cells) /\ Len(f) > 0
  BY ContentAssumption
<1>2. Cells \subseteq AnyCell
  BY DEF AnyCell
<1>3. f \in Seq(AnyCell)
  BY <1>1, <1>2, SeqMonotonic
<1> QED BY <1>1, <1>3 DEF ContentFiles

LEMMA ContentStart == ContentInit => ContentInv
<1> SUFFICES ASSUME ContentInit PROVE ContentInv
  OBVIOUS
<1>1. userFile = <<>> /\ opened = <<>>
  BY DEF ContentInit
<1> QED BY <1>1 DEF ContentInv

LEMMA OpenIs ==
    ASSUME ContentInv, OpenUserFile
    PROVE  ContentInv'
<1>1. /\ userFile \in ContentFiles /\ IdentifyContent(userFile) # "unknown"
      /\ opened' = userFile /\ card' = LoadContent(userFile) /\ userFile' = userFile /\ stores' = {}
  BY DEF ContentInv, OpenUserFile
<1>2. IdentifyContent(userFile) \in Kinds
  BY <1>1 DEF IdentifyContent, Kinds
<1>3. PICK kind \in Kinds : IdentifyContent(userFile) = kind
  BY <1>2
<1>4. HasKind(userFile, kind)
  BY <1>1, <1>3, KindIs DEF Kinds
<1>5. LoadContent(userFile) \in Seq(AnyCell) /\ Len(LoadContent(userFile)) = CardFrames
  BY <1>1, <1>4, LoadIs
<1>6. Loaded'
  <2>1. opened' \in ContentFiles /\ card' \in Seq(AnyCell) /\ Len(card') = CardFrames
    BY <1>1, <1>5
  <2>2. LoadContent(opened') = card'
    BY <1>1
  <2> QED BY <2>1, <2>2 DEF Loaded
<1>7. HasKind(opened', kind)
  BY <1>1, <1>4
<1> QED BY <1>1, <1>6, <1>7 DEF ContentInv

LEMMA StoreIs ==
    ASSUME ContentInv, NEW n \in 1..CardFrames, NEW cell \in Stores, StoreCell(n, cell)
    PROVE  ContentInv'
<1>1. /\ Loaded /\ opened' = opened /\ userFile' = userFile
      /\ stores' = stores \cup {n} /\ card' = [card EXCEPT ![n] = cell]
      /\ \E kind \in Kinds : HasKind(opened, kind)
  BY DEF ContentInv, StoreCell
<1>2. cell \in AnyCell
  BY DEF AnyCell, Cells
<1>3. card \in Seq(AnyCell) /\ Len(card) = CardFrames /\ n \in 1..Len(card)
  BY <1>1 DEF Loaded
<1>4. /\ card' \in Seq(AnyCell) /\ Len(card') = CardFrames
      /\ \A i \in 1..CardFrames : card'[i] = IF i = n THEN cell ELSE card[i]
  BY <1>1, <1>2, <1>3, ExceptSeq
<1>5. ASSUME NEW i \in 1..CardFrames, i \notin stores'
      PROVE  card'[i] = LoadContent(opened')[i]
  <2>1. i # n /\ i \notin stores
    BY <1>1, <1>5
  <2>2. card[i] = LoadContent(opened)[i]
    BY <1>1, <2>1 DEF Loaded
  <2> QED BY <1>1, <1>4, <2>1, <2>2
<1>6. Loaded'
  BY <1>1, <1>4, <1>5 DEF Loaded
<1> QED BY <1>1, <1>6 DEF ContentInv

LEMMA CommitIs ==
    ASSUME ContentInv, CommitContent
    PROVE  ContentInv'
<1>1. /\ Loaded /\ opened' = opened /\ userFile' = BuildFileImage /\ card' = card /\ stores' = stores
      /\ \E kind \in Kinds : HasKind(opened, kind)
  BY DEF ContentInv, CommitContent
<1>2. userFile' \in ContentFiles
  BY <1>1, BuildIs
<1>3. Loaded'
  BY <1>1 DEF Loaded
<1> QED BY <1>1, <1>2, <1>3 DEF ContentInv

LEMMA ContentStep == ContentInv /\ [ContentNext]_contentVars => ContentInv'
<1> SUFFICES ASSUME ContentInv, [ContentNext]_contentVars PROVE ContentInv'
  OBVIOUS
<1>1. CASE GetUserFile
  <2>1. userFile' \in ContentFiles /\ opened' = opened /\ card' = card /\ stores' = stores
    BY <1>1, InputsAreFiles DEF GetUserFile
  <2> QED BY <2>1 DEF ContentInv, Loaded
<1>2. CASE OpenUserFile
  BY <1>2, OpenIs
<1>3. ASSUME NEW n \in 1..CardFrames, NEW cell \in Stores, StoreCell(n, cell) PROVE ContentInv'
  BY <1>3, StoreIs
<1>4. CASE CommitContent
  BY <1>4, CommitIs
<1>5. CASE CloseContent
  <2>1. opened' = <<>> /\ userFile' = userFile
    BY <1>5 DEF CloseContent
  <2> QED BY <2>1 DEF ContentInv
<1>6. CASE UNCHANGED contentVars
  BY <1>6 DEF contentVars, ContentInv, Loaded
<1> QED BY <1>1, <1>2, <1>3, <1>4, <1>5, <1>6 DEF ContentNext

\* The file that a write-back makes is one that the core can load again, with each
\* cell of the app as the app left it, it has the identity of the file that was
\* opened as long as the app does not store into what identifies it, and the directory
\* of an app leads through all of its blocks (content_writeback.c, psemu.c, flash.c).
THEOREM FilesAlwaysRoundTrip == ContentSpec => []FilesRoundTrip
<1>1. ContentInit => ContentInv
  BY ContentStart
<1>2. ContentInv /\ [ContentNext]_contentVars => ContentInv'
  BY ContentStep
<1>3. ContentInv => FilesRoundTrip
  BY ReadsBackHolds, KeepsIdentityHolds, DirectoryLeadsHolds DEF ContentInv, FilesRoundTrip
<1> QED BY <1>1, <1>2, <1>3, PTL DEF ContentSpec
=============================================================================
