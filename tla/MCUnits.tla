------------------------------- MODULE MCUnits -------------------------------
(* The device units, and the shell of the desktop frontend, which share no    *)
(* state in these models, in one specification.  A behaviour is one unit with *)
(* its software and its host, or the shell with its user; the machine with    *)
(* the units is in RunLoop.                                                   *)
EXTENDS TimerUnit, IrUnit, FlashUnit, ComUnit, DesktopUnit

CONSTANT Chosen  \* the units of this instance

ASSUME UnitsAssumption == Chosen \subseteq {"timer", "ir", "flash", "com", "desktop"}

VARIABLE unit    \* the unit of the behaviour

vars == <<unit, timerVars, irVars, flashVars, comVars, desktopVars>>

Init ==
    /\ unit \in Chosen
    /\ TimerInit
    /\ IrInit
    /\ FlashInit
    /\ ComInit
    /\ DesktopInit

Next ==
    /\ UNCHANGED unit
    /\ \/ unit = "timer" /\ TimerNext /\ UNCHANGED <<irVars, flashVars, comVars, desktopVars>>
       \/ unit = "ir" /\ IrNext /\ UNCHANGED <<timerVars, flashVars, comVars, desktopVars>>
       \/ unit = "flash" /\ FlashNext /\ UNCHANGED <<timerVars, irVars, comVars, desktopVars>>
       \/ unit = "com" /\ ComNext /\ UNCHANGED <<timerVars, irVars, flashVars, desktopVars>>
       \/ unit = "desktop" /\ DesktopNext /\ UNCHANGED <<timerVars, irVars, flashVars, comVars>>

Spec == Init /\ [][Next]_vars

-----------------------------------------------------------------------------
\* The records of the units keep their shape, and their queues their capacity.
TypeOK ==
    /\ unit \in Chosen
    /\ TimerTypeOK
    /\ IrTypeOK
    /\ FlashTypeOK
    /\ ComTypeOK

-----------------------------------------------------------------------------
(* The instance.                                                              *)

EachUnit == {"timer", "ir", "flash", "com", "desktop"}

PeriodValues == {0, 2, RegSpan + 1}
BatchSizes   == {15, 33, 500}

ModeOf(transmit, standby, filter) ==
    [transmit |-> transmit, standby |-> standby, filter |-> filter]

SomeModes     == {ModeOf(TRUE, FALSE, TRUE), ModeOf(FALSE, FALSE, TRUE),
                  ModeOf(FALSE, TRUE, TRUE), ModeOf(FALSE, FALSE, FALSE)}

OneStep    == {1}
SmallCuts  == {1, 2}
Soon       == {1, 2, 4}

\* A card of three blocks with one frame each.  The first frame has the two
\* halfwords of a header update, and each of the others holds a key address.
BothJobs    == {"program", "header"}
EachFrame   == {0, 4, 8}
HeaderParts == <<0, 2>>
HeaderBytes == 0..3
Linear      == [b \in 0..2 |-> 0]
SomeWindows == {<<{}, Linear>>, <<{1}, Linear>>, <<{1, 2}, [b \in 0..2 |-> b % 2]>>}
AppStores   == {0, 4, 6}

\* Three hotkeys and a button of the game.  The files before the first session
\* are one that somebody edited, with a key and colors that nobody can read, and
\* one of an older session.
FewRows == {"fire", "reset", "save", "load"}
FewKeys == {"Z", "F8", "F5", "F9", "A"}
FewDefaults == [r \in FewRows |-> CASE r = "fire" -> "Z" [] r = "reset" -> "F8"
                                    [] r = "save" -> "F5" [] r = "load" -> "F9"]
FewOrder == <<"fire", "reset", "save", "load">>
EditedFile ==
    [bios |-> "b", id |-> "", colors |-> "bad", datetime |-> "os", volume |-> 45,
     keys |-> [r \in FewRows |-> IF r = "fire" THEN "bad" ELSE ""], shadows |-> TRUE, address |-> ""]
OlderFile ==
    [bios |-> "", id |-> "x", colors |-> "", datetime |-> "default", volume |-> 150,
     keys |-> [FewDefaults EXCEPT !["fire"] = "F9", !["load"] = Marker],
     shadows |-> FALSE, address |-> "peer"]
SomeFiles == {EditedFile, OlderFile}
=============================================================================
