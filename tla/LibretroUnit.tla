---------------------------- MODULE LibretroUnit ----------------------------
(* The libretro core (libretro.c) and a frontend over sessions: the frontend  *)
(* loads a card file, copies its save file over the flash before the first    *)
(* frame, and writes the flash to the save file at the end of a session.      *)
(* Between two sessions the user edits the card or the save file with other   *)
(* tools.                                                                     *)
EXTENDS Naturals

CONSTANT Card  \* images: the set of saves, which the identity hash covers, and their data

ASSUME CardAssumption == \A c \in Card : c.saves \in Nat /\ c.data \in Nat

VARIABLES
    disk,     \* the card file and the save file
    flash,    \* the flash of the machine
    session,  \* "closed", "loaded", "ready" for the first frame, "running"
    check,    \* g_loaded_identity, g_identity_check_pending
    warned,   \* the warning of this session
    saved     \* a state of this session's core

retroVars == <<disk, flash, session, check, warned, saved>>

NoCard == [saves |-> 0, data |-> 0]

\* psemu_content_identity_hash
Identity(card) == card.saves

RetroInit ==
    /\ disk = [card |-> NoCard, save |-> NoCard]
    /\ flash = NoCard /\ session = "closed"
    /\ check = [identity |-> 0, pending |-> FALSE]
    /\ warned = FALSE /\ saved = NoCard

-----------------------------------------------------------------------------
(* The user, and the frontend outside of a session                            *)

EditFiles ==
    /\ session = "closed"
    /\ \/ \E c \in Card : disk' = [disk EXCEPT !.card = c]
       \/ \E c \in Card \cup {NoCard} : disk' = [disk EXCEPT !.save = c]
    /\ UNCHANGED <<flash, session, check, warned, saved>>

\* retro_load_game
RetroLoadGame ==
    /\ session = "closed" /\ disk.card # NoCard
    /\ session' = "loaded"
    /\ flash' = disk.card
    /\ check' = [identity |-> Identity(disk.card), pending |-> TRUE]
    /\ warned' = FALSE
    /\ UNCHANGED <<disk, saved>>

\* retro_load_game without a BIOS or with a file that is no card.
RetroLoadFails ==
    /\ session = "closed"
    /\ warned' = FALSE
    /\ UNCHANGED <<disk, flash, session, check, saved>>

\* The frontend copies the save file to retro_get_memory_data.
CopySaveFile ==
    /\ session = "loaded"
    /\ session' = "ready"
    /\ flash' = IF disk.save = NoCard THEN flash ELSE disk.save
    /\ UNCHANGED <<disk, check, warned, saved>>

-----------------------------------------------------------------------------
\* Mutant: the test stays pending after the first frame.
RetroRunChecksAgain(card) ==
    /\ session \in {"ready", "running"}
    /\ session' = "running"
    /\ warned' = (warned \/ (check.pending /\ Identity(flash) # check.identity))
    /\ flash' = card
    /\ UNCHANGED <<disk, check, saved>>

\* retro_run: the test of the identity, and then a frame that leaves the flash as
\* the software writes it.
RetroRun(card) ==
    /\ session \in {"ready", "running"}
    /\ session' = "running"
    /\ warned' = (warned \/ (check.pending /\ Identity(flash) # check.identity))
    /\ check' = [check EXCEPT !.pending = FALSE]
    /\ flash' = card
    /\ UNCHANGED <<disk, saved>>

\* retro_reset keeps the flash and the test, and is left out.
RetroSerialize ==
    /\ session \in {"ready", "running"}
    /\ saved' = flash
    /\ UNCHANGED <<disk, flash, session, check, warned>>

RetroUnserialize ==
    /\ session = "running" /\ saved # NoCard
    /\ flash' = saved
    /\ UNCHANGED <<disk, session, check, warned, saved>>

\* The frontend writes the save file and calls retro_unload_game, or it ends
\* without this and a new process starts.
RetroUnloadGame ==
    /\ session \in {"ready", "running"}
    /\ session' = "closed"
    /\ disk' = [disk EXCEPT !.save = flash]
    /\ check' = [check EXCEPT !.pending = FALSE]
    /\ UNCHANGED <<flash, warned, saved>>

RetroProcessEnds ==
    /\ session # "closed"
    /\ session' = "closed"
    /\ check' = [identity |-> 0, pending |-> FALSE]
    /\ flash' = NoCard
    /\ UNCHANGED <<disk, warned, saved>>

RetroNext ==
    \/ EditFiles \/ RetroLoadGame \/ RetroLoadFails \/ CopySaveFile
    \/ \E c \in Card : RetroRun(c)
    \/ RetroSerialize \/ RetroUnserialize
    \/ RetroUnloadGame \/ RetroProcessEnds

RetroSpec == RetroInit /\ [][RetroNext]_retroVars

-----------------------------------------------------------------------------
\* The files do not change in a session, thus they say at each frame of it whether
\* the save file holds a different card than the content: then, and only then,
\* there is a warning, and a card that an app changes in the session, a state or a
\* reset makes none (the comment at libretro.c:117).
WarnIffReplaced ==
    session = "running" =>
        (warned <=> disk.save # NoCard /\ Identity(disk.save) # Identity(disk.card))
=============================================================================
