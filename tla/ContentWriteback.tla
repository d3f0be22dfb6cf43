-------------------------- MODULE ContentWriteback --------------------------
(* content_writeback.c and the places of the desktop frontend that drive it:  *)
(* the frame loop, File > Open, a reset, the save-state slots and the exit.   *)
(* The events of the menu come between two frames, after the poll of one.     *)
(*                                                                            *)
(* The flash is cut into the two regions the code tells apart: the body of an *)
(* app (block 1 and up) and the rest of the card.  A file is the tuple of the *)
(* regions its kind stores.  The headers of .mcs and .gme files go back       *)
(* unchanged, so they are left out.  A commit is cut at its file operations:  *)
(* each can fail, and the process can die between two of them.                *)
CONSTANTS
    Path,        \* content files the user can load
    WholeCard,   \* the paths whose file holds the full card (CARD and GME)
    Data,        \* contents of a region
    Blank,       \* the contents of a region of a machine with nothing loaded
    Synth,       \* the card that flash_load_app synthesizes around an app
    Absent,      \* no file
    Truncated,   \* a file that holds only a part of its bytes
    NoPath,      \* the write-back is disarmed
    NoState,     \* an empty save-state slot
    Faults,      \* the operations that can fail
    UserOps      \* the menu operations of this instance

ASSUME ConstantsAssumption ==
    /\ WholeCard \subseteq Path
    /\ Blank \in Data
    /\ Synth \notin Data
    /\ NoPath \notin Path
    /\ Absent # Truncated
    /\ Faults \subseteq {"copy", "write", "close", "move", "state"}
    /\ UserOps \subseteq {"open", "reset", "save", "load"}

Region == Data \cup {Synth}
Flash  == [body : Data, rest : Region]

\* build_file_image, and the bytes that content_writeback_poll compares: the
\* same region, for each kind.
Image(p, fl) == IF p \in WholeCard THEN <<fl.body, fl.rest>> ELSE <<fl.body>>

ImagesOf(p) == {Image(p, fl) : fl \in Flash}

ASSUME FileAssumption ==
    /\ \A p \in Path : Absent \notin ImagesOf(p) /\ Truncated \notin ImagesOf(p)
    /\ NoState \notin Flash

\* psemu_load_content: the flash that a file gives.
LoadImage(p, f) == [body |-> f[1],
                    rest |-> IF p \in WholeCard THEN f[2] ELSE Synth]

VARIABLES
    disk,       \* the file at each path
    bak,        \* the .bak file of each path
    tmp,        \* the .tmp file of each path
    slot,       \* the save-state slot of each path: a copy of flash
    flash,      \* the flash of the running machine
    cw,         \* content_writeback_t: path, baseline, dirty
    opening,    \* prompt_open_app: the file that was picked
    pc,         \* where the frontend is
    then,       \* where content_writeback_poll returns to
    original,   \* history: each file before the program first wrote it
    accepted,   \* history: the flash that owes the file nothing
    edited,     \* history: an app wrote into the image since then
    owed        \* history: the edit of each file that is not in the file

\* content_writeback_t: the file that is kept in agreement with the flash.
Writeback == [path : Path \cup {NoPath}, baseline : Flash, dirty : BOOLEAN]

files == <<disk, bak, tmp, slot>>
history == <<original, accepted, edited, owed>>
vars == <<disk, bak, tmp, slot, flash, cw, opening, pc, then,
          original, accepted, edited, owed>>

NoFlash  == [body |-> Blank, rest |-> Synth]
Disarmed == [path |-> NoPath, baseline |-> NoFlash, dirty |-> FALSE]
Enabled  == cw.path # NoPath

Valid(f) == f # Absent /\ f # Truncated

\* The region of flash that the file can hold differs from the baseline.
Differs == Image(cw.path, flash) # Image(cw.path, cw.baseline)

Nothing == [p \in Path |-> Absent]

Init ==
    /\ disk \in [Path -> UNION {ImagesOf(p) : p \in Path}]
    /\ \A p \in Path : disk[p] \in ImagesOf(p)
    /\ bak = [p \in Path |-> Absent]
    /\ tmp = [p \in Path |-> Absent]
    /\ slot = [p \in Path |-> NoState]
    /\ flash = NoFlash
    /\ cw = Disarmed
    /\ opening = NoPath
    /\ pc = "off"
    /\ then = "events"
    /\ original = disk
    /\ accepted = NoFlash
    /\ edited = FALSE
    /\ owed = Nothing

\* flash becomes the new baseline, and no edit is pending (arm, resync).
Accept(fl) == accepted' = fl /\ edited' = FALSE

-----------------------------------------------------------------------------
(* The frame loop                                                             *)

\* main: loads the file of the command line and arms the write-back.
Start(p) ==
    /\ pc = "off"
    /\ IF Valid(disk[p])
       THEN /\ flash' = LoadImage(p, disk[p])
            /\ cw' = [path |-> p, baseline |-> flash', dirty |-> FALSE]
       ELSE /\ flash' = NoFlash
            /\ cw' = Disarmed
    /\ Accept(flash')
    /\ pc' = "events"
    /\ UNCHANGED <<disk, bak, tmp, slot, opening, then, original, owed>>

\* psemu_run of the main loop, and after it the frames of the hold-save.
BeginFrame ==
    /\ pc = "events"
    /\ pc' = "frame"
    /\ then' = "events"
    /\ UNCHANGED <<files, flash, cw, opening, history>>

Exit ==
    /\ pc = "events"
    /\ pc' = "frame"
    /\ then' = "exit"
    /\ UNCHANGED <<files, flash, cw, opening, history>>

\* An app writes a region of the flash.  The file lacks the edit, unless the app
\* wrote back what the file had.
AppWrite(region, v) ==
    /\ pc = "frame"
    /\ flash' = [flash EXCEPT ![region] = v]
    /\ edited' = \/ edited
                 \/ Enabled /\ Image(cw.path, flash') # Image(cw.path, flash)
    /\ owed' = IF ~Enabled THEN owed
               ELSE [owed EXCEPT ![cw.path] =
                        IF Image(cw.path, flash') = Image(cw.path, accepted)
                        THEN Absent ELSE Image(cw.path, flash')]
    /\ UNCHANGED <<files, cw, opening, pc, then, original, accepted>>

EndFrame ==
    /\ pc = "frame"
    /\ pc' = "poll"
    /\ UNCHANGED <<files, flash, cw, opening, then, history>>

CallPoll(next) == pc' = "poll" /\ then' = next

Stop ==
    /\ flash' = NoFlash
    /\ cw' = Disarmed
    /\ opening' = NoPath
    /\ pc' = "off"
    /\ then' = "events"
    /\ Accept(NoFlash)
    /\ owed' = Nothing

Quit ==
    /\ pc = "exit"
    /\ Stop
    /\ UNCHANGED <<files, original>>

-----------------------------------------------------------------------------
(* content_writeback_poll and content_writeback_commit                        *)

Poll ==
    /\ pc = "poll"
    /\ IF Enabled /\ Differs
       THEN /\ cw' = [cw EXCEPT !.dirty = TRUE]
            /\ pc' = "backup"
       ELSE /\ cw' = [cw EXCEPT !.dirty = FALSE]
            /\ pc' = then
    /\ UNCHANGED <<files, flash, opening, then, history>>

\* Mutant: copies over the backup of an earlier change.
BackupEachTime ==
    /\ pc = "backup"
    /\ bak' = [bak EXCEPT ![cw.path] = disk[cw.path]]
    /\ pc' = "stage"
    /\ UNCHANGED <<disk, tmp, slot, flash, cw, opening, then, history>>

\* Mutant: moves the file to the backup, and does not copy it.
BackupByMove ==
    /\ pc = "backup"
    /\ bak' = [bak EXCEPT ![cw.path] = disk[cw.path]]
    /\ disk' = [disk EXCEPT ![cw.path] = Absent]
    /\ pc' = "stage"
    /\ UNCHANGED <<tmp, slot, flash, cw, opening, then, history>>

\* CopyFileA to the .bak file, only if there is none.  Its result is ignored.
Backup ==
    /\ pc = "backup"
    /\ \/ /\ bak[cw.path] = Absent
          /\ bak' = [bak EXCEPT ![cw.path] = disk[cw.path]]
       \/ /\ bak[cw.path] # Absent \/ "copy" \in Faults
          /\ UNCHANGED bak
    /\ pc' = "stage"
    /\ UNCHANGED <<disk, tmp, slot, flash, cw, opening, then, history>>

WriteTmp(f) == tmp' = [tmp EXCEPT ![cw.path] = f]

\* fopen, fwrite and fclose of the .tmp file.  The results of fopen and fwrite
\* are tested.  The result of fclose, which writes the buffered bytes, is not.
StageOk ==
    /\ pc = "stage"
    /\ \/ WriteTmp(Image(cw.path, flash))
       \/ "close" \in Faults /\ WriteTmp(Truncated)
    /\ pc' = "replace"
    /\ UNCHANGED <<disk, bak, slot, flash, cw, opening, then, history>>

\* Mutant: takes the new baseline though the write failed.
StageFailureAccepted ==
    /\ pc = "stage"
    /\ "write" \in Faults
    /\ cw' = [cw EXCEPT !.baseline = flash]
    /\ pc' = then
    /\ UNCHANGED <<files, flash, opening, then, history>>

StageFails ==
    /\ pc = "stage"
    /\ "write" \in Faults
    /\ WriteTmp(Truncated) \/ UNCHANGED tmp
    /\ pc' = then
    /\ UNCHANGED <<disk, bak, slot, flash, cw, opening, then, history>>

\* MoveFileExA of the .tmp file over the original.
ReplaceOk ==
    /\ pc = "replace"
    /\ disk' = [disk EXCEPT ![cw.path] = tmp[cw.path]]
    /\ WriteTmp(Absent)
    /\ cw' = [cw EXCEPT !.baseline = flash, !.dirty = FALSE]
    /\ Accept(flash)
    /\ owed' = IF disk'[cw.path] = owed[cw.path] THEN [owed EXCEPT ![cw.path] = Absent] ELSE owed
    /\ pc' = then
    /\ UNCHANGED <<bak, slot, flash, opening, then, original>>

\* Mutant: takes the new baseline though the replacement failed.
ReplaceFailureAccepted ==
    /\ pc = "replace"
    /\ "move" \in Faults
    /\ cw' = [cw EXCEPT !.baseline = flash, !.dirty = FALSE]
    /\ pc' = then
    /\ UNCHANGED <<files, flash, opening, then, history>>

ReplaceFails ==
    /\ pc = "replace"
    /\ "move" \in Faults
    /\ pc' = then
    /\ UNCHANGED <<files, flash, cw, opening, then, history>>

-----------------------------------------------------------------------------
(* The menu                                                                   *)

\* prompt_open_app.  psemu_load_content replaces the flash before the poll
\* that writes the edits of the old content.
OpenContent(p) ==
    /\ pc = "events"
    /\ "open" \in UserOps
    /\ Valid(disk[p])
    /\ flash' = LoadImage(p, disk[p])
    /\ opening' = p
    /\ CallPoll("arm")
    /\ UNCHANGED <<files, cw, history>>

\* The rest of prompt_open_app: content_writeback_arm with the new path.
Arm ==
    /\ pc = "arm"
    /\ cw' = [path |-> opening, baseline |-> flash, dirty |-> FALSE]
    /\ Accept(flash)
    /\ opening' = NoPath
    /\ pc' = "events"
    /\ UNCHANGED <<files, flash, then, original, owed>>

\* reset_emulation: poll, psemu_reset (which keeps flash), resync.
Reset ==
    /\ pc = "events"
    /\ "reset" \in UserOps
    /\ CallPoll("resync")
    /\ UNCHANGED <<files, flash, cw, opening, history>>

Resync(fl) ==
    cw' = IF Enabled THEN [cw EXCEPT !.baseline = fl, !.dirty = FALSE] ELSE cw

ResetResync ==
    /\ pc = "resync"
    /\ Resync(flash)
    /\ pc' = "events"
    /\ UNCHANGED <<files, flash, opening, then, history>>

\* save_state_to_slot: a state holds a copy of flash.
SaveState ==
    /\ pc = "events"
    /\ "save" \in UserOps
    /\ Enabled
    /\ slot' = [slot EXCEPT ![cw.path] = flash]
    /\ UNCHANGED <<disk, bak, tmp, flash, cw, opening, pc, then, history>>

\* Mutant: no resync after the state replaced the flash.
LoadStateWithoutResync ==
    /\ pc = "events"
    /\ "load" \in UserOps
    /\ Enabled
    /\ slot[cw.path] # NoState
    /\ flash' = slot[cw.path]
    /\ Accept(flash')
    /\ owed' = [owed EXCEPT ![cw.path] = Absent]
    /\ UNCHANGED <<files, cw, opening, pc, then, original>>

\* load_state_from_slot: the whole card changes, and this is not an edit.  The
\* user gives up an edit that the file lacks.
LoadState ==
    /\ pc = "events"
    /\ "load" \in UserOps
    /\ Enabled
    /\ slot[cw.path] # NoState
    /\ flash' = slot[cw.path]
    /\ Resync(flash')
    /\ Accept(flash')
    /\ owed' = [owed EXCEPT ![cw.path] = Absent]
    /\ UNCHANGED <<files, opening, pc, then, original>>

\* load_state_from_slot with a damaged file: state_visit reads the fields in
\* order and finds the fault (an edge count over the capacity, say) after it
\* replaced the flash.  The function returns before the resync.
LoadStateFails ==
    /\ pc = "events"
    /\ "load" \in UserOps
    /\ "state" \in Faults
    /\ Enabled
    /\ slot[cw.path] # NoState
    /\ flash' = slot[cw.path]
    /\ UNCHANGED <<files, cw, opening, pc, then, history>>

-----------------------------------------------------------------------------
(* The process dies at any point.  The files stay, and a copy to the .bak     *)
(* file or a write of the .tmp file that was in progress leaves a part of it. *)
Crash ==
    /\ pc # "off"
    /\ Stop
    /\ \/ UNCHANGED <<bak, tmp>>
       \/ /\ pc = "backup" /\ bak[cw.path] = Absent
          /\ bak' = [bak EXCEPT ![cw.path] = Truncated]
          /\ UNCHANGED tmp
       \/ pc = "stage" /\ WriteTmp(Truncated) /\ UNCHANGED bak
    /\ UNCHANGED <<disk, slot, original>>

Commit == Backup \/ StageOk \/ StageFails \/ ReplaceOk \/ ReplaceFails

Next ==
    \/ \E p \in Path : Start(p) \/ OpenContent(p)
    \/ \E r \in {"body", "rest"}, v \in Data : AppWrite(r, v)
    \/ BeginFrame \/ EndFrame \/ Exit \/ Quit
    \/ Poll \/ Commit
    \/ Arm \/ Reset \/ ResetResync
    \/ SaveState \/ LoadState \/ LoadStateFails
    \/ Crash

Spec == Init /\ [][Next]_vars

\* The frame loop runs and each function returns.  A file operation that fails
\* does not fail for all time: the code tries it again at each frame.
Fairness ==
    /\ WF_vars(BeginFrame) /\ WF_vars(EndFrame) /\ WF_vars(Poll) /\ WF_vars(Backup)
    /\ WF_vars(Arm) /\ WF_vars(ResetResync) /\ WF_vars(Quit)
    /\ SF_vars(StageOk) /\ SF_vars(ReplaceOk)

FairSpec == Spec /\ Fairness

-----------------------------------------------------------------------------
(* Properties                                                                 *)

TypeOK ==
    /\ \A f \in {disk, bak, tmp, original} : f = [p \in Path |-> f[p]]
    /\ \A p \in Path : /\ disk[p] \in ImagesOf(p) \cup {Truncated}
                       /\ bak[p] \in ImagesOf(p) \cup {Truncated, Absent}
                       /\ tmp[p] \in ImagesOf(p) \cup {Truncated, Absent}
                       /\ original[p] \in ImagesOf(p)
    /\ slot \in [Path -> Flash \cup {NoState}]
    /\ flash \in Flash
    /\ cw \in Writeback
    /\ opening \in Path \cup {NoPath}
    /\ pc \in {"off", "events", "frame", "poll", "backup", "stage", "replace",
               "arm", "resync", "exit"}
    /\ then \in {"events", "arm", "resync", "exit"}
    /\ accepted \in Flash
    /\ edited \in BOOLEAN
    /\ owed = [p \in Path |-> owed[p]]
    /\ \A p \in Path : owed[p] \in ImagesOf(p) \cup {Absent}

\* "An interrupted write or a failed write cannot leave a truncated file": the
\* file of the user is complete after each step, each failure and each crash.
NeverTruncated == \A p \in Path : disk[p] # Truncated

\* "Copies the unchanged file to .bak before the first write of a change, and
\* only if no .bak file is present": a file that the program changed has a .bak
\* file, and no failed commit, death or restart puts a changed file into it.  It
\* has the file as the program first found it, or the part that a copy left in
\* which the process died.
BackupIsOriginal ==
    \A p \in Path : /\ bak[p] \in {Absent, Truncated, original[p]}
                    /\ disk[p] # original[p] => bak[p] # Absent

\* The same text as it stands: the backup of a changed file is complete.  It is
\* not so after a death inside CopyFileA, because a later commit finds the part
\* and keeps it (content_writeback.c:120).
BackupIsComplete == \A p \in Path : disk[p] # original[p] => bak[p] = original[p]

\* A reset, a state load or an open is not an edit: a file on disk changes
\* only if an app wrote into its image since the last baseline.
OnlyEditsReachDisk == [][disk' # disk => edited]_vars

\* While the machine runs, an edit that the file of its content lacks is still in
\* the flash, and the next poll finds it: no failed write, loaded state or menu
\* operation drops it (the comment at main.c:1083 for an open, 1102 for a reset).
EditNotForgotten ==
    pc \in {"events", "frame"} =>
        \A p \in Path : owed[p] # Absent =>
            cw.path = p /\ Image(p, flash) = owed[p] /\ Differs

\* An edit gets to the disk whatever writes fail before, unless a state load
\* replaces it or the program ends.
EditReachesDisk == \A p \in Path : owed[p] # Absent ~> owed[p] = Absent

\* The commit is atomic: it implements AtomicFile.
Atomic == INSTANCE AtomicFile WITH file <- disk, live <- flash
ImplementsAtomicFile == Atomic!Spec
=============================================================================
