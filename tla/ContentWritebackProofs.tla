----------------------- MODULE ContentWritebackProofs -----------------------
(* The safety of the write-back, for every set of files and every data.       *)
EXTENDS ContentWriteback, TLAPS

\* With a commit in progress the write-back is armed.
CommitArmed == pc \in {"backup", "stage", "replace"} => cw.path \in Path

\* There is a .tmp file to move.
Staged == pc = "replace" => tmp[cw.path] # Absent

\* The .tmp file that is about to replace the original is complete, and it is
\* the image of the flash: nothing changes flash inside a commit.
StagedImage == pc = "replace" => tmp[cw.path] = Image(cw.path, flash)

TypeInv == TypeOK /\ CommitArmed /\ Staged

AtomicInv == TypeInv /\ StagedImage /\ NeverTruncated

BackupTaken == pc \in {"stage", "replace"} => bak[cw.path] # Absent

BackupInv == TypeInv /\ BackupTaken /\ BackupIsOriginal

-----------------------------------------------------------------------------
LEMMA ImageType == ASSUME NEW p \in Path, NEW fl \in Flash
                   PROVE  Image(p, fl) \in ImagesOf(p)
  BY DEF ImagesOf

\* A valid file of p gives a flash.
LEMMA LoadImageType ==
  ASSUME NEW p \in Path, NEW f \in ImagesOf(p)
  PROVE  LoadImage(p, f) \in Flash
<1>1. PICK fl \in Flash : f = Image(p, fl)
  BY DEF ImagesOf
<1>2. fl.body \in Data /\ fl.rest \in Region
  BY DEF Flash
<1>3. CASE p \in WholeCard
  BY <1>1, <1>2, <1>3 DEF Image, LoadImage, Flash
<1>4. CASE p \notin WholeCard
  BY <1>1, <1>2, <1>4 DEF Image, LoadImage, Flash, Region
<1>5. QED
  BY <1>3, <1>4

LEMMA NoFlashType == NoFlash \in Flash
  BY ConstantsAssumption DEF NoFlash, Flash, Region

LEMMA ArmedType == ASSUME NEW p \in Path \cup {NoPath}, NEW fl \in Flash
                   PROVE  [path |-> p, baseline |-> fl, dirty |-> FALSE] \in Writeback
  BY DEF Writeback

LEMMA DisarmedType == Disarmed \in Writeback
  BY NoFlashType, ArmedType DEF Disarmed

-----------------------------------------------------------------------------
LEMMA TypeInit == Init => TypeInv
<1> SUFFICES ASSUME Init PROVE TypeInv
  OBVIOUS
<1> USE NoFlashType DEF Init
<1>1. cw \in Writeback
  BY DisarmedType
<1>2. QED
  BY <1>1 DEF TypeInv, TypeOK, CommitArmed, Staged, Nothing

\* The actions that leave the files alone keep their types.
FilesType ==
    /\ \A f \in {disk, bak, tmp, original} : f = [p \in Path |-> f[p]]
    /\ \A p \in Path : /\ disk[p] \in ImagesOf(p) \cup {Truncated}
                       /\ bak[p] \in ImagesOf(p) \cup {Truncated, Absent}
                       /\ tmp[p] \in ImagesOf(p) \cup {Truncated, Absent}
                       /\ original[p] \in ImagesOf(p)
    /\ slot \in [Path -> Flash \cup {NoState}]

MemoryType ==
    /\ flash \in Flash
    /\ cw \in Writeback
    /\ opening \in Path \cup {NoPath}
    /\ pc \in {"off", "events", "frame", "poll", "backup", "stage", "replace",
               "arm", "resync", "exit"}
    /\ then \in {"events", "arm", "resync", "exit"}
    /\ accepted \in Flash
    /\ edited \in BOOLEAN

OwedType ==
    /\ owed = [p \in Path |-> owed[p]]
    /\ \A p \in Path : owed[p] \in ImagesOf(p) \cup {Absent}

LEMMA TypeSplit ==
  TypeInv <=> FilesType /\ MemoryType /\ OwedType /\ CommitArmed /\ Staged
  BY DEF TypeInv, TypeOK, FilesType, MemoryType, OwedType

LEMMA FilesStep ==
  ASSUME TypeInv, [Next]_vars
  PROVE  FilesType'
<1> USE TypeSplit DEF FilesType, MemoryType, CommitArmed, Staged
<1>1. CASE UNCHANGED <<files, original>>
  BY <1>1 DEF files
<1>2. CASE Backup
  BY <1>2 DEF Backup, history
<1>3. CASE StageOk
  BY <1>3, ImageType DEF StageOk, WriteTmp, history
<1>4. CASE StageFails
  BY <1>4 DEF StageFails, WriteTmp, history
<1>5. CASE ReplaceOk
  BY <1>5 DEF ReplaceOk, WriteTmp, Accept
<1>6. CASE SaveState
  BY <1>6, ConstantsAssumption DEF SaveState, Enabled, history
<1>7. CASE Crash
  BY <1>7 DEF Crash, Stop, WriteTmp
<1>8. QED
  BY <1>1, <1>2, <1>3, <1>4, <1>5, <1>6, <1>7
     DEF Next, Commit, Start, OpenContent, AppWrite, BeginFrame, EndFrame, Exit, Quit, Poll,
         ReplaceFails, Arm, Reset, ResetResync, LoadState, LoadStateFails,
         files, history, vars

LEMMA ArmedPath == ASSUME TypeInv, Enabled PROVE cw.path \in Path
  BY TypeSplit DEF MemoryType, Writeback, Enabled

\* What a loaded or restored flash leaves of the write-back is well typed.
LEMMA MemoryStep ==
  ASSUME TypeInv, [Next]_vars
  PROVE  MemoryType'
<1> USE TypeSplit, NoFlashType DEF FilesType, MemoryType, CommitArmed
<1>1. ASSUME NEW p \in Path, Start(p) PROVE MemoryType'
  <2>1. CASE Valid(disk[p])
    <3>1. flash' \in Flash
      BY <1>1, <2>1, LoadImageType DEF Start, Valid
    <3>2. cw' \in Writeback
      BY <1>1, <2>1, <3>1, ArmedType DEF Start
    <3>3. QED
      BY <1>1, <3>1, <3>2 DEF Start, Accept
  <2>2. CASE ~Valid(disk[p])
    BY <1>1, <2>2, DisarmedType DEF Start, Accept
  <2>3. QED
    BY <2>1, <2>2
<1>2. ASSUME NEW p \in Path, OpenContent(p) PROVE MemoryType'
  BY <1>2, LoadImageType DEF OpenContent, Valid, CallPoll, history
<1>3. ASSUME NEW r \in {"body", "rest"}, NEW v \in Data, AppWrite(r, v)
      PROVE  MemoryType'
  <2>1. flash' \in Flash
    BY <1>3 DEF AppWrite, Flash, Region
  <2>2. edited' \in BOOLEAN
    BY <1>3 DEF AppWrite
  <2>3. QED
    BY <1>3, <2>1, <2>2 DEF AppWrite
<1>4. CASE BeginFrame \/ EndFrame \/ Exit \/ Reset
  BY <1>4 DEF BeginFrame, EndFrame, Exit, Reset, CallPoll, history
<1>5. CASE Quit \/ Crash
  BY <1>5, DisarmedType DEF Quit, Crash, Stop, Accept
<1>6. CASE Poll
  BY <1>6 DEF Poll, history, Writeback
<1>7. CASE Backup \/ StageOk \/ StageFails \/ ReplaceFails
  BY <1>7 DEF Backup, StageOk, StageFails, ReplaceFails, history
<1>8. CASE ReplaceOk
  BY <1>8 DEF ReplaceOk, Accept, Writeback
<1>9. CASE Arm
  BY <1>9, ArmedType DEF Arm, Accept
<1>10. CASE ResetResync
  BY <1>10 DEF ResetResync, Resync, history, Writeback
<1>11. CASE SaveState
  BY <1>11 DEF SaveState, history
<1>12. CASE LoadState
  <2>1. flash' \in Flash
    BY <1>12, ArmedPath DEF LoadState
  <2>2. QED
    BY <1>12, <2>1 DEF LoadState, Resync, Accept, Writeback
<1>13. CASE LoadStateFails
  BY <1>13, ArmedPath DEF LoadStateFails, history
<1>14. CASE UNCHANGED vars
  BY <1>14 DEF vars
<1>15. QED
  BY <1>1, <1>2, <1>3, <1>4, <1>5, <1>6, <1>7, <1>8, <1>9, <1>10, <1>11,
     <1>12, <1>13, <1>14 DEF Next, Commit

\* A commit starts with the write-back armed, and nothing disarms it inside.
LEMMA ControlStep ==
  ASSUME TypeInv, [Next]_vars
  PROVE  CommitArmed' /\ Staged'
<1> USE TypeSplit, FileAssumption
    DEF FilesType, MemoryType, CommitArmed, Staged, Writeback
<1>1. CASE Poll
  BY <1>1 DEF Poll, Enabled, files, history
<1>2. CASE Backup
  BY <1>2 DEF Backup, history
<1>3. CASE StageOk
  BY <1>3, ImageType, ConstantsAssumption DEF StageOk, WriteTmp, history
<1>4. CASE StageFails \/ ReplaceOk \/ ReplaceFails
  BY <1>4 DEF StageFails, ReplaceOk, ReplaceFails
<1>5. CASE Quit \/ Crash
  BY <1>5 DEF Quit, Crash, Stop
<1>6. CASE UNCHANGED vars
  BY <1>6 DEF vars
<1>7. QED
  BY <1>1, <1>2, <1>3, <1>4, <1>5, <1>6
     DEF Next, Commit, Start, OpenContent, AppWrite, BeginFrame, EndFrame, Exit, CallPoll,
         Arm, Reset, ResetResync, SaveState, LoadState, LoadStateFails

\* What a file lacks has the shape of the file.
LEMMA OwedStep ==
  ASSUME TypeInv, [Next]_vars
  PROVE  OwedType'
<1> USE TypeSplit DEF OwedType
<1>1. CASE UNCHANGED owed
  BY <1>1
<1>2. ASSUME NEW r \in {"body", "rest"}, NEW v \in Data, AppWrite(r, v)
      PROVE  OwedType'
  <2>1. CASE Enabled
    <3>1. cw.path \in Path /\ Image(cw.path, flash') \in ImagesOf(cw.path)
      BY <2>1, MemoryStep, ArmedPath, ImageType DEF MemoryType
    <3>2. QED
      BY <1>2, <2>1, <3>1 DEF AppWrite
  <2>2. QED
    BY <1>2, <2>1 DEF AppWrite
<1>3. CASE ReplaceOk
  BY <1>3 DEF ReplaceOk
<1>4. CASE LoadState
  BY <1>4 DEF LoadState
<1>5. CASE Quit \/ Crash
  BY <1>5 DEF Quit, Crash, Stop, Nothing
<1>6. QED
  BY <1>1, <1>2, <1>3, <1>4, <1>5
     DEF Next, Commit, Start, OpenContent, BeginFrame, EndFrame, Exit, Poll, Backup,
         StageOk, StageFails, ReplaceFails, Arm, Reset, ResetResync, SaveState,
         LoadStateFails, history, vars

LEMMA TypeStep == TypeInv /\ [Next]_vars => TypeInv'
<1> SUFFICES ASSUME TypeInv, [Next]_vars PROVE TypeInv'
  OBVIOUS
<1>1. FilesType' /\ MemoryType' /\ OwedType' /\ CommitArmed' /\ Staged'
  BY FilesStep, MemoryStep, OwedStep, ControlStep
<1>2. QED
  BY <1>1 DEF TypeInv, TypeOK, FilesType, MemoryType, OwedType

\* Each variable keeps its type.  A file of p always has the shape of p or is
\* truncated, so a load of it (main, prompt_open_app) is always defined.
THEOREM TypeCorrect == Spec => []TypeOK
<1>1. Spec => []TypeInv
  BY TypeInit, TypeStep, PTL DEF Spec
<1>2. TypeInv => TypeOK
  BY DEF TypeInv
<1>3. QED
  BY <1>1, <1>2, PTL

-----------------------------------------------------------------------------
(* The file is never truncated, if fclose does not fail without a report.     *)

LEMMA AtomicInit == Init => AtomicInv
  BY TypeInit, FileAssumption
     DEF Init, AtomicInv, StagedImage, NeverTruncated

\* Each operation outside a commit, which leaves StagedImage vacuous.
LEMMA AtomicStep ==
  ASSUME "close" \notin Faults, AtomicInv, [Next]_vars
  PROVE  AtomicInv'
<1> USE TypeSplit, FileAssumption
    DEF AtomicInv, FilesType, MemoryType, CommitArmed, Staged, StagedImage,
        NeverTruncated, Writeback
<1>1. TypeInv'
  BY TypeStep
<1>2. CASE Poll \/ Backup
  BY <1>1, <1>2 DEF Poll, Backup, files, history
<1>3. CASE StageOk
  BY <1>1, <1>3 DEF StageOk, WriteTmp, history
<1>4. CASE ReplaceOk
  <2>1. cw.path \in Path /\ disk' = [disk EXCEPT ![cw.path] = Image(cw.path, flash)]
    BY <1>4 DEF ReplaceOk
  <2>2. Image(cw.path, flash) # Truncated
    BY <2>1, ImageType
  <2>3. QED
    BY <1>1, <1>4, <2>1, <2>2 DEF ReplaceOk
<1>5. CASE StageFails \/ ReplaceFails
  BY <1>1, <1>5 DEF StageFails, ReplaceFails, files
<1>6. CASE UNCHANGED vars
  BY <1>1, <1>6 DEF vars
<1>7. QED
  BY <1>1, <1>2, <1>3, <1>4, <1>5, <1>6
     DEF Next, Commit, Start, OpenContent, AppWrite, BeginFrame, EndFrame, Exit, CallPoll,
         Quit, Crash, Stop, Arm, Reset, ResetResync, SaveState, LoadState,
         LoadStateFails, files

\* With each failure of the file system that the code tests, and with a crash
\* at any point, the file of the user is complete.
THEOREM FileNeverTruncated ==
  ASSUME "close" \notin Faults
  PROVE  Spec => []NeverTruncated
<1>1. Init => AtomicInv
  BY AtomicInit
<1>2. AtomicInv /\ [Next]_vars => AtomicInv'
  BY AtomicStep
<1>3. AtomicInv => NeverTruncated
  BY DEF AtomicInv
<1>4. QED
  BY <1>1, <1>2, <1>3, PTL DEF Spec

-----------------------------------------------------------------------------
(* The commit of several steps implements the replacement in one step.        *)

LEMMA AtomicRefines ==
  ASSUME AtomicInv, TypeInv', [Next]_vars
  PROVE  [Atomic!Next]_(Atomic!vars)
<1> USE TypeSplit
    DEF AtomicInv, FilesType, MemoryType, CommitArmed, Writeback,
        Atomic!Next, Atomic!Change, Atomic!vars
<1>1. CASE ReplaceOk
  <2>1. cw.path \in Path /\ disk' = [disk EXCEPT ![cw.path] = Image(cw.path, flash)]
    BY <1>1 DEF ReplaceOk, StagedImage
  <2>2. UNCHANGED flash
    BY <1>1 DEF ReplaceOk
  <2>3. Atomic!Replace(cw.path)
    BY <2>1, <2>2 DEF Atomic!Replace
  <2>4. QED
    BY <2>1, <2>3
<1>2. CASE UNCHANGED disk
  BY <1>2 DEF TypeInv, TypeOK
<1>3. QED
  BY <1>1, <1>2
     DEF Next, Commit, Start, OpenContent, AppWrite, BeginFrame, EndFrame, Exit, Quit, Poll,
         Backup, StageOk, StageFails, ReplaceFails, Arm, Reset, ResetResync,
         SaveState, LoadState, LoadStateFails, Crash, files, vars

\* Between two replacements the file does not change, and a replacement gives
\* it the whole image of the flash of that moment.
THEOREM CommitIsAtomic ==
  ASSUME "close" \notin Faults
  PROVE  Spec => ImplementsAtomicFile
<1>1. Init => Atomic!Init
  <2>1. UNION {ImagesOf(p) : p \in Path}
          = UNION {{Image(p, fl) : fl \in Flash} : p \in Path}
    BY Zenon DEF ImagesOf
  <2>2. QED
    BY <2>1, NoFlashType DEF Init, Atomic!Init
<1>2. Init => AtomicInv
  BY AtomicInit
<1>3. AtomicInv /\ [Next]_vars => AtomicInv'
  BY AtomicStep
<1>4. AtomicInv /\ AtomicInv' /\ [Next]_vars => [Atomic!Next]_(Atomic!vars)
  BY AtomicRefines DEF AtomicInv
<1>5. QED
  BY <1>1, <1>2, <1>3, <1>4, PTL DEF Spec, ImplementsAtomicFile, Atomic!Spec

-----------------------------------------------------------------------------
(* The backup, if CopyFileA does not fail: its result is not tested.          *)

LEMMA BackupInit == Init => BackupInv
  BY TypeInit DEF Init, BackupInv, BackupTaken, BackupIsOriginal

LEMMA BackupStep ==
  ASSUME "copy" \notin Faults, BackupInv, [Next]_vars
  PROVE  BackupInv'
<1> USE TypeSplit, FileAssumption
    DEF BackupInv, FilesType, MemoryType, CommitArmed, BackupTaken,
        BackupIsOriginal, Writeback
<1>1. TypeInv'
  BY TypeStep
<1>2. CASE Poll
  BY <1>1, <1>2 DEF Poll, files, history
<1>3. CASE Backup
  <2>1. cw.path \in Path /\ disk[cw.path] # Absent
    BY <1>3, ConstantsAssumption DEF Backup
  <2>2. CASE bak[cw.path] = Absent
    <3>1. bak' = [bak EXCEPT ![cw.path] = original[cw.path]]
      BY <1>3, <2>1, <2>2 DEF Backup
    <3>2. original[cw.path] # Absent
      BY <2>1
    <3>3. QED
      BY <1>1, <1>3, <2>1, <3>1, <3>2 DEF Backup, history
  <2>3. CASE bak[cw.path] # Absent
    BY <1>1, <1>3, <2>1, <2>3 DEF Backup, history
  <2>4. QED
    BY <2>2, <2>3
<1>4. CASE StageOk
  BY <1>1, <1>4 DEF StageOk, history
<1>5. CASE ReplaceOk
  BY <1>1, <1>5 DEF ReplaceOk
<1>6. CASE StageFails \/ ReplaceFails
  BY <1>1, <1>6 DEF StageFails, ReplaceFails, files, history
<1>7. CASE UNCHANGED vars
  BY <1>1, <1>7 DEF vars
<1>8. CASE Crash
  <2>1. pc' = "off" /\ UNCHANGED <<disk, original>>
    BY <1>8 DEF Crash, Stop
  <2>2. \A p \in Path : bak'[p] = bak[p] \/ bak'[p] = Truncated
    BY <1>8 DEF Crash, WriteTmp
  <2>3. QED
    BY <1>1, <2>1, <2>2, ConstantsAssumption
<1>9. QED
  BY <1>1, <1>2, <1>3, <1>4, <1>5, <1>6, <1>7, <1>8
     DEF Next, Commit, Start, OpenContent, AppWrite, BeginFrame, EndFrame, Exit, CallPoll,
         Quit, Stop, Arm, Reset, ResetResync, SaveState, LoadState,
         LoadStateFails, files, history

\* Each file that the program changed has a .bak file, and across failures, deaths
\* at any point and restarts that file has the bytes from before the first change,
\* or the part of them that a copy left in which the process died.
THEOREM BackupHoldsOriginal ==
  ASSUME "copy" \notin Faults
  PROVE  Spec => []BackupIsOriginal
<1>1. Init => BackupInv
  BY BackupInit
<1>2. BackupInv /\ [Next]_vars => BackupInv'
  BY BackupStep
<1>3. BackupInv => BackupIsOriginal
  BY DEF BackupInv
<1>4. QED
  BY <1>1, <1>2, <1>3, PTL DEF Spec

-----------------------------------------------------------------------------
(* What reaches the disk is an edit, if no second file is opened and no state *)
(* fails after it replaced the flash (main.c:1077 and main.c:1203).           *)

\* Without an edit the flash holds the baseline, so that the poll commits only
\* an edit; and inside a commit the edit is still there.
EditInv ==
    /\ TypeInv
    /\ Enabled /\ ~edited => ~Differs
    /\ pc \in {"backup", "stage", "replace"} => edited

LEMMA EditInit == Init => EditInv
  BY TypeInit DEF Init, EditInv, Enabled, Disarmed

LEMMA EditStep ==
  ASSUME "open" \notin UserOps, "state" \notin Faults, EditInv, [Next]_vars
  PROVE  EditInv'
<1> USE TypeSplit DEF EditInv, MemoryType, Enabled, Differs, history
<1>1. TypeInv'
  BY TypeStep
<1>2. ASSUME NEW p \in Path, Start(p) PROVE EditInv'
  BY <1>1, <1>2 DEF Start, Disarmed, Accept
<1>3. ASSUME NEW r \in {"body", "rest"}, NEW v \in Data, AppWrite(r, v) PROVE EditInv'
  BY <1>1, <1>3 DEF AppWrite
<1>4. CASE Poll
  <2>1. cw'.path = cw.path /\ cw'.baseline = cw.baseline /\ UNCHANGED <<flash, edited>>
    BY <1>4 DEF Poll, Writeback
  <2>2. pc' \in {"backup", "stage", "replace"} => Enabled /\ Differs
    BY <1>4 DEF Poll
  <2>3. QED
    BY <1>1, <2>1, <2>2
<1>5. CASE Backup \/ StageOk \/ StageFails \/ ReplaceFails
  BY <1>1, <1>5 DEF Backup, StageOk, StageFails, ReplaceFails
<1>6. CASE ReplaceOk
  BY <1>1, <1>6 DEF ReplaceOk, Accept, Writeback
<1>7. CASE Quit \/ Crash
  BY <1>1, <1>7 DEF Quit, Crash, Stop, Disarmed
<1>8. CASE Arm
  BY <1>1, <1>8 DEF Arm, Accept
<1>9. CASE ResetResync
  BY <1>1, <1>9 DEF ResetResync, Resync, Writeback
<1>10. CASE LoadState
  BY <1>1, <1>10 DEF LoadState, Resync, Accept, Writeback
<1>11. CASE BeginFrame \/ EndFrame \/ Exit \/ Reset \/ SaveState \/ UNCHANGED vars
  BY <1>1, <1>11 DEF BeginFrame, EndFrame, Exit, Reset, SaveState, CallPoll, vars
<1>12. QED
  BY <1>2, <1>3, <1>4, <1>5, <1>6, <1>7, <1>8, <1>9, <1>10, <1>11
     DEF Next, Commit, OpenContent, LoadStateFails

\* A reset, a load of a state, a failed write or a restart never makes the
\* write-back change a file of the user: only an app that wrote does.
THEOREM OnlyEditsAreWritten ==
  ASSUME "open" \notin UserOps, "state" \notin Faults
  PROVE  Spec => OnlyEditsReachDisk
<1>1. Init => EditInv
  BY EditInit
<1>2. EditInv /\ [Next]_vars => EditInv'
  BY EditStep
<1>3. EditInv /\ [Next]_vars => [disk' # disk => edited]_vars
  <2> SUFFICES ASSUME EditInv, Next, disk' # disk PROVE edited
    BY DEF vars
  <2>1. CASE ReplaceOk
    BY <2>1 DEF ReplaceOk, EditInv
  <2>2. QED
    BY <2>1
       DEF Next, Commit, Start, OpenContent, AppWrite, BeginFrame, EndFrame, Exit, Quit,
           Poll, Backup, StageOk, StageFails, ReplaceFails, Arm, Reset, ResetResync, SaveState,
           LoadState, LoadStateFails, Crash, files
<1>4. QED
  BY <1>1, <1>2, <1>3, PTL DEF Spec, OnlyEditsReachDisk

-----------------------------------------------------------------------------
(* No edit is forgotten.  After a commit that failed, an open, a reset and a  *)
(* failed load of a state drop the edit (main.c:1077, 1106 and 1203), and a   *)
(* failed close hides that it is not in the file (content_writeback.c:139).   *)

WritesSucceed == {"write", "move"} \cap Faults = {}

EditsAreSafe ==
    /\ "close" \notin Faults
    /\ WritesSucceed \/ ({"open", "reset"} \cap UserOps = {} /\ "state" \notin Faults)

\* The write-back compares with what the file owes nothing for.
Aligned == Enabled => Image(cw.path, cw.baseline) = Image(cw.path, accepted)

\* What the file lacks is in the flash, at any point of a frame or a commit.
Pending == \A p \in Path : owed[p] # Absent =>
              p = cw.path /\ Image(p, flash) = owed[p] /\ owed[p] # Image(p, accepted)

\* Before the start nothing is owed, and if no write fails each poll leaves
\* nothing to do.
Settled ==
    /\ pc = "off" => owed = Nothing
    /\ WritesSucceed /\ pc \in {"events", "arm", "resync", "exit"} => owed = Nothing

\* The resynchronization of a reset comes when the file has what the flash has.
Resyncs == WritesSucceed /\ pc = "resync" /\ Enabled => ~Differs

\* Without the menu operations, and without a failed write, a poll returns to the
\* frame loop.
Returns == ~WritesSucceed => {pc, then} \cap {"arm", "resync"} = {}

OwedInv == AtomicInv /\ Aligned /\ Pending /\ Settled /\ Resyncs /\ Returns

LEMMA OwedInit == Init => OwedInv
  BY AtomicInit
     DEF Init, OwedInv, Aligned, Pending, Settled, Resyncs, Returns, Enabled, Differs,
         Disarmed, Nothing

LEMMA OwedIsNothing ==
  ASSUME TypeInv, \A p \in Path : owed[p] = Absent
  PROVE  owed = Nothing
  BY TypeSplit DEF OwedType, Nothing

\* An app writes: the file lacks what the flash has then, or nothing.
LEMMA OwedAppWrite ==
  ASSUME OwedInv, AtomicInv', NEW r \in {"body", "rest"}, NEW v \in Data, AppWrite(r, v)
  PROVE  OwedInv'
<1> USE TypeSplit DEF OwedInv, AtomicInv, MemoryType, OwedType
<1>1. UNCHANGED <<cw, pc, then, accepted>> /\ pc = "frame"
  BY DEF AppWrite
<1>2. Aligned' /\ Settled' /\ Resyncs' /\ Returns'
  BY <1>1 DEF Aligned, Settled, Resyncs, Returns, Enabled, Differs
<1>3. Pending'
  <2>1. CASE Enabled
    <3>1. cw.path \in Path
      BY <2>1, ArmedPath
    <3>2. QED
      BY <1>1, <2>1, <3>1 DEF AppWrite, Pending
  <2>2. CASE ~Enabled
    <3>1. \A p \in Path : owed[p] = Absent
      BY <2>2, ConstantsAssumption DEF Pending, Enabled
    <3>2. QED
      BY <2>2, <3>1 DEF AppWrite, Pending
  <2>3. QED
    BY <2>1, <2>2
<1>4. QED
  BY <1>2, <1>3

\* A poll that finds no difference, or a commit that succeeds, leaves nothing.
LEMMA OwedPoll ==
  ASSUME OwedInv, AtomicInv', Poll \/ ReplaceOk
  PROVE  OwedInv'
<1> USE TypeSplit DEF OwedInv, AtomicInv, MemoryType, OwedType, Writeback
<1>1. CASE Poll
  <2>1. /\ UNCHANGED <<owed, accepted, flash, then>> /\ pc = "poll"
        /\ cw'.path = cw.path /\ cw'.baseline = cw.baseline
    BY <1>1 DEF Poll, history
  <2>2. CASE Enabled /\ Differs
    <3>1. pc' = "backup"
      BY <1>1, <2>2 DEF Poll
    <3>2. QED
      BY <1>1, <2>1, <3>1 DEF Aligned, Pending, Settled, Resyncs, Returns, Enabled, Differs
  <2>3. CASE ~(Enabled /\ Differs)
    <3>1. \A p \in Path : owed[p] = Absent
      BY <2>3, ConstantsAssumption DEF Pending, Aligned, Enabled, Differs
    <3>2. owed = Nothing /\ pc' = then
      BY <1>1, <2>3, <3>1, OwedIsNothing DEF Poll
    <3>3. Aligned' /\ Pending' /\ Returns'
      BY <2>1, <3>1, <3>2 DEF Aligned, Pending, Returns, Enabled
    <3>4. Settled' /\ Resyncs'
      BY <2>1, <2>3, <3>2 DEF Settled, Resyncs, Enabled, Differs
    <3>5. QED
      BY <3>3, <3>4
  <2>4. QED
    BY <2>2, <2>3
<1>2. CASE ReplaceOk
  <2>1. /\ pc = "replace" /\ pc' = then /\ then' = then /\ flash' = flash /\ accepted' = flash
        /\ cw'.path = cw.path /\ cw'.baseline = flash
        /\ disk' = [disk EXCEPT ![cw.path] = Image(cw.path, flash)]
    BY <1>2 DEF ReplaceOk, Accept, StagedImage
  <2>2. cw.path \in Path /\ disk'[cw.path] = Image(cw.path, flash)
    BY <2>1 DEF CommitArmed, FilesType
  <2>3. \A p \in Path : owed'[p] = Absent
    BY <1>2, <2>2 DEF ReplaceOk, Pending
  <2>4. owed' = Nothing
    BY <1>2, <2>3 DEF ReplaceOk, Nothing
  <2>5. QED
    BY <2>1, <2>3, <2>4 DEF Aligned, Pending, Settled, Resyncs, Returns, Enabled, Differs
<1>3. QED
  BY <1>1, <1>2

\* A menu operation that replaces the flash or the baseline finds nothing owed,
\* or it is one for which the user gives the edit up.
LEMMA OwedMenu ==
  ASSUME EditsAreSafe, OwedInv, AtomicInv',
         (\E p \in Path : OpenContent(p)) \/ Arm \/ ResetResync \/ LoadState \/ LoadStateFails
  PROVE  OwedInv'
<1> USE TypeSplit DEF OwedInv, AtomicInv, MemoryType, OwedType
<1>1. CASE LoadState
  <2>1. /\ cw.path \in Path /\ pc = "events" /\ UNCHANGED <<pc, then>>
        /\ cw'.path = cw.path /\ cw'.baseline = flash' /\ accepted' = flash'
        /\ owed' = [owed EXCEPT ![cw.path] = Absent]
    BY <1>1, ArmedPath DEF LoadState, Resync, Accept, Writeback
  <2>2. \A p \in Path : owed'[p] = Absent
    BY <2>1 DEF Pending
  <2>3. owed' = Nothing
    BY <2>1, <2>2 DEF Nothing
  <2>4. QED
    BY <2>1, <2>2, <2>3 DEF Aligned, Pending, Settled, Resyncs, Returns, Enabled, Differs
<1>2. ASSUME (\E p \in Path : OpenContent(p)) \/ Arm \/ ResetResync \/ LoadStateFails
      PROVE  OwedInv'
  <2>1. WritesSucceed
    BY <1>2
       DEF EditsAreSafe, Returns, OpenContent, Arm, ResetResync, LoadStateFails
  <2>2. owed = Nothing /\ owed' = owed
    BY <1>2, <2>1 DEF Settled, OpenContent, Arm, ResetResync, LoadStateFails, history
  <2>3. \A p \in Path : owed'[p] = Absent
    BY <2>2 DEF Nothing
  <2>4. Aligned'
    <3>1. CASE ResetResync
      <4>1. /\ pc = "resync" /\ UNCHANGED <<flash, accepted>> /\ cw'.path = cw.path
            /\ Enabled => cw'.baseline = flash
        BY <3>1 DEF ResetResync, Resync, Enabled, Writeback, history
      <4>2. QED
        BY <2>1, <4>1 DEF Resyncs, Aligned, Enabled, Differs
    <3>2. QED
      BY <1>2, <3>1 DEF Aligned, Enabled, OpenContent, Arm, Accept, LoadStateFails, history
  <2>5. QED
    BY <1>2, <2>1, <2>2, <2>3, <2>4
       DEF Pending, Settled, Resyncs, Returns, OpenContent, CallPoll, Arm, ResetResync,
           LoadStateFails
<1>3. QED
  BY <1>1, <1>2

LEMMA OwedStepInv ==
  ASSUME EditsAreSafe, OwedInv, [Next]_vars
  PROVE  OwedInv'
<1> USE DEF OwedInv
<1>1. AtomicInv'
  BY AtomicStep DEF EditsAreSafe
<1>2. ASSUME NEW p \in Path, Start(p) PROVE OwedInv'
  <2>1. owed = Nothing /\ owed' = Nothing /\ pc' = "events" /\ then' = then
    BY <1>2 DEF Start, Settled
  <2>2. cw'.path # NoPath => cw'.baseline = accepted'
    BY <1>2 DEF Start, Disarmed, Accept
  <2>3. QED
    BY <1>1, <2>1, <2>2 DEF Aligned, Pending, Settled, Resyncs, Returns, Enabled, Differs, Nothing
<1>3. ASSUME NEW r \in {"body", "rest"}, NEW v \in Data, AppWrite(r, v) PROVE OwedInv'
  BY <1>1, <1>3, OwedAppWrite
<1>4. CASE Poll \/ ReplaceOk
  BY <1>1, <1>4, OwedPoll
<1>5. CASE (\E p \in Path : OpenContent(p)) \/ Arm \/ ResetResync \/ LoadState \/ LoadStateFails
  BY <1>1, <1>5, OwedMenu
<1>6. CASE Quit \/ Crash
  BY <1>1, <1>6
     DEF Quit, Crash, Stop, Disarmed, Aligned, Pending, Settled, Resyncs, Returns, Enabled,
         Differs, Nothing
<1>7. CASE BeginFrame \/ EndFrame \/ Exit \/ SaveState \/ Backup \/ StageOk
  BY <1>1, <1>7
     DEF BeginFrame, EndFrame, Exit, SaveState, Backup, StageOk, Aligned, Pending,
         Settled, Resyncs, Returns, Enabled, Differs, history
<1>8. CASE StageFails \/ ReplaceFails
  <2>1. ~WritesSucceed /\ pc' = then /\ UNCHANGED <<then, cw, flash, accepted, owed>>
    BY <1>8 DEF StageFails, ReplaceFails, WritesSucceed, history
  <2>2. then # "off"
    BY TypeSplit DEF AtomicInv, MemoryType
  <2>3. QED
    BY <1>1, <2>1, <2>2
       DEF Aligned, Pending, Settled, Resyncs, Returns, Enabled, Differs
<1>9. CASE Reset
  BY <1>1, <1>9
     DEF Reset, CallPoll, Aligned, Pending, Settled, Resyncs, Returns, Enabled, Differs,
         history, EditsAreSafe
<1>10. CASE UNCHANGED vars
  BY <1>1, <1>10 DEF vars, Aligned, Pending, Settled, Resyncs, Returns, Enabled, Differs
<1>11. QED
  BY <1>2, <1>3, <1>4, <1>5, <1>6, <1>7, <1>8, <1>9, <1>10 DEF Next, Commit

\* While the machine runs, each edit that a file lacks is one that the next poll
\* finds, whatever failed, was loaded, or was opened and reset before.
THEOREM EditIsNeverForgotten ==
  ASSUME EditsAreSafe
  PROVE  Spec => []EditNotForgotten
<1>1. Init => OwedInv
  BY OwedInit
<1>2. OwedInv /\ [Next]_vars => OwedInv'
  BY OwedStepInv
<1>3. OwedInv => EditNotForgotten
  BY ConstantsAssumption
     DEF OwedInv, Aligned, Pending, EditNotForgotten, Differs, Enabled
<1>4. QED
  BY <1>1, <1>2, <1>3, PTL DEF Spec
=============================================================================
