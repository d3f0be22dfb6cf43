------------------------------ MODULE FlashUnit ------------------------------
(* The card with the software that writes it: the routine of the kernel that  *)
(* programs and verifies a frame, the routine of an ID editor that writes     *)
(* F_SN and F_CAL, an app that stores through its window, and a reset of the  *)
(* machine at any time.  A routine is a list of halfword stores.              *)
EXTENDS Integers, Sequences, FiniteSetsExt

-----------------------------------------------------------------------------
(* flash.c: the card and its control registers as a record, with the unlock   *)
(* sequence, the program of a frame, the redirection of a header update and   *)
(* the window of an app.  Offsets keep their order and stand for themselves,  *)
(* on a card with few and small frames.                                       *)

CONSTANTS
    FrameSize,  \* bytes of a frame: what one program writes
    Banks,      \* blocks of the card, each of one bank of the window
    BankSize,   \* bytes of a block
    KeyOne,     \* F_KEY1 and F_KEY2: offsets of the low byte of their halfword
    KeyTwo,
    Header      \* offsets that a header update redirects to F_SN and F_CAL

CardSize == Banks * BankSize
Offset   == 0..CardSize - 1
Bank     == 0..Banks - 1

KeyBytes == {KeyOne, KeyOne + 1, KeyTwo, KeyTwo + 1}

FrameOf(a) == a - (a % FrameSize)

FlashAssumption ==
    /\ {FrameSize, Banks, BankSize} \subseteq Nat \ {0}
    /\ FrameSize % 2 = 0 /\ BankSize % FrameSize = 0
    /\ KeyBytes \cup Header \subseteq Offset /\ KeyBytes \cap Header = {}
    /\ KeyOne % 2 = 0 /\ KeyOne % FrameSize > 0
    /\ KeyTwo % 2 = 0 /\ KeyTwo % FrameSize > 0
    /\ FrameOf(KeyOne) # FrameOf(KeyTwo)

Byte == {0, 1}  \* two values: what a byte was, and what it becomes

FlashState ==
    [data : [Offset -> Byte], extra : [Header -> Byte],
     mask : SUBSET Bank, map : [Bank -> Bank], serial : BOOLEAN,
     unlock : 0..3, frame : Offset, left : 0..FrameSize - 1]

\* flash_reset_registers: the card, F_SN and F_CAL stay.
ResetRegisters(f) ==
    [f EXCEPT !.mask = {}, !.map = [b \in Bank |-> 0], !.serial = FALSE,
              !.unlock = 0, !.frame = 0, !.left = 0]

FlashPowerOn ==
    [data |-> [a \in Offset |-> 0], extra |-> [a \in Header |-> 0], mask |-> {},
     map |-> [b \in Bank |-> 0], serial |-> FALSE, unlock |-> 0, frame |-> 0, left |-> 0]

-----------------------------------------------------------------------------
(* FLASH2: the card with no window                                            *)

\* Mutant: the high byte of a key halfword is an event of its own.
CommandAtEachByte(f, a) ==
    [f EXCEPT !.unlock = CASE @ = 0 /\ a = KeyTwo -> 1
                           [] @ = 1 /\ a = KeyOne -> 2
                           [] @ = 2 /\ a = KeyTwo -> 3
                           [] OTHER -> 0]

\* A write to a key address: the low byte advances the sequence.
Command(f, a) ==
    IF a \in {KeyOne + 1, KeyTwo + 1} THEN f
    ELSE [f EXCEPT !.unlock = CASE @ = 0 /\ a = KeyTwo -> 1
                                [] @ = 1 /\ a = KeyOne -> 2
                                [] @ = 2 /\ a = KeyTwo -> 3
                                [] OTHER -> 0]

\* A write of data ends the sequence, and starts the program of its frame if
\* the sequence was complete.
Data8(f, a, v) ==
    LET starts == f.unlock = 3 /\ ~f.serial
    IN  [f EXCEPT !.data[a] = v, !.unlock = 0,
                  !.frame = IF starts THEN FrameOf(a) ELSE @,
                  !.left = IF starts THEN FrameSize - 1 ELSE @]

\* Mutant: an armed write goes to the header whatever F_WAIT2 selects.
RedirectsAlways(f, a) == f.unlock = 3 /\ a \in Header

Redirects(f, a) == f.unlock = 3 /\ f.serial /\ a \in Header

InProgram(f, a) == f.left > 0 /\ FrameOf(a) = f.frame

\* flash_write8
Write8(f, a, v) ==
    LET ended == [f EXCEPT !.left = 0]
    IN  CASE InProgram(f, a)      -> [f EXCEPT !.data[a] = v, !.left = @ - 1]
          [] ~InProgram(f, a) /\ a \in KeyBytes -> Command(ended, a)
          [] ~InProgram(f, a) /\ Redirects(ended, a) -> [ended EXCEPT !.extra[a] = v]
          [] OTHER                -> Data8(ended, a, v)

\* The halfword store of the CPU: two writes, the low byte first.
WriteHalf(f, a, v) == Write8(Write8(f, a, v), a + 1, v)

-----------------------------------------------------------------------------
(* FLASH1: the window of an app                                               *)

Lowest(banks) == IF banks = {} THEN 0 ELSE Min(banks)

\* flash_resolve_physical_bank: the enabled block that maps to the slot, or the
\* blocks in a row from the lowest enabled one.
Resolve(f, slot) ==
    LET mapped == {b \in f.mask : f.map[b] = slot}
    IN  IF mapped # {} THEN Min(mapped) ELSE Lowest(f.mask) + slot

Physical(f, a) ==
    (Resolve(f, (a \div BankSize) % Banks) * BankSize + (a % BankSize)) % CardSize

\* flash1_write8: discards a write to a key address.
WriteWindow8(f, a, v) ==
    IF Physical(f, a) \in KeyBytes THEN f ELSE [f EXCEPT !.data[Physical(f, a)] = v]

WriteWindowHalf(f, a, v) == WriteWindow8(WriteWindow8(f, a, v), a + 1, v)

-----------------------------------------------------------------------------
(* FLASH_CTRL                                                                 *)

\* flash_ctrl_write8 to F_WAIT2: bit 6 selects F_SN and F_CAL.
SelectTarget(f, serial) == [f EXCEPT !.serial = serial]

\* flash_ctrl_write8 to F_BANK_FLG and F_BANK_VAL.
SelectBanks(f, mask, map) == [f EXCEPT !.mask = mask, !.map = map]

\* flash_ctrl_write8 to F_EXTRA for each byte of a halfword, and
\* flash_set_serial of the host.
WriteExtraHalf(f, a, v) == [f EXCEPT !.extra[a] = v, !.extra[a + 1] = v]

-----------------------------------------------------------------------------
CONSTANTS
    Jobs,        \* the routines that software runs: "program", "header"
    Frames,      \* bound: offsets of the frames that software programs
    HeaderWords, \* the halfwords of a header update, in order
    Windows,     \* bound: <<mask, map>> that software writes to the bank registers
    Stores       \* bound: window addresses that an app stores a halfword to

ASSUME FlashBounds ==
    /\ FlashAssumption
    /\ Jobs \subseteq {"program", "header"}
    /\ Frames \subseteq {frame \in Offset : frame % FrameSize = 0}
    /\ HeaderWords \in Seq(Header)
    /\ Header = UNION {{HeaderWords[i], HeaderWords[i] + 1} : i \in DOMAIN HeaderWords}
    /\ Windows \subseteq (SUBSET Bank) \X [Bank -> Bank]
    /\ Stores \subseteq {a \in Offset : a % 2 = 0}

VARIABLES
    flash,  \* flash_t
    job     \* the routine that runs, with the unlock step it found at its start

flashVars == <<flash, job>>

NoJob == [kind |-> "none", frame |-> 0, value |-> 0, step |-> 0, found |-> 0]

FlashInit ==
    /\ flash = FlashPowerOn
    /\ job = NoJob

Idle == job.kind = "none"

FrameBytes(frame) == frame..frame + FrameSize - 1

\* The stores of a routine: the unlock sequence, and then its data.
StoresOf(j) ==
    <<KeyTwo, KeyOne, KeyTwo>> \o
    (IF j.kind = "program" THEN [i \in 1..FrameSize \div 2 |-> j.frame + 2 * (i - 1)]
                           ELSE HeaderWords)

Written == ~Idle /\ job.step > Len(StoresOf(job))

\* F_WAIT2 gets 0x21 or 0x41.
StartJob ==
    /\ Idle
    /\ \E kind \in Jobs, frame \in Frames, value \in Byte :
        /\ kind = "header" => frame = 0
        /\ flash' = SelectTarget(flash, kind = "header")
        /\ job' = [kind |-> kind, frame |-> frame, value |-> value, step |-> 1,
                   found |-> flash.unlock]

StoreOfJob ==
    /\ ~Idle /\ ~Written
    /\ flash' = WriteHalf(flash, StoresOf(job)[job.step], job.value)
    /\ job' = [job EXCEPT !.step = @ + 1]

\* The end of both routines clears F_WAIT2.
EndJob ==
    /\ Written
    /\ flash' = SelectTarget(flash, FALSE)
    /\ job' = NoJob

\* An app, or an interrupt handler of it while a routine runs, stores through
\* the window.  No app writes into a frame that is being programmed.
StoreOfApp ==
    \E a \in Stores, v \in Byte :
        /\ job.kind = "program" => Physical(flash, a) \notin FrameBytes(job.frame)
        /\ flash' = WriteWindowHalf(flash, a, v)
        /\ UNCHANGED job

MapWindow ==
    /\ Idle
    /\ \E w \in Windows : flash' = SelectBanks(flash, w[1], w[2])
    /\ UNCHANGED job

SetExtra ==
    /\ Idle
    /\ \E i \in DOMAIN HeaderWords, v \in Byte :
        flash' = WriteExtraHalf(flash, HeaderWords[i], v)
    /\ UNCHANGED job

ResetMachine ==
    /\ flash' = ResetRegisters(flash)
    /\ job' = NoJob

FlashNext ==
    \/ StartJob \/ StoreOfJob \/ EndJob
    \/ StoreOfApp \/ MapWindow \/ SetExtra \/ ResetMachine

FlashSpec == FlashInit /\ [][FlashNext]_flashVars

-----------------------------------------------------------------------------
FlashTypeOK ==
    /\ flash \in FlashState
    /\ job.step \in 0..Len(StoresOf(job)) + 1
    /\ job.found \in 0..3

Landed ==
    IF job.kind = "program"
    THEN \A a \in FrameBytes(job.frame) : flash.data[a] = job.value
    ELSE \A a \in Header : flash.extra[a] = job.value

HoldsKey(frame) == KeyBytes \cap FrameBytes(frame) # {}

\* "Those two frames must take data like each other frame": the kernel reads
\* back what it programmed, and a header update is in F_SN and F_CAL.  The one
\* exception is a routine that finds the flash armed by the header update
\* before it: its own unlock sequence then does not arm, and a frame with a key
\* address or the next header update fails.
VerifySucceeds ==
    Written => \/ Landed
               \/ job.found # 0 /\ (job.kind = "header" \/ HoldsKey(job.frame))

\* "The target depends on F_WAIT2, and not on the offset": the program of frame
\* 0 keeps the serial number, a program changes its own frame only, and the
\* header update of a flash at rest keeps the card.  "These addresses are not
\* storage locations", in each window: a byte at a key address changes only in
\* the program of its own frame.
WritesHitTheirTarget ==
    [][LET changed == {a \in Offset : flash'.data[a] # flash.data[a]}
           stores  == ~Idle /\ job'.step > job.step
       IN  /\ stores /\ job.kind = "program" =>
                 flash'.extra = flash.extra /\ changed \subseteq FrameBytes(job.frame)
           /\ stores /\ job.kind = "header" /\ job.found = 0 => changed = {}
           /\ changed \cap KeyBytes # {} =>
                 job.kind = "program" /\ changed \subseteq FrameBytes(job.frame)]_flashVars
=============================================================================
