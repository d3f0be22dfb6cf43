---------------------------- MODULE RegisterFile -----------------------------
(* What the register banks promise: each register of each mode is one cell of *)
(* a flat file.  A change of mode moves no value: it writes the return address *)
(* of the new mode and the pc.  Any other step writes cells of one mode, its   *)
(* own or the user mode.                                                      *)
EXTENDS ArmRegisters

VARIABLES
    file,  \* the value of each register of each bank
    mode   \* the mode of the processor

AllCells == Cells \cup ({"all"} \X Unbanked)

\* The register that code of a mode sees as number n.
Home(m, n) == IF n \in Unbanked THEN <<"all", n>> ELSE Cell(BankIndex(m), n)

FileInit ==
    /\ file \in [AllCells -> Word]
    /\ mode \in Modes

WritesThrough(m) ==
    \A k \in AllCells : file'[k] # file[k] => k = Home(m, k[2])

Work == mode' = mode /\ \E m \in {mode, "usr"} : WritesThrough(m)

ChangeMode ==
    /\ mode' # mode
    /\ \A k \in AllCells : file'[k] # file[k] => k \in {Home(mode', 14), Home(mode', 15)}

FileStep ==
    /\ file' \in [AllCells -> Word]
    /\ mode' \in Modes
    /\ Work \/ ChangeMode

RegisterFileSpec == FileInit /\ [][FileStep]_<<file, mode>>
=============================================================================
