------------------------------ MODULE PanelUnit ------------------------------
(* What the user sees and hears between the registers of the software and the *)
(* host: the image of the LCD, and the gate of the sound that IOP opens and   *)
(* closes.  The host resets the machine, turns the image upright, and saves   *)
(* and loads states.                                                          *)
EXTENDS Naturals

-----------------------------------------------------------------------------
(* lcd.c: the framebuffer and the image that the host sees, as a record.      *)

CONSTANTS
    LcdRows,   \* the scanlines
    LcdBytes,  \* the bytes of a scanline
    LcdBits    \* the pixels of a byte

ASSUME LcdAssumption == {LcdRows, LcdBytes, LcdBits} \subseteq Nat \ {0}

LcdRow == 0..LcdRows - 1
LcdCol == 0..LcdBytes * LcdBits - 1

WhiteLine == [c \in LcdCol |-> FALSE]

\* lcd_reverse_bits32
Mirrored(line) == [c \in LcdCol |-> line[LcdBytes * LcdBits - 1 - c]]

\* lcd_present_row: the part of the image that one scanline gives.
PresentRow(lcd, r) ==
    CASE ~lcd.on -> [lcd EXCEPT !.presented[r] = WhiteLine]
      [] lcd.on /\ lcd.rotated ->
            [lcd EXCEPT !.presented[LcdRows - 1 - r] = Mirrored(lcd.vram[r])]
      [] OTHER -> [lcd EXCEPT !.presented[r] = lcd.vram[r]]

\* lcd_recompute_presented: each scanline in its row of the image.
PresentAll(lcd) ==
    LET from(r) == IF lcd.on /\ lcd.rotated THEN LcdRows - 1 - r ELSE r
    IN [lcd EXCEPT !.presented = [r \in LcdRow |-> PresentRow(lcd, from(r)).presented[r]]]

\* lcd_init: DISON is set and ROT is clear.
LcdReset == [vram |-> [r \in LcdRow |-> WhiteLine], presented |-> [r \in LcdRow |-> WhiteLine],
             on |-> TRUE, rotated |-> FALSE, dirty |-> FALSE]

\* The scanline with one byte of pixels in place of another.
WithByte(line, b, pixels) ==
    [c \in LcdCol |-> IF c \div LcdBits = b THEN pixels[c % LcdBits] ELSE line[c]]

\* lcd_write8: the image changes with the scanline of the write only.
WriteVram(lcd, r, b, pixels) ==
    [PresentRow([lcd EXCEPT !.vram[r] = WithByte(@, b, pixels)], r) EXCEPT !.dirty = TRUE]

\* lcd_mode_write8 of the low byte of LCD_MODE.
WriteLcdMode(lcd, on, rotated) ==
    [PresentAll([lcd EXCEPT !.on = on, !.rotated = rotated]) EXCEPT !.dirty = TRUE]

-----------------------------------------------------------------------------
CONSTANTS
    Pixels,    \* the bytes of pixels that the software writes
    MaxWrites  \* bound on its writes to the framebuffer

ASSUME PanelUnitAssumption ==
    /\ \A p \in Pixels : p \in [0..LcdBits - 1 -> BOOLEAN]
    /\ MaxWrites \in Nat

NoFile == [lcd |-> <<>>]

VARIABLES
    lcd,     \* lcd_t
    iop,     \* iop_t: the bits that are set, "sound" for IOP_BIT_SOUND_STOPPED
    muted,   \* iop_muted of dac_t
    file,    \* a saved state, or NoFile
    shown,   \* the image that the host drew last
    writes   \* a bound

panelVars == <<lcd, iop, muted, file, shown, writes>>

IopBits == {"sound", "other"}

\* psemu_create
PanelInit ==
    /\ lcd = LcdReset /\ shown = LcdReset.presented
    /\ iop = {} /\ muted = FALSE
    /\ file = NoFile /\ writes = 0

-----------------------------------------------------------------------------
WriteFramebuffer(r, b, pixels) ==
    /\ writes < MaxWrites
    /\ writes' = writes + 1
    /\ lcd' = WriteVram(lcd, r, b, pixels)
    /\ UNCHANGED <<iop, muted, file, shown>>

WriteLcdModeRegister(on, rotated) ==
    /\ lcd' = WriteLcdMode(lcd, on, rotated)
    /\ UNCHANGED <<iop, muted, file, shown, writes>>

\* iop_write8: IOP_STOP sets bits, IOP_START clears them, IOP_DATA replaces them.
IopWritten(register, bits) ==
    CASE register = "stop"  -> iop \cup bits
      [] register = "start" -> iop \ bits
      [] register = "data"  -> bits
      [] OTHER              -> iop

\* Mutant: only a write to IOP_STOP reaches the DAC.
WriteIopMutesOnly(register, bits) ==
    /\ iop' = IopWritten(register, bits)
    /\ muted' = (muted \/ "sound" \in iop')
    /\ UNCHANGED <<lcd, file, shown, writes>>

\* The bus gives the gate of each write of the block to the DAC.
WriteIop(register, bits) ==
    /\ iop' = IopWritten(register, bits)
    /\ muted' = ("sound" \in iop')
    /\ UNCHANGED <<lcd, file, shown, writes>>

-----------------------------------------------------------------------------
\* psemu_reset: the screen is drawn again.
PanelReset ==
    /\ lcd' = [LcdReset EXCEPT !.dirty = TRUE]
    /\ iop' = {} /\ muted' = FALSE
    /\ UNCHANGED <<file, shown, writes>>

\* psemu_lcd_clear_rot
ClearRot ==
    /\ lcd' = WriteLcdMode(lcd, lcd.on, FALSE)
    /\ UNCHANGED <<iop, muted, file, shown, writes>>

\* psemu_framebuffer_dirty, and a host that draws the frame if it has changed.
DrawFrame ==
    /\ lcd' = [lcd EXCEPT !.dirty = FALSE]
    /\ shown' = IF lcd.dirty THEN lcd.presented ELSE shown
    /\ UNCHANGED <<iop, muted, file, writes>>

\* psemu_save_state and psemu_load_state.  The file holds the framebuffer and the
\* image, the IOP register and the gate, and the flag.
SaveState ==
    /\ file' = [lcd |-> lcd, iop |-> iop, muted |-> muted]
    /\ UNCHANGED <<lcd, iop, muted, shown, writes>>

LoadState ==
    /\ file # NoFile
    /\ lcd' = file.lcd /\ iop' = file.iop /\ muted' = file.muted
    /\ UNCHANGED <<file, shown, writes>>

PanelNext ==
    \/ \E r \in LcdRow, b \in 0..LcdBytes - 1, p \in Pixels : WriteFramebuffer(r, b, p)
    \/ \E on, rotated \in BOOLEAN : WriteLcdModeRegister(on, rotated)
    \/ \E register \in {"ctrl", "stop", "start", "data"}, bits \in SUBSET IopBits :
           WriteIop(register, bits)
    \/ PanelReset \/ ClearRot \/ DrawFrame \/ SaveState \/ LoadState

PanelSpec == PanelInit /\ [][PanelNext]_panelVars

-----------------------------------------------------------------------------
\* The image is the framebuffer as a whole under the mode that holds now, off,
\* upright or turned by 180 degrees, though each write computes one scanline of
\* it (lcd.c:86).
ImageFollowsMode ==
    \A r \in LcdRow, c \in LcdCol :
        lcd.presented[r][c] =
            (lcd.on /\ IF lcd.rotated
                       THEN lcd.vram[LcdRows - 1 - r][LcdBytes * LcdBits - 1 - c]
                       ELSE lcd.vram[r][c])

\* The DAC is muted if and only if the IOP register stops the sound (iop.c:34).
GateFollowsIop == muted <=> "sound" \in iop

\* What the user sees and hears is what the registers say, after each order of
\* writes, resets, turns, saves and loads.
OutputFollowsRegisters == ImageFollowsMode /\ GateFollowsIop

\* A host that draws when psemu_framebuffer_dirty says so shows the image of the
\* machine (psemu.h:424).  It does not hold after LoadState: the file brings the
\* flag of its own time back.
FrameIsFresh == ~lcd.dirty => shown = lcd.presented
=============================================================================
