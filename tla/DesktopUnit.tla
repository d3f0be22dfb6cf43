---------------------------- MODULE DesktopUnit ----------------------------
(* The shell of the desktop frontend (main.c): settings.cfg between the       *)
(* sessions of the program, the keys and colors in effect, the menu with its  *)
(* check marks, the title of the window, and what the menu and the hotkeys do *)
(* to the machine under a link that is up.  A dialog box is one step; while   *)
(* the program waits for the key of a row, the menu still operates.  Of the   *)
(* fields of settings.cfg that are stored and read alike, one stands for all: *)
(* the address for the port, the volume for the speaker.                      *)
EXTENDS Integers, Sequences

CONSTANTS
    Row,           \* rows of the key table; "reset", "save" and "load" are hotkeys
    DefaultKey,    \* the key of each row that nobody changed
    Keys,          \* the keys that the user presses
    Nameless,      \* keys for which SDL_GetScancodeName returns ""
    RowOrder,      \* the rows in the order in which settings.cfg has them
    Files,         \* contents of settings.cfg before the first session
    BiosPaths,     \* files that the user gives as BIOS
    DamagedStates, \* TRUE: a state can fail in psemu_load_state, after the clock moved
    BareStates,    \* TRUE: a state can be saved before a BIOS is loaded
    CutLines,      \* bound: the lines of settings.cfg at which a write is cut
    MaxCommands    \* bound: commands, keys and sessions of a behaviour

\* app_settings_t
SettingsOf(text) ==
    [bios : text, id : text, colors : text, keys : [Row -> text], datetime : text,
     volume : Int, shadows : BOOLEAN, address : text]

ASSUME DesktopAssumption ==
    /\ DefaultKey \in [Row -> Keys] /\ Nameless \subseteq Keys
    /\ RowOrder \in Seq(Row) /\ \A r \in Row : \E i \in DOMAIN RowOrder : RowOrder[i] = r
    /\ Row \cap {"bios", "id", "colors", "datetime", "volume", "address", "shadows"} = {}
    /\ Files \subseteq SettingsOf(STRING)
    /\ {DamagedStates, BareStates} \subseteq BOOLEAN /\ MaxCommands \in Nat

VARIABLES
    cfgFile,   \* settings.cfg
    written,   \* history of settings.cfg: whole when the last write, if any, went through;
               \* cut when its last lines are missing; torn when a session read such a file
    running,   \* "off", "on", or "ending" when the loop ends at its next test
    settings,  \* app_settings_t
    rows,      \* button_scancodes
    look,      \* pixel_rgba, bg_rgba and shadow_rgba; show_shadows
    capture,   \* rows that capture_next_key waits for, each one inside the one before
    bios,      \* revision of the BIOS in the machine
    link,      \* ir_link_t: state; and if the IR clock of the core ran on since on_connected
    window,    \* the title and the check marks
    savedSlot, \* a saved state
    used       \* commands so far

desktopVars ==
    <<cfgFile, written, running, settings, rows, look, capture, bios, link, window, savedSlot, used>>

NoCfg  == [none |-> TRUE]
EmptySlot == "no state"
Unbound == "unbound"           \* SDL_SCANCODE_UNKNOWN
Marker  == "(unbound)"         \* KEY_BINDING_UNBOUND_MARKER
Presets == {"classic", "standard", "reversed"}

-----------------------------------------------------------------------------
(* settings.cfg                                                               *)

\* SDL_GetScancodeName
NameOf(key) == IF key \in Nameless THEN "" ELSE key

DefaultSettings ==
    [bios |-> "", id |-> "default", colors |-> "classic", keys |-> [r \in Row |-> NameOf(DefaultKey[r])],
     datetime |-> "default", volume |-> 100, shadows |-> FALSE, address |-> ""]

ClampVolume(v) == IF v < 0 THEN 0 ELSE IF v > 100 THEN 100 ELSE v

\* load_settings: a field that is empty or absent gets its default, if it has one.
LoadSettings(f) ==
    IF f = NoCfg THEN DefaultSettings
    ELSE [f EXCEPT !.id = IF @ = "" THEN DefaultSettings.id ELSE @,
                   !.colors = IF @ = "" THEN DefaultSettings.colors ELSE @,
                   !.keys = [r \in Row |-> IF @[r] = "" THEN NameOf(DefaultKey[r]) ELSE @[r]],
                   !.volume = ClampVolume(@)]

\* The lines of settings.cfg.
CfgLines == <<"bios", "id", "colors">> \o RowOrder \o <<"datetime", "volume", "address", "shadows">>

\* load_settings at a line that ends too early: text is what it then reads of a path, an
\* id, an address or the name of a key.  The colors have three lines.
CutValues(s, line) ==
    CASE line \in {"bios", "id", "address"} \cup Row -> {"", "torn"}
      [] line = "colors" -> {"", "bad", IF s.colors = "classic" THEN "classic" ELSE "mixed"}
      [] line = "volume" -> {100, 0, s.volume \div 10}
      [] line = "datetime" -> {"default"}
      [] line = "shadows" -> {FALSE}

\* A settings.cfg that ends in line n or before it: value is what line n then reads as,
\* and the lines after it are absent.
CutFile(s, n, value) ==
    LET kept == {CfgLines[i] : i \in 1..(n - 1)}
        Read(line, whole, absent) ==
            IF line \in kept THEN whole ELSE IF line = CfgLines[n] THEN value ELSE absent
    IN [bios |-> Read("bios", s.bios, ""), id |-> Read("id", s.id, ""),
        colors |-> Read("colors", s.colors, ""),
        keys |-> [r \in Row |-> Read(r, s.keys[r], "")],
        datetime |-> Read("datetime", s.datetime, "default"),
        volume |-> Read("volume", s.volume, 100),
        shadows |-> Read("shadows", s.shadows, FALSE),
        address |-> Read("address", s.address, "")]

CutFiles(s) == UNION {{CutFile(s, n, value) : value \in CutValues(s, CfgLines[n])} : n \in CutLines \cap DOMAIN CfgLines}

\* What save_settings leaves of a file: it fails to open it, writes it whole, or, as
\* fopen empties the file and nobody reads the results of fprintf and fclose, leaves a
\* part when the disk is full or the process ends.
Writes(file, history, s) ==
    {[file |-> file, history |-> [history EXCEPT !.whole = FALSE]],
     [file |-> s, history |-> [history EXCEPT !.whole = TRUE, !.cut = FALSE]]}
    \cup {[file |-> f, history |-> [history EXCEPT !.whole = FALSE, !.cut = TRUE]] : f \in CutFiles(s)}

\* save_settings
SaveSettings(s) ==
    \E w \in Writes(cfgFile, written, s) : cfgFile' = w.file /\ written' = w.history

\* resolve_key_binding for each row.
ResolveKeys(names) ==
    [r \in Row |-> CASE names[r] = Marker -> Unbound
                     [] names[r] \in Keys -> names[r]
                     [] OTHER -> DefaultKey[r]]

\* Mutant: a row without a key is written as SDL names it.
KeyNamesPlain(bound) ==
    [r \in Row |-> IF bound[r] = Unbound THEN "" ELSE NameOf(bound[r])]

\* format_key_binding_name for each row: save_key_bindings.
KeyNames(bound) ==
    [r \in Row |-> IF bound[r] = Unbound THEN Marker ELSE NameOf(bound[r])]

\* parse_hex_rgb at the start: colors that nobody can read leave a mix that no preset has.
ParseColors(text) == IF text = "bad" THEN "unreadable" ELSE text

-----------------------------------------------------------------------------
(* What the window shows                                                      *)

\* ir_link_refresh_title
TitleOf(l) ==
    CASE l.state = "idle" -> "pokketstation"
      [] l.state = "hosting" -> "IR - Waiting..."
      [] l.state = "connecting" -> "IR - Connecting..."
      [] OTHER -> l.state

\* active_color_preset_id: 0 is "none".
ActiveColorPreset(colors) == IF colors \in Presets THEN colors ELSE "none"

\* sync_menu_state
MenuOf(s, colors, revision) ==
    [usable |-> revision = "known", datetime |-> s.datetime,
     volume |-> (ClampVolume(s.volume) + 5) \div 10, colors |-> ActiveColorPreset(colors)]

\* What the check marks are to show.
Synced == MenuOf(settings, look.colors, bios)

LinkIdle == [state |-> "idle", steady |-> TRUE]

-----------------------------------------------------------------------------
(* The session                                                                *)

DesktopInit ==
    /\ cfgFile = NoCfg /\ written = [whole |-> TRUE, cut |-> FALSE, torn |-> FALSE]
    /\ running = "off" /\ used = 0
    /\ settings = DefaultSettings /\ rows = DefaultKey
    /\ look = [colors |-> "classic", shadows |-> FALSE]
    /\ capture = <<>> /\ bios = "none" /\ link = LinkIdle /\ savedSlot = EmptySlot
    /\ window = [title |-> TitleOf(LinkIdle), menu |-> MenuOf(DefaultSettings, "classic", "none")]

\* The user brings a file from before, or edits one.
BringSettings(f) ==
    /\ running = "off" /\ used = 0 /\ cfgFile = NoCfg
    /\ cfgFile' = f
    /\ UNCHANGED <<written, running, settings, rows, look, capture, bios, link, window, savedSlot, used>>

\* The BIOS path: an argument, the stored one, or the file beside the program.
StartPaths(s) == BiosPaths \cup {IF s.bios # "" THEN s.bios ELSE "beside"}

\* main up to its loop.  The first session writes the file, and a BIOS that loads
\* writes its path.
MainStarts(revision) ==
    /\ running = "off" /\ used < MaxCommands
    /\ running' = "on" /\ used' = used + 1
    /\ LET read == LoadSettings(cfgFile) IN
       /\ \E path \in StartPaths(read) :
             settings' = IF revision = "none" THEN read ELSE [read EXCEPT !.bios = path]
       /\ rows' = ResolveKeys(read.keys)
       /\ look' = [colors |-> ParseColors(read.colors), shadows |-> read.shadows]
       /\ LET found == [file |-> cfgFile, history |-> [written EXCEPT !.whole = TRUE, !.torn = @ \/ written.cut]]
          IN \E one \in IF cfgFile = NoCfg THEN Writes(cfgFile, found.history, read) ELSE {found} :
             \E two \in IF revision # "none" THEN Writes(one.file, one.history, settings') ELSE {one} :
                cfgFile' = two.file /\ written' = two.history
    /\ bios' = revision /\ link' = LinkIdle /\ capture' = <<>>
    /\ window' = [title |-> TitleOf(LinkIdle), menu |-> MenuOf(settings', look'.colors, revision)]
    /\ UNCHANGED savedSlot

\* The end of the loop: the hold of the button, the last poll, the disconnect.
MainEnds ==
    /\ running = "ending" /\ capture = <<>>
    /\ running' = "off" /\ link' = LinkIdle
    /\ UNCHANGED <<cfgFile, written, settings, rows, look, capture, bios, window, savedSlot, used>>

\* The process ends at any other time, with the file as the last write left it.
ProcessEnds ==
    /\ running # "off"
    /\ running' = "off" /\ link' = LinkIdle /\ capture' = <<>>
    /\ UNCHANGED <<cfgFile, written, settings, rows, look, bios, window, savedSlot, used>>

-----------------------------------------------------------------------------
(* The machine under the link                                                 *)

Active(l) == l.state # "idle"

\* Mutant: the link stays up through a reset.
LinkAfterRestartStays(l) == [l EXCEPT !.steady = FALSE]

\* psemu_reset or psemu_load_state, and drop_ir_link_if_active.
LinkAfterRestart(l) == IF Active(l) THEN LinkIdle ELSE l

\* Mutant: nobody refreshes the title.
TitleAfterRestartStays == window.title

\* drop_ir_link_if_active and its refresh of the title.
TitleAfterRestart == IF Active(link) THEN TitleOf(LinkAfterRestart(link)) ELSE window.title

\* prompt_open_bios with a file that is a BIOS.
OpenBios(path, revision) ==
    /\ bios' = revision
    /\ settings' = [settings EXCEPT !.bios = path]
    /\ SaveSettings(settings')
    /\ link' = LinkAfterRestart(link)
    /\ window' = [title |-> TitleAfterRestart, menu |-> MenuOf(settings', look.colors, revision)]
    /\ UNCHANGED <<running, rows, look, capture, savedSlot>>

\* reset_emulation, and prompt_open_app with a file that is content; menu is what the
\* check marks show then.  ContentWriteback has what they do to the file of the card.
ResetEmulation(menu) ==
    /\ link' = LinkAfterRestart(link)
    /\ window' = [title |-> TitleAfterRestart, menu |-> menu]
    /\ UNCHANGED <<cfgFile, written, running, settings, rows, look, capture, bios, savedSlot>>

SaveStateToSlot ==
    /\ bios # "none" \/ BareStates
    /\ savedSlot' = bios
    /\ UNCHANGED <<cfgFile, written, running, settings, rows, look, capture, bios, link, window>>

\* load_state_from_slot with a state of this content and build.  has_bios comes
\* from the state, the BIOS itself stays.
LoadStateFromSlot ==
    /\ savedSlot # EmptySlot
    /\ bios' = CASE savedSlot = "none" -> "none"
                 [] savedSlot # "none" /\ bios = "none" -> "other"
                 [] OTHER -> bios
    /\ link' = LinkAfterRestart(link)
    /\ window' = [window EXCEPT !.title = TitleAfterRestart]
    /\ UNCHANGED <<cfgFile, written, running, settings, rows, look, capture, savedSlot>>

\* psemu_load_state fails in a late field, and the function returns.
LoadDamagedState ==
    /\ DamagedStates /\ savedSlot # EmptySlot
    /\ link' = [link EXCEPT !.steady = FALSE]
    /\ UNCHANGED <<cfgFile, written, running, settings, rows, look, capture, bios, window, savedSlot>>

-----------------------------------------------------------------------------
(* The commands of the menu: each is handled when the event loop polls, also  *)
(* the one in capture_next_key.  After all but those of the save-state slots  *)
(* the check marks are set again: sync_menu_state.                            *)

\* A command that changes stored settings, and what they show.
Store(s) ==
    /\ settings' = s /\ SaveSettings(s)
    /\ UNCHANGED <<running, rows, capture, bios, savedSlot>>

\* The volume and speaker items, and the date and time items.
ChooseSound(volume) ==
    /\ Store([settings EXCEPT !.volume = volume])
    /\ UNCHANGED <<look, link>>
    /\ window' = [window EXCEPT !.menu = Synced']

ChooseDatetime(source) ==
    /\ window.menu.usable
    /\ Store([settings EXCEPT !.datetime = source])
    /\ UNCHANGED <<look, link>>
    /\ window' = [window EXCEPT !.menu = Synced']

EditHardwareId(id) ==
    /\ Store([settings EXCEPT !.id = id])
    /\ UNCHANGED <<look, link>>
    /\ window' = [window EXCEPT !.menu = Synced']

\* apply_display_colors for a preset, prompt_advanced_colors for other colors.
ApplyDisplayColors(colors, shadows) ==
    /\ colors \in Presets => shadows = look.shadows
    /\ Store([settings EXCEPT !.colors = colors, !.shadows = shadows])
    /\ look' = [colors |-> colors, shadows |-> shadows]
    /\ window' = [window EXCEPT !.menu = Synced']
    /\ UNCHANGED link

\* Change... of a row: the program waits for a key.
ChangeRow(row) ==
    /\ Len(capture) < 2
    /\ capture' = Append(capture, row)
    /\ window' = [window EXCEPT !.menu = Synced]
    /\ UNCHANGED <<cfgFile, written, running, settings, rows, look, bios, link, savedSlot>>

Exit ==
    /\ running' = "ending"
    /\ window' = [window EXCEPT !.menu = Synced]
    /\ UNCHANGED <<cfgFile, written, settings, rows, look, capture, bios, link, savedSlot>>

\* ir_link_host_from_menu and its three companions; those of the network store the
\* address first.  The transport answers at once, later, or with a failure.
OpenLink(address, state) ==
    /\ state \in {"hosting", "connecting", "syncing", "error"}
    /\ IF address = "" THEN UNCHANGED <<settings, cfgFile, written, running, rows, capture, bios, savedSlot>>
                       ELSE Store([settings EXCEPT !.address = address])
    /\ link' = [state |-> state, steady |-> TRUE]
    /\ UNCHANGED look
    /\ window' = [title |-> TitleOf(link'), menu |-> Synced']

DisconnectLink ==
    /\ link' = LinkIdle
    /\ window' = [title |-> TitleOf(LinkIdle), menu |-> Synced]
    /\ UNCHANGED <<cfgFile, written, running, settings, rows, look, capture, bios, savedSlot>>

\* handle_windows_message
MenuCommand ==
    \/ \E path \in BiosPaths, revision \in {"known", "other"} : OpenBios(path, revision)
    \/ ResetEmulation(Synced) \/ SaveStateToSlot \/ LoadStateFromSlot \/ LoadDamagedState
    \/ \E volume \in {0, 50} : ChooseSound(volume)
    \/ \E source \in {"default", "os"} : ChooseDatetime(source)
    \/ EditHardwareId("other")
    \/ \E colors \in Presets \cup {"custom"}, s \in BOOLEAN : ApplyDisplayColors(colors, s)
    \/ \E row \in Row : ChangeRow(row)
    \/ \E address \in {"", "peer"}, state \in {"hosting", "connecting", "syncing", "error"} :
          OpenLink(address, state)
    \/ DisconnectLink \/ Exit

PolledCommand ==
    /\ running # "off" /\ used < MaxCommands
    /\ used' = used + 1
    /\ MenuCommand

-----------------------------------------------------------------------------
(* Keys                                                                       *)

\* The row gets the key, and the other row that had it loses it.
Remapped(bound, row, key) ==
    [r \in Row |-> CASE r = row -> key
                     [] bound[r] = key -> Unbound
                     [] OTHER -> bound[r]]

\* capture_next_key returns to prompt_remap_controls, the inner one first.
CaptureKey(key) ==
    /\ capture # <<>> /\ used < MaxCommands
    /\ used' = used + 1
    /\ capture' = SubSeq(capture, 1, Len(capture) - 1)
    /\ rows' = Remapped(rows, capture[Len(capture)], key)
    /\ settings' = [settings EXCEPT !.keys = KeyNames(rows')]
    /\ SaveSettings(settings')
    /\ UNCHANGED <<running, look, bios, link, window, savedSlot>>

\* Esc, or the window is closed.
CancelCapture ==
    /\ capture # <<>>
    /\ capture' = SubSeq(capture, 1, Len(capture) - 1)
    /\ UNCHANGED <<cfgFile, written, running, settings, rows, look, bios, link, window, savedSlot, used>>

\* A key in the main loop: the first hotkey row that has it.
PressKey(key) ==
    /\ running = "on" /\ capture = <<>> /\ used < MaxCommands
    /\ used' = used + 1
    /\ LET hit == {r \in Row \cap {"reset", "save", "load"} : rows[r] = key} IN
       CASE "reset" \in hit -> ResetEmulation(window.menu)
         [] "save" \in hit /\ "reset" \notin hit -> SaveStateToSlot
         [] hit = {"load"} -> LoadStateFromSlot \/ LoadDamagedState
         [] OTHER -> FALSE

-----------------------------------------------------------------------------
\* The states of a link that its pump can find: the transport connects or fails,
\* the clock samples arrive.
PumpedStates(l) ==
    CASE l.state \in {"hosting", "connecting"} -> {l.state, "syncing", "connected", "error"}
      [] l.state = "syncing" -> {"syncing", "connected", "error"}
      [] l.state = "connected" -> {"connected", "error"}
      [] OTHER -> {l.state}

\* ir_link_pump in the main loop, and the title when the status changed.
PumpLink(state) ==
    /\ running # "off" /\ capture = <<>>
    /\ state \in PumpedStates(link)
    /\ link' = [state |-> state,
                steady |-> link.state \in {"hosting", "connecting"} \/ link.steady]
    /\ window' = IF state # link.state THEN [window EXCEPT !.title = TitleOf(link')] ELSE window
    /\ UNCHANGED <<cfgFile, written, running, settings, rows, look, capture, bios, savedSlot, used>>

DesktopNext ==
    \/ \E f \in Files : BringSettings(f)
    \/ \E revision \in {"none", "known", "other"} : MainStarts(revision)
    \/ MainEnds \/ ProcessEnds
    \/ PolledCommand
    \/ \E key \in Keys : CaptureKey(key) \/ PressKey(key)
    \/ CancelCapture
    \/ \E state \in {"syncing", "connected", "error"} : PumpLink(state)

DesktopSpec == DesktopInit /\ [][DesktopNext]_desktopVars

-----------------------------------------------------------------------------
\* What the user chose is what the next session starts with: whatever commands,
\* remapped keys, failed and cut writes and ends of the program came before, the
\* file that the last write left whole gives the settings, the keys and the colors
\* in effect; and no two rows share a key until a session reads a file whose write
\* was cut (main.c:750, 781, 886, 2003).
SettingsSurvive ==
    running # "off" =>
        /\ written.whole => LET read == LoadSettings(cfgFile) IN
                   /\ read = settings
                   /\ ResolveKeys(read.keys) = rows
                   /\ [colors |-> ParseColors(read.colors), shadows |-> read.shadows] = look
        /\ ~written.torn => \A r, s \in Row : r # s /\ rows[r] = rows[s] => rows[r] = Unbound

\* Literally, the comment at main.c:248: a stop of the program loses no change.  A stop
\* in a write loses every line after it (README).
StopLosesNothing == running = "off" /\ written.cut => LoadSettings(cfgFile) = settings

\* A link that carries messages never lives through a reset or a loaded state of
\* the machine, from the menu, a hotkey or a menu command in a key capture
\* (main.c:1004).
LinkFollowsClock == link.state \in {"syncing", "connected"} => link.steady

\* The window says what is so: the title the state of the link, the menu the
\* settings, the colors and the BIOS (main.c:975, 2198).
ShellShowsState ==
    running # "off" =>
        /\ window.title = TitleOf(link)
        /\ window.menu = Synced
=============================================================================
