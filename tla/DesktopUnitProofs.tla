-------------------------- MODULE DesktopUnitProofs --------------------------
(* Proofs about DesktopUnit, for every key table, every content of            *)
(* settings.cfg and every number of commands and sessions.                    *)
EXTENDS DesktopUnit, TLAPS

-----------------------------------------------------------------------------
(* The link                                                                   *)

LEMMA RestartedLink ==
    LinkFollowsClock => (link' = LinkAfterRestart(link) => LinkFollowsClock')
BY DEF LinkFollowsClock, LinkAfterRestart, Active, LinkIdle

\* If a load never fails after it moved the clock, no link carries messages over
\* a reset or a load of the machine (drop_ir_link_if_active of main.c).
THEOREM LinkAlwaysFollowsClock ==
    ASSUME ~DamagedStates
    PROVE  DesktopSpec => []LinkFollowsClock
<1>1. DesktopInit => LinkFollowsClock
  BY DEF DesktopInit, LinkFollowsClock, LinkIdle
<1>2. LinkFollowsClock /\ [DesktopNext]_desktopVars => LinkFollowsClock'
  <2> SUFFICES ASSUME LinkFollowsClock, [DesktopNext]_desktopVars PROVE LinkFollowsClock'
    OBVIOUS
  <2>1. ASSUME link' = LinkAfterRestart(link) PROVE LinkFollowsClock'
    BY <2>1, RestartedLink
  <2>2. ASSUME UNCHANGED link PROVE LinkFollowsClock'
    BY <2>2 DEF LinkFollowsClock
  <2>3. ASSUME link' = LinkIdle PROVE LinkFollowsClock'
    BY <2>3 DEF LinkFollowsClock, LinkIdle
  <2>4. ASSUME NEW state, PumpLink(state) PROVE LinkFollowsClock'
    BY <2>4 DEF PumpLink, PumpedStates, LinkFollowsClock
  <2>5. ASSUME MenuCommand PROVE LinkFollowsClock'
    <3>1. ASSUME NEW address, NEW state, OpenLink(address, state) PROVE LinkFollowsClock'
      BY <3>1 DEF OpenLink, LinkFollowsClock
    <3> QED
      BY <2>1, <2>2, <2>3, <2>5, <3>1 DEF MenuCommand, OpenBios, ResetEmulation, SaveStateToSlot,
         LoadStateFromSlot, LoadDamagedState, ChooseSound, ChooseDatetime, EditHardwareId,
         ApplyDisplayColors, ChangeRow, DisconnectLink, Exit
  <2>6. ASSUME NEW key, PressKey(key) PROVE LinkFollowsClock'
    <3>1. ResetEmulation(window.menu) \/ SaveStateToSlot \/ LoadStateFromSlot \/ LoadDamagedState
      BY <2>6 DEF PressKey
    <3> QED
      BY <2>1, <2>2, <3>1 DEF ResetEmulation, SaveStateToSlot, LoadStateFromSlot, LoadDamagedState
  <2>7. ASSUME NEW f, BringSettings(f) PROVE UNCHANGED link
    BY <2>7 DEF BringSettings
  <2>8. ASSUME NEW revision, MainStarts(revision) PROVE link' = LinkIdle
    BY <2>8 DEF MainStarts
  <2>9. ASSUME MainEnds \/ ProcessEnds PROVE link' = LinkIdle
    BY <2>9 DEF MainEnds, ProcessEnds
  <2>10. ASSUME NEW key, CaptureKey(key) PROVE UNCHANGED link
    BY <2>10 DEF CaptureKey
  <2>11. ASSUME CancelCapture \/ UNCHANGED desktopVars PROVE UNCHANGED link
    BY <2>11 DEF CancelCapture, desktopVars
  <2> QED
    BY <2>2, <2>3, <2>4, <2>5, <2>6, <2>7, <2>8, <2>9, <2>10, <2>11 DEF DesktopNext, PolledCommand
<1> QED BY <1>1, <1>2, PTL DEF DesktopSpec

-----------------------------------------------------------------------------
(* The settings                                                               *)

\* No two rows share a key.
Distinct(bound) == \A r, s \in Row : r # s /\ bound[r] = bound[s] => bound[r] = Unbound

\* SDL has a name for each key, no key has the name of a marker, and neither the
\* table of the defaults nor a file from before gives two rows one key.
KeysAreNamed ==
    /\ Nameless = {} /\ {"", Marker, Unbound} \cap Keys = {}
    /\ Distinct(DefaultKey)
    /\ \A f \in Files : Distinct(ResolveKeys(LoadSettings(f).keys))

LEMMA DefaultNames ==
    ASSUME KeysAreNamed, NEW r \in Row
    PROVE  NameOf(DefaultKey[r]) = DefaultKey[r] /\ DefaultKey[r] \in Keys /\ DefaultKey[r] # ""
BY DesktopAssumption DEF KeysAreNamed, NameOf

\* The texts of the fields: those of files, and those that the program and its
\* user bring.
Text == STRING \cup Keys \cup BiosPaths \cup Presets
        \cup {"", "beside", "default", "os", "other", "custom", "peer", Marker, "torn", "bad", "mixed"}

Settings == SettingsOf(Text)

LEMMA FilesTyped == Files \subseteq Settings
<1> SUFFICES ASSUME NEW f \in Files PROVE f \in Settings
  OBVIOUS
<1>1. f \in SettingsOf(STRING) /\ STRING \subseteq Text
  BY DesktopAssumption DEF Text
<1> HIDE DEF Text
<1> QED BY <1>1 DEF Settings, SettingsOf

\* Settings that a write and a read keep.
Stable(s) == s \in Settings /\ LoadSettings(s) = s

LookOf(s) == [colors |-> ParseColors(s.colors), shadows |-> s.shadows]

LEMMA NotNoCfg == ASSUME NEW s \in Settings PROVE s # NoCfg
<1>1. DOMAIN s = {"bios", "id", "colors", "keys", "datetime", "volume", "shadows", "address"}
  BY DEF Settings, SettingsOf
<1>2. DOMAIN NoCfg = {"none"}
  BY DEF NoCfg
<1> QED BY <1>1, <1>2

LEMMA ClampKeeps == ASSUME NEW v \in 0..100 PROVE ClampVolume(v) = v
BY DEF ClampVolume

LEMMA ClampRange == ASSUME NEW v \in Int PROVE ClampVolume(v) \in 0..100
BY DEF ClampVolume

\* What a read makes of each field.
ReadId(s) == IF s.id = "" THEN "default" ELSE s.id
ReadColors(s) == IF s.colors = "" THEN "classic" ELSE s.colors
ReadKeys(s) == [r \in Row |-> IF s.keys[r] = "" THEN NameOf(DefaultKey[r]) ELSE s.keys[r]]

LEMMA LoadFields ==
    ASSUME KeysAreNamed, NEW f \in Settings
    PROVE  LET s == LoadSettings(f) IN
           /\ s \in Settings
           /\ s.id = ReadId(f) /\ s.colors = ReadColors(f) /\ s.keys = ReadKeys(f)
           /\ s.volume = ClampVolume(f.volume)
           /\ (ReadId(f) = f.id /\ ReadColors(f) = f.colors /\ ReadKeys(f) = f.keys
               /\ ClampVolume(f.volume) = f.volume) => s = f
<1> DEFINE s == LoadSettings(f)
           x == ReadId(f)  y == ReadColors(f)  z == ReadKeys(f)  w == ClampVolume(f.volume)
<1>1. s = [f EXCEPT !.id = x, !.colors = y, !.keys = z, !.volume = w]
  <2>1. DefaultSettings.id = "default" /\ DefaultSettings.colors = "classic"
    BY DEF DefaultSettings
  <2> QED BY <2>1, NotNoCfg DEF LoadSettings, Settings, SettingsOf, ReadId, ReadColors, ReadKeys
<1>2. f.keys \in [Row -> Text] /\ f.volume \in Int /\ f.id \in Text /\ f.colors \in Text
  BY DEF Settings, SettingsOf
<1>3. x \in Text /\ y \in Text
  <2>1. "default" \in Text /\ "classic" \in Text
    BY DEF Text, Presets
  <2> QED BY <1>2, <2>1, Zenon DEF ReadId, ReadColors
<1>4. z \in [Row -> Text]
  <2>1. \A r \in Row : NameOf(DefaultKey[r]) \in Text
    BY DefaultNames DEF Text
  <2> QED BY <1>2, <2>1 DEF ReadKeys
<1>5. w \in Int
  BY <1>2, ClampRange
<1> HIDE DEF s, x, y, z, w
<1>6. s \in Settings /\ s.id = x /\ s.colors = y /\ s.keys = z /\ s.volume = w
      /\ (x = f.id /\ y = f.colors /\ z = f.keys /\ w = f.volume => s = f)
  BY <1>1, <1>3, <1>4, <1>5 DEF Settings, SettingsOf
<1> QED BY <1>6 DEF s, x, y, z, w

\* When a read keeps the settings.
LEMMA StableFields ==
    ASSUME KeysAreNamed, NEW s \in Settings, s.id # "", s.colors # "", s.volume \in 0..100,
           \A r \in Row : s.keys[r] # ""
    PROVE  Stable(s)
<1>1. ReadKeys(s) = s.keys
  BY DEF Settings, SettingsOf, ReadKeys
<1>2. ClampVolume(s.volume) = s.volume
  BY ClampKeeps
<1>3. ReadId(s) = s.id /\ ReadColors(s) = s.colors
  BY Zenon DEF ReadId, ReadColors
<1> QED BY <1>1, <1>2, <1>3, LoadFields DEF Stable

\* The fields after a read.
LEMMA LoadedFields ==
    ASSUME KeysAreNamed, NEW f \in Settings
    PROVE  LET s == LoadSettings(f) IN
           /\ s \in Settings
           /\ s.id # "" /\ s.colors # "" /\ s.volume \in 0..100 /\ \A r \in Row : s.keys[r] # ""
<1> DEFINE s == LoadSettings(f)
<1>1. /\ s \in Settings
      /\ s.id = ReadId(f) /\ s.colors = ReadColors(f) /\ s.keys = ReadKeys(f)
      /\ s.volume = ClampVolume(f.volume)
  BY LoadFields
<1>2. f.volume \in Int
  BY DEF Settings, SettingsOf
<1> HIDE DEF s
<1>3. s.id # "" /\ s.colors # ""
  BY <1>1, Zenon DEF ReadId, ReadColors
<1>4. s.volume \in 0..100
  BY <1>1, <1>2, ClampRange
<1>5. \A r \in Row : s.keys[r] # ""
  BY <1>1, DefaultNames DEF ReadKeys
<1> QED BY <1>1, <1>3, <1>4, <1>5 DEF s

LEMMA StableHasFields ==
    ASSUME KeysAreNamed, NEW s, Stable(s)
    PROVE  s.id # "" /\ s.colors # "" /\ s.volume \in 0..100 /\ \A r \in Row : s.keys[r] # ""
BY LoadedFields DEF Stable

\* A read makes the settings stable.
LEMMA LoadIsStable ==
    ASSUME KeysAreNamed, NEW f, f \in Settings \/ f = NoCfg
    PROVE  Stable(LoadSettings(f))
<1>1. CASE f = NoCfg
  <2>1. LoadSettings(f) = DefaultSettings
    BY <1>1 DEF LoadSettings
  <2>2. DefaultSettings.keys = [r \in Row |-> NameOf(DefaultKey[r])]
    BY DEF DefaultSettings
  <2>3. DefaultSettings \in Settings
    <3>1. [r \in Row |-> NameOf(DefaultKey[r])] \in [Row -> Text]
      <4>1. \A r \in Row : NameOf(DefaultKey[r]) \in Text
        BY DefaultNames DEF Text
      <4> QED BY <4>1
    <3>2. "" \in Text /\ "default" \in Text /\ "classic" \in Text
      BY DEF Text, Presets
    <3> DEFINE k == [r \in Row |-> NameOf(DefaultKey[r])]
    <3>3. DefaultSettings = [bios |-> "", id |-> "default", colors |-> "classic", keys |-> k,
                             datetime |-> "default", volume |-> 100, shadows |-> FALSE,
                             address |-> ""]
      BY DEF DefaultSettings
    <3>4. k \in [Row -> Text]
      BY <3>1
    <3> HIDE DEF k
    <3> DEFINE e == ""  d == "default"  c == "classic"  v == 100  h == FALSE
    <3>5. e \in Text /\ d \in Text /\ c \in Text /\ v \in Int /\ h \in BOOLEAN
          /\ DefaultSettings = [bios |-> e, id |-> d, colors |-> c, keys |-> k, datetime |-> d,
                                volume |-> v, shadows |-> h, address |-> e]
      <4>1. e \in Text /\ d \in Text /\ c \in Text
        BY <3>2
      <4>2. v \in Int /\ h \in BOOLEAN
        OBVIOUS
      <4>3. DefaultSettings = [bios |-> e, id |-> d, colors |-> c, keys |-> k, datetime |-> d,
                               volume |-> v, shadows |-> h, address |-> e]
        BY <3>3
      <4> QED BY <4>1, <4>2, <4>3
    <3> HIDE DEF e, d, c, v, h
    <3>6. DefaultSettings \in SettingsOf(Text)
      BY <3>4, <3>5 DEF SettingsOf
    <3> QED BY <3>6 DEF Settings
  <2>4. \A r \in Row : DefaultSettings.keys[r] # ""
    BY <2>2, DefaultNames
  <2>5. DefaultSettings.id # "" /\ DefaultSettings.colors # ""
        /\ DefaultSettings.volume \in 0..100
    BY DEF DefaultSettings
  <2>6. Stable(DefaultSettings)
    BY <2>3, <2>4, <2>5, StableFields
  <2> QED BY <2>1, <2>6
<1>2. CASE f \in Settings
  BY <1>2, LoadedFields, StableFields
<1> QED BY <1>1, <1>2

\* A write of the key table and a read of it.
LEMMA NamesRoundTrip ==
    ASSUME KeysAreNamed, NEW bound \in [Row -> Keys \cup {Unbound}]
    PROVE  /\ KeyNames(bound) \in [Row -> Text]
           /\ \A r \in Row : KeyNames(bound)[r] # ""
           /\ ResolveKeys(KeyNames(bound)) = bound
<1>1. ASSUME NEW r \in Row
      PROVE  KeyNames(bound)[r] = IF bound[r] = Unbound THEN Marker ELSE bound[r]
  BY DEF KeyNames, NameOf, KeysAreNamed
<1>2. ASSUME NEW r \in Row PROVE KeyNames(bound)[r] # ""
  <2>1. CASE bound[r] = Unbound
    BY <1>1, <2>1 DEF Marker
  <2>2. CASE bound[r] # Unbound
    BY <1>1, <2>2 DEF KeysAreNamed
  <2> QED BY <2>1, <2>2
<1>3. ASSUME NEW r \in Row PROVE ResolveKeys(KeyNames(bound))[r] = bound[r]
  <2>1. CASE bound[r] = Unbound
    BY <1>1, <2>1 DEF ResolveKeys, KeysAreNamed
  <2>2. CASE bound[r] # Unbound
    <3>1. bound[r] \in Keys /\ bound[r] # Marker
      BY <2>2 DEF KeysAreNamed
    <3> QED BY <1>1, <2>2, <3>1 DEF ResolveKeys
  <2> QED BY <2>1, <2>2
<1>4. ASSUME NEW r \in Row PROVE KeyNames(bound)[r] \in Text
  BY <1>1 DEF Text
<1> QED BY <1>2, <1>3, <1>4 DEF ResolveKeys, KeyNames

LEMMA ResolvedType ==
    ASSUME NEW names PROVE ResolveKeys(names) \in [Row -> Keys \cup {Unbound}]
BY DesktopAssumption DEF ResolveKeys

LEMMA RemapType ==
    ASSUME NEW bound \in [Row -> Keys \cup {Unbound}], NEW row, NEW key \in Keys
    PROVE  Remapped(bound, row, key) \in [Row -> Keys \cup {Unbound}]
BY DEF Remapped

\* The remap of a row takes its key from the row that had it.
LEMMA RemapKeepsDistinct ==
    ASSUME KeysAreNamed, NEW bound \in [Row -> Keys \cup {Unbound}], Distinct(bound),
           NEW row, NEW key \in Keys
    PROVE  Distinct(Remapped(bound, row, key))
BY DEF Remapped, Distinct, KeysAreNamed

History == [whole : BOOLEAN, cut : BOOLEAN, torn : BOOLEAN]

\* A settings.cfg and what became of its writes: the keys of a file are distinct
\* unless a write was cut.
FileInv(file, history) ==
    /\ file \in Settings \/ file = NoCfg
    /\ history \in History
    /\ history.cut \/ history.torn \/ Distinct(ResolveKeys(LoadSettings(file).keys))

SettingsInv ==
    /\ FileInv(cfgFile, written)
    /\ rows \in [Row -> Keys \cup {Unbound}]
    /\ written.torn \/ Distinct(rows)
    /\ running # "off" =>
          /\ Stable(settings)
          /\ ResolveKeys(settings.keys) = rows /\ LookOf(settings) = look
          /\ written.whole => LoadSettings(cfgFile) = settings

\* A cut file is a file: load_settings finds a value of its type in each field.
LEMMA CutFileTyped ==
    ASSUME NEW s \in Settings, NEW n, NEW value \in CutValues(s, CfgLines[n])
    PROVE  CutFile(s, n, value) \in Settings
<1> DEFINE line == CfgLines[n]
           kept == {CfgLines[i] : i \in 1..(n - 1)}
           Read(l, whole, absent) ==
               IF l \in kept THEN whole ELSE IF l = line THEN value ELSE absent
<1>1. CutFile(s, n, value) =
         [bios |-> Read("bios", s.bios, ""), id |-> Read("id", s.id, ""),
          colors |-> Read("colors", s.colors, ""),
          keys |-> [r \in Row |-> Read(r, s.keys[r], "")],
          datetime |-> Read("datetime", s.datetime, "default"),
          volume |-> Read("volume", s.volume, 100),
          shadows |-> Read("shadows", s.shadows, FALSE),
          address |-> Read("address", s.address, "")]
  BY DEF CutFile
<1>2. /\ line \in {"bios", "id", "address"} \cup Row => value \in {"", "torn"}
      /\ line = "colors" => value \in {"", "bad", "classic", "mixed"}
      /\ line = "volume" => value \in {100, 0, s.volume \div 10}
      /\ line = "datetime" => value = "default"
      /\ line = "shadows" => value = FALSE
  <2>1. value \in CutValues(s, line)
    OBVIOUS
  <2>2. Row \cap {"bios", "id", "colors", "datetime", "volume", "address", "shadows"} = {}
    BY DesktopAssumption
  <2> HIDE DEF line
  <2> QED BY <2>1, <2>2 DEF CutValues
<1> HIDE DEF line, kept
<1>3. /\ s.bios \in Text /\ s.id \in Text /\ s.colors \in Text /\ s.keys \in [Row -> Text]
      /\ s.datetime \in Text /\ s.volume \in Int /\ s.shadows \in BOOLEAN /\ s.address \in Text
  BY DEF Settings, SettingsOf
<1>4. /\ "" \in Text /\ "torn" \in Text /\ "bad" \in Text
      /\ "classic" \in Text /\ "mixed" \in Text /\ "default" \in Text
  BY DEF Text, Presets
<1>5. /\ Read("bios", s.bios, "") \in Text /\ Read("id", s.id, "") \in Text
      /\ Read("colors", s.colors, "") \in Text
      /\ Read("datetime", s.datetime, "default") \in Text
      /\ Read("address", s.address, "") \in Text
  <2> DEFINE e == ""  d == "default"
  <2>1. ASSUME NEW l \in {"bios", "id", "colors", "datetime", "address"}, NEW w \in Text, NEW a \in Text
        PROVE  Read(l, w, a) \in Text
    <3>1. line = l => value \in Text
      BY <1>2, <1>4
    <3> QED BY <3>1, Zenon
  <2>2. e \in Text /\ d \in Text
    BY <1>4
  <2> HIDE DEF Read, e, d
  <2>3. /\ Read("bios", s.bios, e) \in Text /\ Read("id", s.id, e) \in Text
        /\ Read("colors", s.colors, e) \in Text
        /\ Read("datetime", s.datetime, d) \in Text
        /\ Read("address", s.address, e) \in Text
    BY <1>3, <2>1, <2>2
  <2> QED BY <2>3 DEF e, d
<1>6. [r \in Row |-> Read(r, s.keys[r], "")] \in [Row -> Text]
  <2> DEFINE e == ""
  <2>1. ASSUME NEW r \in Row PROVE Read(r, s.keys[r], e) \in Text
    <3>1. line = r => value \in Text
      BY <1>2, <1>4
    <3>2. s.keys[r] \in Text /\ e \in Text
      BY <1>3, <1>4
    <3> HIDE DEF e
    <3> QED BY <3>1, <3>2, Zenon
  <2> HIDE DEF Read
  <2>2. [r \in Row |-> Read(r, s.keys[r], e)] \in [Row -> Text]
    BY <2>1
  <2> QED BY <2>2 DEF e
<1>7. Read("volume", s.volume, 100) \in Int
  <2> DEFINE full == 100
  <2>1. ASSUME line = "volume" PROVE value \in Int
    <3>1. value \in {100, 0, s.volume \div 10}
      BY <1>2, <2>1, Zenon
    <3>2. s.volume \div 10 \in Int
      BY <1>3
    <3> QED BY <3>1, <3>2
  <2>2. full \in Int
    OBVIOUS
  <2> HIDE DEF full
  <2>3. Read("volume", s.volume, full) \in Int
    BY <1>3, <2>1, <2>2, Zenon
  <2> QED BY <2>3 DEF full
<1>8. Read("shadows", s.shadows, FALSE) \in BOOLEAN
  <2>1. FALSE \in BOOLEAN /\ (line = "shadows" => value \in BOOLEAN)
    BY <1>2
  <2> QED BY <1>3, <2>1, Zenon
<1> DEFINE b == Read("bios", s.bios, "")
           i == Read("id", s.id, "")
           c == Read("colors", s.colors, "")
           k == [r \in Row |-> Read(r, s.keys[r], "")]
           d == Read("datetime", s.datetime, "default")
           v == Read("volume", s.volume, 100)
           h == Read("shadows", s.shadows, FALSE)
           a == Read("address", s.address, "")
<1>9. CutFile(s, n, value) = [bios |-> b, id |-> i, colors |-> c, keys |-> k, datetime |-> d,
                              volume |-> v, shadows |-> h, address |-> a]
  BY <1>1
<1>10. /\ b \in Text /\ i \in Text /\ c \in Text /\ k \in [Row -> Text]
       /\ d \in Text /\ v \in Int /\ h \in BOOLEAN /\ a \in Text
  BY <1>5, <1>6, <1>7, <1>8
<1> HIDE DEF b, i, c, k, d, v, h, a
<1> QED BY <1>9, <1>10 DEF Settings, SettingsOf

\* What a write leaves, whether the file opened, and whole or cut.
LEMMA WritesKeep ==
    ASSUME NEW file, NEW history, FileInv(file, history),
           NEW s, Stable(s), history.torn \/ Distinct(ResolveKeys(s.keys)),
           NEW w \in Writes(file, history, s)
    PROVE  /\ FileInv(w.file, w.history) /\ w.history.torn = history.torn
           /\ w.history.whole => LoadSettings(w.file) = s
<1>0. history \in History /\ s \in Settings /\ LoadSettings(s) = s
  BY DEF FileInv, Stable
<1>1. CASE w = [file |-> file, history |-> [history EXCEPT !.whole = FALSE]]
  BY <1>0, <1>1 DEF FileInv, History
<1>2. CASE w = [file |-> s, history |-> [history EXCEPT !.whole = TRUE, !.cut = FALSE]]
  BY <1>0, <1>2 DEF FileInv, History
<1>3. ASSUME NEW f \in CutFiles(s),
             w = [file |-> f, history |-> [history EXCEPT !.whole = FALSE, !.cut = TRUE]]
      PROVE  /\ FileInv(w.file, w.history) /\ w.history.torn = history.torn
             /\ ~w.history.whole
  <2>1. f \in Settings
    BY <1>0, CutFileTyped DEF CutFiles
  <2> QED BY <1>0, <1>3, <2>1 DEF FileInv, History
<1> QED BY <1>1, <1>2, <1>3 DEF Writes

LEMMA DefaultsDistinct ==
    ASSUME KeysAreNamed PROVE Distinct(ResolveKeys(LoadSettings(NoCfg).keys))
<1>1. LoadSettings(NoCfg).keys = [r \in Row |-> DefaultKey[r]]
  BY DefaultNames DEF LoadSettings, DefaultSettings
<1>2. \A r \in Row : ResolveKeys(LoadSettings(NoCfg).keys)[r] = DefaultKey[r]
  BY <1>1, DefaultNames DEF ResolveKeys, KeysAreNamed
<1> QED BY <1>2 DEF KeysAreNamed, Distinct

\* A command or a remapped key that stores settings s keeps the invariant.
LEMMA StoreKeepsInv ==
    ASSUME SettingsInv, running # "off", SaveSettings(settings'), Stable(settings'),
           rows' \in [Row -> Keys \cup {Unbound}], written.torn \/ Distinct(rows'),
           ResolveKeys(settings'.keys) = rows', LookOf(settings') = look'
    PROVE  SettingsInv'
<1>1. PICK w \in Writes(cfgFile, written, settings') : cfgFile' = w.file /\ written' = w.history
  BY DEF SaveSettings
<1>2. /\ FileInv(w.file, w.history) /\ w.history.torn = written.torn
      /\ w.history.whole => LoadSettings(w.file) = settings'
  BY WritesKeep DEF SettingsInv
<1> QED BY <1>1, <1>2 DEF SettingsInv, FileInv

LEMMA SettingsInitInv == KeysAreNamed /\ DesktopInit => SettingsInv
<1> SUFFICES ASSUME KeysAreNamed, DesktopInit PROVE SettingsInv
  OBVIOUS
<1>1. DefaultKey \in [Row -> Keys \cup {Unbound}] /\ Distinct(DefaultKey)
  BY DesktopAssumption DEF KeysAreNamed
<1> QED BY <1>1, DefaultsDistinct DEF DesktopInit, SettingsInv, FileInv, History

\* The stored settings stay: a command that stores nothing, the link, the window.
LEMMA OthersKeepInv ==
    ASSUME SettingsInv, UNCHANGED <<cfgFile, written, settings, rows, look>>,
           running # "off" \/ running' = "off"
    PROVE  SettingsInv'
BY DEF SettingsInv, FileInv

\* A change of a field that a read takes as it is.
LEMMA ChangeOfPath ==
    ASSUME KeysAreNamed, NEW s, Stable(s), NEW text \in Text
    PROVE  LET t == [s EXCEPT !.bios = text] IN
           Stable(t) /\ t.keys = s.keys /\ LookOf(t) = LookOf(s)
<1> DEFINE t == [s EXCEPT !.bios = text]
<1>1. s \in Settings /\ s.id # "" /\ s.colors # "" /\ s.volume \in 0..100 /\ \A r \in Row : s.keys[r] # ""
  BY StableHasFields DEF Stable
<1>2. t \in Settings /\ t.id = s.id /\ t.colors = s.colors /\ t.volume = s.volume
      /\ t.keys = s.keys /\ t.shadows = s.shadows
  BY <1>1 DEF Settings, SettingsOf
<1> HIDE DEF t
<1>3. Stable(t)
  BY <1>1, <1>2, StableFields
<1> QED BY <1>2, <1>3 DEF t, LookOf

LEMMA ChangeOfVolume ==
    ASSUME KeysAreNamed, NEW s, Stable(s), NEW v \in 0..100
    PROVE  LET t == [s EXCEPT !.volume = v] IN
           Stable(t) /\ t.keys = s.keys /\ LookOf(t) = LookOf(s)
<1> DEFINE t == [s EXCEPT !.volume = v]
<1>1. s \in Settings /\ s.id # "" /\ s.colors # "" /\ s.volume \in 0..100 /\ \A r \in Row : s.keys[r] # ""
  BY StableHasFields DEF Stable
<1>2. t \in Settings /\ t.id = s.id /\ t.colors = s.colors /\ t.volume = v
      /\ t.keys = s.keys /\ t.shadows = s.shadows
  <2>1. v \in Int
    OBVIOUS
  <2> QED BY <1>1, <2>1 DEF Settings, SettingsOf
<1> HIDE DEF t
<1>3. Stable(t)
  BY <1>1, <1>2, StableFields
<1> QED BY <1>2, <1>3 DEF t, LookOf

LEMMA ChangeOfDatetime ==
    ASSUME KeysAreNamed, NEW s, Stable(s), NEW text \in Text
    PROVE  LET t == [s EXCEPT !.datetime = text] IN
           Stable(t) /\ t.keys = s.keys /\ LookOf(t) = LookOf(s)
<1> DEFINE t == [s EXCEPT !.datetime = text]
<1>1. s \in Settings /\ s.id # "" /\ s.colors # "" /\ s.volume \in 0..100 /\ \A r \in Row : s.keys[r] # ""
  BY StableHasFields DEF Stable
<1>2. t \in Settings /\ t.id = s.id /\ t.colors = s.colors /\ t.volume = s.volume
      /\ t.keys = s.keys /\ t.shadows = s.shadows
  BY <1>1 DEF Settings, SettingsOf
<1> HIDE DEF t
<1>3. Stable(t)
  BY <1>1, <1>2, StableFields
<1> QED BY <1>2, <1>3 DEF t, LookOf

LEMMA ChangeOfId ==
    ASSUME KeysAreNamed, NEW s, Stable(s), NEW text \in Text, text # ""
    PROVE  LET t == [s EXCEPT !.id = text] IN
           Stable(t) /\ t.keys = s.keys /\ LookOf(t) = LookOf(s)
<1> DEFINE t == [s EXCEPT !.id = text]
<1>1. s \in Settings /\ s.id # "" /\ s.colors # "" /\ s.volume \in 0..100 /\ \A r \in Row : s.keys[r] # ""
  BY StableHasFields DEF Stable
<1>2. t \in Settings /\ t.id = text /\ t.colors = s.colors /\ t.volume = s.volume
      /\ t.keys = s.keys /\ t.shadows = s.shadows
  BY <1>1 DEF Settings, SettingsOf
<1> HIDE DEF t
<1>4. t.id # ""
  BY <1>2, Zenon
<1>3. Stable(t)
  BY <1>1, <1>2, <1>4, StableFields
<1> QED BY <1>2, <1>3 DEF t, LookOf

LEMMA ChangeOfAddress ==
    ASSUME KeysAreNamed, NEW s, Stable(s), NEW text \in Text
    PROVE  LET t == [s EXCEPT !.address = text] IN
           Stable(t) /\ t.keys = s.keys /\ LookOf(t) = LookOf(s)
<1> DEFINE t == [s EXCEPT !.address = text]
<1>1. s \in Settings /\ s.id # "" /\ s.colors # "" /\ s.volume \in 0..100 /\ \A r \in Row : s.keys[r] # ""
  BY StableHasFields DEF Stable
<1>2. t \in Settings /\ t.id = s.id /\ t.colors = s.colors /\ t.volume = s.volume
      /\ t.keys = s.keys /\ t.shadows = s.shadows
  BY <1>1 DEF Settings, SettingsOf
<1> HIDE DEF t
<1>3. Stable(t)
  BY <1>1, <1>2, StableFields
<1> QED BY <1>2, <1>3 DEF t, LookOf

\* The colors of the menu and of the dialog.
LEMMA ChangeOfColors ==
    ASSUME KeysAreNamed, NEW s, Stable(s),
           NEW colors \in Presets \cup {"custom"}, NEW shadows \in BOOLEAN
    PROVE  LET t == [s EXCEPT !.colors = colors, !.shadows = shadows] IN
           Stable(t) /\ t.keys = s.keys /\ LookOf(t) = [colors |-> colors, shadows |-> shadows]
<1> DEFINE t == [s EXCEPT !.colors = colors, !.shadows = shadows]
<1>1. s \in Settings /\ s.id # "" /\ s.volume \in 0..100 /\ \A r \in Row : s.keys[r] # ""
  BY StableHasFields DEF Stable
<1>2. colors \in Text
  BY DEF Text
<1>3. colors # "" /\ colors # "bad"
  BY DEF Presets
<1>4. t \in Settings /\ t.id = s.id /\ t.colors = colors /\ t.volume = s.volume
      /\ t.keys = s.keys /\ t.shadows = shadows
  BY <1>1, <1>2 DEF Settings, SettingsOf
<1> HIDE DEF t
<1>5. t.id # "" /\ t.colors # "" /\ t.colors # "bad"
  BY <1>1, <1>3, <1>4, Zenon
<1>6. Stable(t)
  BY <1>1, <1>4, <1>5, StableFields
<1>7. LookOf(t) = [colors |-> colors, shadows |-> shadows]
  BY <1>4, <1>5 DEF LookOf, ParseColors
<1> QED BY <1>4, <1>6, <1>7 DEF t

\* The key table.
LEMMA ChangeOfKeys ==
    ASSUME KeysAreNamed, NEW s, Stable(s), NEW bound \in [Row -> Keys \cup {Unbound}]
    PROVE  LET t == [s EXCEPT !.keys = KeyNames(bound)] IN
           Stable(t) /\ ResolveKeys(t.keys) = bound /\ LookOf(t) = LookOf(s)
<1> DEFINE t == [s EXCEPT !.keys = KeyNames(bound)]
<1>1. s \in Settings /\ s.id # "" /\ s.colors # "" /\ s.volume \in 0..100
  BY StableHasFields DEF Stable
<1>2. /\ KeyNames(bound) \in [Row -> Text] /\ \A r \in Row : KeyNames(bound)[r] # ""
      /\ ResolveKeys(KeyNames(bound)) = bound
  BY NamesRoundTrip
<1>3. t \in Settings /\ t.id = s.id /\ t.colors = s.colors /\ t.volume = s.volume
      /\ t.keys = KeyNames(bound) /\ t.shadows = s.shadows
  BY <1>1, <1>2 DEF Settings, SettingsOf
<1> HIDE DEF t
<1>4. Stable(t)
  BY <1>1, <1>2, <1>3, StableFields
<1>5. LookOf(t) = LookOf(s)
  BY <1>3 DEF LookOf
<1> QED BY <1>2, <1>3, <1>4, <1>5 DEF t

-----------------------------------------------------------------------------
(* Each step keeps the settings, the keys and the look in effect.             *)

LEMMA MainStartsKeeps ==
    ASSUME KeysAreNamed, SettingsInv, NEW revision, MainStarts(revision) PROVE SettingsInv'
<1> DEFINE read == LoadSettings(cfgFile)
           found == [file |-> cfgFile, history |-> [written EXCEPT !.whole = TRUE, !.torn = @ \/ written.cut]]
<1>1. Stable(read)
  BY LoadIsStable DEF SettingsInv, FileInv
<1>2. PICK path \in StartPaths(read) :
         settings' = IF revision = "none" THEN read ELSE [read EXCEPT !.bios = path]
  BY DEF MainStarts
<1>3. /\ rows' = ResolveKeys(read.keys)
      /\ look' = [colors |-> ParseColors(read.colors), shadows |-> read.shadows]
      /\ running' = "on"
  BY DEF MainStarts
<1>0. PICK one \in IF cfgFile = NoCfg THEN Writes(cfgFile, found.history, read) ELSE {found} :
         \E two \in IF revision # "none" THEN Writes(one.file, one.history, settings') ELSE {one} :
            cfgFile' = two.file /\ written' = two.history
  BY DEF MainStarts
<1>4. PICK two \in IF revision # "none" THEN Writes(one.file, one.history, settings') ELSE {one} :
         cfgFile' = two.file /\ written' = two.history
  BY <1>0
<1>5. /\ FileInv(found.file, found.history) /\ found.file = cfgFile
      /\ found.history.torn \/ Distinct(ResolveKeys(read.keys))
  BY DEF SettingsInv, FileInv, History
<1>6. LoadSettings(found.file) = read
  BY <1>5
<1> HIDE DEF read, found
<1>7. /\ FileInv(one.file, one.history) /\ one.history.torn = found.history.torn
      /\ one.history.whole => LoadSettings(one.file) = read
  <2>1. CASE cfgFile = NoCfg
    BY <1>0, <1>1, <1>5, <2>1, WritesKeep
  <2>2. CASE cfgFile # NoCfg
    BY <1>0, <1>5, <1>6, <2>2
  <2> QED BY <2>1, <2>2
<1>8. Stable(settings') /\ settings'.keys = read.keys /\ LookOf(settings') = LookOf(read)
  <2>1. CASE revision = "none"
    BY <1>1, <1>2, <2>1
  <2>2. CASE revision # "none"
    <3>1. settings' = [read EXCEPT !.bios = path]
      BY <1>2, <2>2
    <3>2. read \in Settings
      BY <1>1 DEF Stable
    <3>3. path \in Text
      BY <3>2 DEF StartPaths, Settings, SettingsOf, Text
    <3> QED BY <1>1, <3>1, <3>3, ChangeOfPath
  <2> QED BY <2>1, <2>2
<1>9. /\ FileInv(two.file, two.history) /\ two.history.torn = found.history.torn
      /\ two.history.whole => LoadSettings(two.file) = settings'
  <2>1. CASE revision = "none"
    BY <1>2, <1>4, <1>7, <2>1
  <2>2. CASE revision # "none"
    BY <1>4, <1>5, <1>7, <1>8, <2>2, WritesKeep
  <2> QED BY <2>1, <2>2
<1>10. look' = LookOf(settings') /\ rows' = ResolveKeys(settings'.keys)
  BY <1>3, <1>8 DEF LookOf
<1>11. rows' \in [Row -> Keys \cup {Unbound}] /\ (found.history.torn \/ Distinct(rows'))
  BY <1>3, <1>5, ResolvedType
<1> QED BY <1>4, <1>8, <1>9, <1>10, <1>11 DEF SettingsInv, FileInv

LEMMA CommandKeeps ==
    ASSUME KeysAreNamed, SettingsInv, running # "off", MenuCommand PROVE SettingsInv'
<1>0. /\ Stable(settings) /\ ResolveKeys(settings.keys) = rows /\ LookOf(settings) = look
      /\ rows \in [Row -> Keys \cup {Unbound}] /\ (written.torn \/ Distinct(rows))
  BY DEF SettingsInv
\* Settings s with the look and the keys that the program has.
<1>1. ASSUME NEW s, settings' = s, SaveSettings(s), UNCHANGED <<rows, look>>,
             Stable(s), s.keys = settings.keys, LookOf(s) = LookOf(settings)
      PROVE  SettingsInv'
  BY <1>0, <1>1, StoreKeepsInv
<1>2. ASSUME NEW path \in BiosPaths, NEW revision, OpenBios(path, revision) PROVE SettingsInv'
  <2>1. path \in Text
    BY DEF Text
  <2> QED BY <1>0, <1>1, <1>2, <2>1, ChangeOfPath DEF OpenBios
<1>3. ASSUME NEW volume \in {0, 50}, ChooseSound(volume) PROVE SettingsInv'
  <2>1. volume \in 0..100
    OBVIOUS
  <2> QED BY <1>0, <1>1, <1>3, <2>1, ChangeOfVolume DEF ChooseSound, Store
<1>4. ASSUME NEW source \in {"default", "os"}, ChooseDatetime(source) PROVE SettingsInv'
  <2>1. source \in Text
    BY DEF Text
  <2> QED BY <1>0, <1>1, <1>4, <2>1, ChangeOfDatetime DEF ChooseDatetime, Store
<1>5. ASSUME EditHardwareId("other") PROVE SettingsInv'
  <2>1. "other" \in Text
    BY DEF Text
  <2>2. "other" # ""
    OBVIOUS
  <2> QED BY <1>0, <1>1, <1>5, <2>1, <2>2, ChangeOfId DEF EditHardwareId, Store
<1>6. ASSUME NEW colors \in Presets \cup {"custom"}, NEW shadows \in BOOLEAN,
             ApplyDisplayColors(colors, shadows)
      PROVE  SettingsInv'
  <2> DEFINE t == [settings EXCEPT !.colors = colors, !.shadows = shadows]
  <2>1. settings' = t /\ SaveSettings(t) /\ UNCHANGED rows
        /\ look' = [colors |-> colors, shadows |-> shadows]
    BY <1>6 DEF ApplyDisplayColors, Store
  <2>2. Stable(t) /\ t.keys = settings.keys /\ LookOf(t) = look'
    BY <1>0, <2>1, ChangeOfColors
  <2> HIDE DEF t
  <2> QED BY <1>0, <2>1, <2>2, StoreKeepsInv
<1>7. ASSUME NEW address \in {"", "peer"}, NEW state, OpenLink(address, state) PROVE SettingsInv'
  <2>1. CASE address = ""
    BY <1>7, <2>1, OthersKeepInv DEF OpenLink
  <2>2. CASE address # ""
    <3>1. address \in Text
      BY DEF Text
    <3> QED BY <1>0, <1>1, <1>7, <2>2, <3>1, ChangeOfAddress DEF OpenLink, Store
  <2> QED BY <2>1, <2>2
<1>8. ASSUME ResetEmulation(Synced) \/ SaveStateToSlot \/ LoadStateFromSlot \/ LoadDamagedState
             \/ DisconnectLink \/ Exit
      PROVE  SettingsInv'
  BY <1>8, OthersKeepInv DEF ResetEmulation, SaveStateToSlot, LoadStateFromSlot,
     LoadDamagedState, DisconnectLink, Exit
<1>9. ASSUME NEW row, ChangeRow(row) PROVE SettingsInv'
  BY <1>9, OthersKeepInv DEF ChangeRow
<1> QED BY <1>2, <1>3, <1>4, <1>5, <1>6, <1>7, <1>8, <1>9 DEF MenuCommand

\* No row waits for a key while the program does not run.
CaptureInv == running = "off" => capture = <<>>

LEMMA CaptureStep == CaptureInv /\ [DesktopNext]_desktopVars => CaptureInv'
<1> SUFFICES ASSUME CaptureInv, [DesktopNext]_desktopVars PROVE CaptureInv'
  OBVIOUS
<1>1. ASSUME PolledCommand PROVE running' # "off"
  BY <1>1 DEF PolledCommand, MenuCommand, OpenBios, ResetEmulation, SaveStateToSlot, LoadStateFromSlot,
     LoadDamagedState, Store, ChooseSound, ChooseDatetime, EditHardwareId, ApplyDisplayColors,
     ChangeRow, OpenLink, DisconnectLink, Exit
<1>2. ASSUME NEW f, BringSettings(f) PROVE CaptureInv'
  BY <1>2 DEF BringSettings, CaptureInv
<1>3. ASSUME NEW revision, MainStarts(revision) PROVE CaptureInv'
  BY <1>3 DEF MainStarts, CaptureInv
<1>4. ASSUME MainEnds \/ ProcessEnds PROVE CaptureInv'
  BY <1>4 DEF MainEnds, ProcessEnds, CaptureInv
<1>5. ASSUME NEW key, CaptureKey(key) PROVE CaptureInv'
  BY <1>5 DEF CaptureKey, CaptureInv
<1>6. ASSUME NEW key, PressKey(key) PROVE CaptureInv'
  <2>1. running = "on"
        /\ (ResetEmulation(window.menu) \/ SaveStateToSlot \/ LoadStateFromSlot \/ LoadDamagedState)
    BY <1>6 DEF PressKey
  <2> QED BY <2>1 DEF ResetEmulation, SaveStateToSlot, LoadStateFromSlot, LoadDamagedState, CaptureInv
<1>7. ASSUME CancelCapture \/ UNCHANGED desktopVars PROVE CaptureInv'
  BY <1>7 DEF CancelCapture, desktopVars, CaptureInv
<1>8. ASSUME NEW state, PumpLink(state) PROVE CaptureInv'
  BY <1>8 DEF PumpLink, CaptureInv
<1> QED
  BY <1>1, <1>2, <1>3, <1>4, <1>5, <1>6, <1>7, <1>8 DEF DesktopNext, CaptureInv

LEMMA SettingsStep ==
    ASSUME KeysAreNamed
    PROVE  SettingsInv /\ CaptureInv /\ [DesktopNext]_desktopVars => SettingsInv'
<1> SUFFICES ASSUME SettingsInv, CaptureInv, [DesktopNext]_desktopVars PROVE SettingsInv'
  OBVIOUS
<1>1. ASSUME NEW f \in Files, BringSettings(f) PROVE SettingsInv'
  <2>1. f \in Settings /\ Distinct(ResolveKeys(LoadSettings(f).keys))
    BY FilesTyped DEF KeysAreNamed
  <2>2. cfgFile' = f /\ running' = "off" /\ rows' = rows /\ written' = written
    BY <1>1 DEF BringSettings
  <2> QED BY <2>1, <2>2 DEF SettingsInv, FileInv
<1>2. ASSUME NEW revision, MainStarts(revision) PROVE SettingsInv'
  BY <1>2, MainStartsKeeps
<1>3. ASSUME MainEnds \/ ProcessEnds PROVE SettingsInv'
  BY <1>3, OthersKeepInv DEF MainEnds, ProcessEnds
<1>4. ASSUME PolledCommand PROVE SettingsInv'
  BY <1>4, CommandKeeps DEF PolledCommand
<1>5. ASSUME NEW key \in Keys, CaptureKey(key) PROVE SettingsInv'
  <2> DEFINE bound == Remapped(rows, capture[Len(capture)], key)
             t == [settings EXCEPT !.keys = KeyNames(bound)]
  <2>1. rows' = bound /\ settings' = t /\ SaveSettings(settings') /\ UNCHANGED <<running, look>>
    BY <1>5 DEF CaptureKey
  <2>2. bound \in [Row -> Keys \cup {Unbound}] /\ (written.torn \/ Distinct(bound))
    BY RemapType, RemapKeepsDistinct DEF SettingsInv
  <2> HIDE DEF bound
  <2>3. running # "off"
    BY <1>5 DEF CaptureKey, CaptureInv
  <2>4. Stable(settings) /\ LookOf(settings) = look
    BY <2>3 DEF SettingsInv
  <2>5. Stable(t) /\ ResolveKeys(t.keys) = bound /\ LookOf(t) = LookOf(settings)
    BY <2>2, <2>4, ChangeOfKeys
  <2> HIDE DEF t
  <2> QED BY <2>1, <2>2, <2>3, <2>4, <2>5, StoreKeepsInv
<1>6. ASSUME NEW key, PressKey(key) PROVE SettingsInv'
  <2>1. ResetEmulation(window.menu) \/ SaveStateToSlot \/ LoadStateFromSlot \/ LoadDamagedState
    BY <1>6 DEF PressKey
  <2>2. running # "off"
    BY <1>6 DEF PressKey
  <2> QED BY <2>1, <2>2, OthersKeepInv DEF ResetEmulation, SaveStateToSlot, LoadStateFromSlot,
         LoadDamagedState
<1>7. ASSUME CancelCapture \/ UNCHANGED desktopVars PROVE SettingsInv'
  BY <1>7 DEF CancelCapture, desktopVars, SettingsInv, FileInv
<1>8. ASSUME NEW state, PumpLink(state) PROVE SettingsInv'
  BY <1>8, OthersKeepInv DEF PumpLink
<1> QED BY <1>1, <1>2, <1>3, <1>4, <1>5, <1>6, <1>7, <1>8 DEF DesktopNext

\* With a name for each key and no file from before that gives two rows one key: the
\* file that a write leaves whole is what the user chose, whatever commands, remapped
\* keys, writes that fail or are cut at any line, and ends of the program come before
\* it; and no two rows share a key until a session reads a file whose write was cut
\* (save_settings, load_settings and prompt_remap_controls of main.c).
THEOREM SettingsAlwaysSurvive ==
    ASSUME KeysAreNamed
    PROVE  DesktopSpec => []SettingsSurvive
<1>1. DesktopInit => SettingsInv /\ CaptureInv
  BY SettingsInitInv DEF DesktopInit, CaptureInv
<1>2. SettingsInv /\ CaptureInv /\ [DesktopNext]_desktopVars => SettingsInv' /\ CaptureInv'
  BY SettingsStep, CaptureStep
<1>3. SettingsInv => SettingsSurvive
  BY DEF SettingsInv, SettingsSurvive, Distinct, LookOf
<1> QED BY <1>1, <1>2, <1>3, PTL DEF DesktopSpec

-----------------------------------------------------------------------------
(* The window                                                                 *)

Shown(title, menu) == [title |-> title, menu |-> menu]

LEMMA NewTitle ==
    ASSUME NEW title, NEW menu, NEW text
    PROVE  [Shown(title, menu) EXCEPT !.title = text] = Shown(text, menu)
<1> DEFINE r == Shown(title, menu)
           t == [r EXCEPT !.title = text]
<1>1. r \in [title : {title, text}, menu : {menu}]
  BY DEF Shown
<1> HIDE DEF r
<1>2. t \in [title : {title, text}, menu : {menu}] /\ t.title = text
  BY <1>1
<1> HIDE DEF t
<1>3. t = [title |-> text, menu |-> menu]
  BY <1>2
<1> QED BY <1>3 DEF t, r, Shown

LEMMA NewMenu ==
    ASSUME NEW title, NEW menu, NEW marks
    PROVE  [Shown(title, menu) EXCEPT !.menu = marks] = Shown(title, marks)
<1> DEFINE r == Shown(title, menu)
           t == [r EXCEPT !.menu = marks]
<1>1. r \in [title : {title}, menu : {menu, marks}]
  BY DEF Shown
<1> HIDE DEF r
<1>2. t \in [title : {title}, menu : {menu, marks}] /\ t.menu = marks
  BY <1>1
<1> HIDE DEF t
<1>3. t = [title |-> title, menu |-> marks]
  BY <1>2
<1> QED BY <1>3 DEF t, r, Shown

LinkState == {"idle", "hosting", "connecting", "syncing", "connected", "error"}
LinkType == [state : LinkState, steady : BOOLEAN]

\* The window of a program that runs; a saved state has a BIOS.
ShellInv ==
    /\ running # "off" => window = Shown(TitleOf(link), Synced)
    /\ savedSlot # "none"
    /\ link \in LinkType

\* A reset or a load of the machine, with the menu that is shown then.
LEMMA RestartKeepsShown ==
    ASSUME window = Shown(TitleOf(link), Synced), link \in LinkType,
           link' = LinkAfterRestart(link)
    PROVE  TitleAfterRestart = TitleOf(link') /\ link' \in LinkType
<1>1. window.title = TitleOf(link)
  BY DEF Shown
<1>2. CASE Active(link)
  BY <1>2 DEF TitleAfterRestart, LinkAfterRestart, LinkType, LinkState, LinkIdle
<1>3. CASE ~Active(link)
  BY <1>1, <1>3 DEF TitleAfterRestart, LinkAfterRestart
<1> QED BY <1>2, <1>3

LEMMA SaveKeepsShell ==
    ASSUME ~BareStates, SaveStateToSlot, link \in LinkType, window = Shown(TitleOf(link), Synced)
    PROVE  ShellInv'
<1>1. bios # "none" /\ savedSlot' = bios /\ UNCHANGED <<link, window, settings, look, bios>>
  BY DEF SaveStateToSlot
<1> QED BY <1>1 DEF ShellInv, Synced

LEMMA LoadKeepsShell ==
    ASSUME LoadStateFromSlot \/ LoadDamagedState, savedSlot # "none", link \in LinkType,
           window = Shown(TitleOf(link), Synced)
    PROVE  ShellInv'
<1>1. CASE LoadStateFromSlot
  <2>1. /\ bios' = bios \/ (bios = "none" /\ bios' = "other")
        /\ link' = LinkAfterRestart(link) /\ window' = [window EXCEPT !.title = TitleAfterRestart]
        /\ UNCHANGED <<settings, look, savedSlot>>
    BY <1>1 DEF LoadStateFromSlot
  <2>2. (bios' = "known") = (bios = "known")
    BY <2>1
  <2>3. Synced' = Synced
    BY <2>1, <2>2 DEF Synced, MenuOf
  <2>4. window' = Shown(TitleAfterRestart, Synced)
    BY <2>1, NewTitle
  <2> QED BY <2>1, <2>3, <2>4, RestartKeepsShown DEF ShellInv
<1>2. CASE LoadDamagedState
  <2>1. link' = [link EXCEPT !.steady = FALSE] /\ UNCHANGED <<window, settings, look, bios, savedSlot>>
    BY <1>2 DEF LoadDamagedState
  <2>2. link' \in LinkType /\ link'.state = link.state
    BY <2>1 DEF LinkType
  <2>3. TitleOf(link') = TitleOf(link)
    BY <2>2 DEF TitleOf
  <2> QED BY <2>1, <2>2, <2>3 DEF ShellInv, Synced
<1> QED BY <1>1, <1>2

LEMMA ShellStep ==
    ASSUME ~BareStates PROVE ShellInv /\ CaptureInv /\ [DesktopNext]_desktopVars => ShellInv'
<1> SUFFICES ASSUME ShellInv, CaptureInv, [DesktopNext]_desktopVars PROVE ShellInv'
  OBVIOUS
<1>0. link \in LinkType /\ savedSlot # "none"
  BY DEF ShellInv
\* The check marks depend on the settings, the colors and the BIOS only.
<1>1. ASSUME UNCHANGED <<settings, look, bios>> PROVE Synced' = Synced
  BY <1>1 DEF Synced
<1>2. ASSUME MenuCommand, running # "off" PROVE ShellInv'
  <2>0. window = Shown(TitleOf(link), Synced)
    BY <1>2 DEF ShellInv
  <2>1. ASSUME NEW path, NEW revision, OpenBios(path, revision) PROVE ShellInv'
    <3>1. Synced' = MenuOf(settings', look.colors, revision) /\ UNCHANGED savedSlot
      BY <2>1 DEF OpenBios, Synced
    <3>2. window' = Shown(TitleAfterRestart, Synced') /\ link' = LinkAfterRestart(link)
      BY <2>1, <3>1 DEF OpenBios, Shown
    <3> QED BY <1>0, <2>0, <3>1, <3>2, RestartKeepsShown DEF ShellInv
  <2>2. ASSUME ResetEmulation(Synced) PROVE ShellInv'
    <3>1. window' = Shown(TitleAfterRestart, Synced) /\ link' = LinkAfterRestart(link)
          /\ Synced' = Synced /\ UNCHANGED savedSlot
      BY <1>1, <2>2 DEF ResetEmulation, Shown
    <3> QED BY <1>0, <2>0, <3>1, RestartKeepsShown DEF ShellInv
  <2>3. ASSUME SaveStateToSlot PROVE ShellInv'
    BY <1>0, <1>1, <2>0, <2>3, SaveKeepsShell
  <2>4. ASSUME LoadStateFromSlot \/ LoadDamagedState PROVE ShellInv'
    BY <1>0, <2>0, <2>4, LoadKeepsShell
  \* A command that shows the check marks again.
  <2>5. ASSUME UNCHANGED <<link, savedSlot>>, window' = [window EXCEPT !.menu = Synced'] PROVE ShellInv'
    BY <1>0, <2>0, <2>5, NewMenu DEF ShellInv
  <2>6. ASSUME NEW volume, ChooseSound(volume) PROVE ShellInv'
    BY <2>5, <2>6 DEF ChooseSound, Store
  <2>7. ASSUME NEW source, ChooseDatetime(source) PROVE ShellInv'
    BY <2>5, <2>7 DEF ChooseDatetime, Store
  <2>8. ASSUME NEW id, EditHardwareId(id) PROVE ShellInv'
    BY <2>5, <2>8 DEF EditHardwareId, Store
  <2>9. ASSUME NEW colors, NEW shadows, ApplyDisplayColors(colors, shadows) PROVE ShellInv'
    BY <2>5, <2>9 DEF ApplyDisplayColors, Store
  <2>10. ASSUME NEW row, ChangeRow(row) PROVE ShellInv'
    BY <1>1, <2>5, <2>10 DEF ChangeRow
  <2>11. ASSUME Exit PROVE ShellInv'
    BY <1>1, <2>5, <2>11 DEF Exit
  <2>12. ASSUME NEW address, NEW state, OpenLink(address, state) PROVE ShellInv'
    <3>1. link' = [state |-> state, steady |-> TRUE] /\ state \in {"hosting", "connecting", "syncing", "error"}
          /\ window' = Shown(TitleOf(link'), Synced') /\ UNCHANGED savedSlot
      BY <2>12 DEF OpenLink, Store, Shown
    <3>2. link' \in LinkType
      BY <3>1 DEF LinkType, LinkState
    <3> QED BY <1>0, <3>1, <3>2 DEF ShellInv
  <2>13. ASSUME DisconnectLink PROVE ShellInv'
    <3>1. link' = LinkIdle /\ window' = Shown(TitleOf(link'), Synced) /\ Synced' = Synced
          /\ UNCHANGED savedSlot
      BY <1>1, <2>13 DEF DisconnectLink, Shown
    <3>2. link' \in LinkType
      BY <3>1 DEF LinkType, LinkState, LinkIdle
    <3> QED BY <1>0, <3>1, <3>2 DEF ShellInv
  <2> QED
    BY <1>2, <2>1, <2>2, <2>3, <2>4, <2>6, <2>7, <2>8, <2>9, <2>10, <2>11, <2>12, <2>13
       DEF MenuCommand
<1>3. ASSUME NEW key, PressKey(key) PROVE ShellInv'
  <2>1. running = "on"
        /\ (ResetEmulation(window.menu) \/ SaveStateToSlot \/ LoadStateFromSlot \/ LoadDamagedState)
    BY <1>3 DEF PressKey
  <2>2. window = Shown(TitleOf(link), Synced) /\ window.menu = Synced
    BY <2>1 DEF ShellInv, Shown
  <2>3. ASSUME ResetEmulation(window.menu) PROVE ShellInv'
    <3>1. window' = Shown(TitleAfterRestart, Synced) /\ link' = LinkAfterRestart(link)
          /\ Synced' = Synced /\ UNCHANGED savedSlot
      BY <1>1, <2>2, <2>3 DEF ResetEmulation, Shown
    <3> QED BY <1>0, <2>2, <3>1, RestartKeepsShown DEF ShellInv
  <2>4. ASSUME SaveStateToSlot PROVE ShellInv'
    BY <1>0, <1>1, <2>2, <2>4, SaveKeepsShell
  <2>5. ASSUME LoadStateFromSlot \/ LoadDamagedState PROVE ShellInv'
    BY <1>0, <2>2, <2>5, LoadKeepsShell
  <2> QED BY <2>1, <2>3, <2>4, <2>5
<1>4. ASSUME NEW revision, MainStarts(revision) PROVE ShellInv'
  <2>1. link' = LinkIdle /\ bios' = revision /\ UNCHANGED savedSlot
        /\ window' = Shown(TitleOf(LinkIdle), MenuOf(settings', look'.colors, revision))
    BY <1>4 DEF MainStarts, Shown
  <2>2. link' \in LinkType
    BY <2>1 DEF LinkType, LinkState, LinkIdle
  <2> QED BY <1>0, <2>1, <2>2 DEF ShellInv, Synced
<1>5. ASSUME NEW f, BringSettings(f) PROVE ShellInv'
  BY <1>0, <1>5 DEF BringSettings, ShellInv
<1>6. ASSUME MainEnds \/ ProcessEnds PROVE ShellInv'
  <2>1. running' = "off" /\ link' = LinkIdle /\ UNCHANGED savedSlot
    BY <1>6 DEF MainEnds, ProcessEnds
  <2>2. link' \in LinkType
    BY <2>1 DEF LinkType, LinkState, LinkIdle
  <2> QED BY <1>0, <2>1, <2>2 DEF ShellInv
<1>7. ASSUME NEW key, CaptureKey(key) PROVE ShellInv'
  <2>1. UNCHANGED <<running, look, bios, link, window, savedSlot>> /\ running # "off"
        /\ settings' = [settings EXCEPT !.keys = KeyNames(rows')]
    BY <1>7 DEF CaptureKey, CaptureInv
  <2> QED BY <1>0, <2>1 DEF ShellInv, Synced, MenuOf
<1>8. ASSUME CancelCapture \/ UNCHANGED desktopVars PROVE ShellInv'
  BY <1>0, <1>1, <1>8 DEF CancelCapture, desktopVars, ShellInv
<1>9. ASSUME NEW state \in {"syncing", "connected", "error"}, PumpLink(state) PROVE ShellInv'
  <2>1. /\ link' = [state |-> state, steady |-> link.state \in {"hosting", "connecting"} \/ link.steady]
        /\ window' = IF state # link.state THEN [window EXCEPT !.title = TitleOf(link')] ELSE window
        /\ running # "off" /\ Synced' = Synced /\ UNCHANGED savedSlot
    BY <1>1, <1>9 DEF PumpLink
  <2>2. link' \in LinkType
    BY <1>0, <2>1 DEF LinkType, LinkState
  <2>3. window = Shown(TitleOf(link), Synced)
    BY <2>1 DEF ShellInv
  <2>4. CASE state # link.state
    BY <1>0, <2>1, <2>2, <2>3, <2>4, NewTitle DEF ShellInv
  <2>5. CASE state = link.state
    <3>1. TitleOf(link') = TitleOf(link)
      BY <2>1, <2>5 DEF TitleOf
    <3> QED BY <1>0, <2>1, <2>2, <2>3, <2>5, <3>1 DEF ShellInv
  <2> QED BY <2>4, <2>5
<1>10. ASSUME PolledCommand PROVE ShellInv'
  BY <1>2, <1>10 DEF PolledCommand
<1> QED
  BY <1>3, <1>4, <1>5, <1>6, <1>7, <1>8, <1>9, <1>10 DEF DesktopNext

\* If no state is saved before a BIOS is loaded, the title follows the link and
\* the check marks follow the settings, the colors and the BIOS
\* (ir_link_refresh_title and sync_menu_state of main.c).
THEOREM ShellAlwaysShowsState ==
    ASSUME ~BareStates
    PROVE  DesktopSpec => []ShellShowsState
<1>1. DesktopInit => ShellInv /\ CaptureInv
  <2> SUFFICES ASSUME DesktopInit PROVE ShellInv /\ CaptureInv
    OBVIOUS
  <2>1. running = "off" /\ capture = <<>> /\ link = LinkIdle /\ savedSlot = EmptySlot
    BY DEF DesktopInit
  <2>2. link \in LinkType
    BY <2>1 DEF LinkType, LinkState, LinkIdle
  <2>3. savedSlot # "none"
    BY <2>1 DEF EmptySlot
  <2> QED BY <2>1, <2>2, <2>3 DEF ShellInv, CaptureInv
<1>2. ShellInv /\ CaptureInv /\ [DesktopNext]_desktopVars => ShellInv' /\ CaptureInv'
  BY ShellStep, CaptureStep
<1>3. ShellInv => ShellShowsState
  BY DEF ShellInv, ShellShowsState, Shown
<1> QED BY <1>1, <1>2, <1>3, PTL DEF DesktopSpec
=============================================================================
