----------------------------- MODULE ContentUnit -----------------------------
(* The kinds of content files: how the core finds the kind of a file, puts it *)
(* into flash with a card around it (psemu.c, flash.c), what identifies it    *)
(* for the saved states, and the file that the write-back makes from the      *)
(* flash again (content_writeback.c).  A file is a sequence of cells, each    *)
(* one frame of 128 bytes; the header of a .gme file is one cell.             *)
EXTENDS Integers, Sequences

CONSTANTS
    Blocks,       \* blocks of a card, 16
    BlockFrames,  \* frames of a block, 64
    Inputs,       \* files of the user
    Stores,       \* cells that an app or the kernel stores
    MaxStores     \* bound: stores of a behaviour

CardFrames == Blocks * BlockFrames
AppBlocks  == Blocks - 1   \* DIRECTORY_MAX_APP_BLOCKS

Cells == Stores \cup UNION {{f[i] : i \in DOMAIN f} : f \in Inputs}

\* An icon has at most three frames (the mask in identity_hash_title_sector).
ASSUME ContentAssumption ==
    /\ {Blocks, BlockFrames} \subseteq Nat \ {0, 1} /\ Blocks <= BlockFrames
    /\ \A f \in Inputs : Len(f) > 0 /\ f \in Seq(Cells)
    /\ \A c \in Cells : c.kind = "title" => c.icons \in 0..3
    /\ MaxStores \in Nat

VARIABLES
    userFile,   \* the file on the disk, or <<>>
    opened,     \* the file as it was loaded, or <<>>
    card,       \* flash
    stores,     \* cells stored since the load
    spent       \* stores so far, bound

contentVars == <<userFile, opened, card, stores, spent>>

-----------------------------------------------------------------------------
(* Cells                                                                      *)

Blank        == [kind |-> "blank"]
Data(v)      == [kind |-> "data", value |-> v]
CardHead     == [kind |-> "head"]                   \* "MC"
GmeHead      == [kind |-> "gme"]                    \* "123-456-STD" and the rest of the header
Title(n, v)  == [kind |-> "title", icons |-> n, value |-> v]   \* MCX0 or MCX1, icon frames
\* A directory frame: use is "first", "middle", "last" or "free".
Entry(use, size, next, name, pocket) ==
    [kind |-> "entry", use |-> use, size |-> size, next |-> next, name |-> name, pocket |-> pocket]

NoBlock == 65535
Part(file, first, last) == SubSeq(file, first, last)
After(file, n) == SubSeq(file, n + 1, Len(file))
Blanks(n) == [i \in 1..n |-> Blank]

-----------------------------------------------------------------------------
(* Kinds                                                                      *)

\* gme_card_size: a part of a card in whole blocks comes after the header.
IsGme(file) ==
    LET rest == Len(file) - 1 IN
    file[1].kind = "gme" /\ rest > 0 /\ rest % BlockFrames = 0 /\ rest <= CardFrames

\* mcs_payload_size: whole blocks after the frame, as many as the frame says.
IsMcsFrame(file) ==
    LET rest == Len(file) - 1 IN
    /\ rest > 0 /\ rest % BlockFrames = 0
    /\ file[1].kind = "entry" /\ file[1].size = rest

\* flash_app_body_is_valid
BodyIsValid(body) == Len(body) <= AppBlocks * BlockFrames /\ body[1].kind = "title"

\* psemu_identify_content
IdentifyContent(file) ==
    CASE Len(file) = CardFrames -> "card"
      [] Len(file) # CardFrames /\ IsGme(file) -> "gme"
      [] IsMcsFrame(file) /\ BodyIsValid(After(file, 1)) -> "mcs"
      [] Len(file) # CardFrames /\ BodyIsValid(file) -> "app"
      [] OTHER -> "unknown"

-----------------------------------------------------------------------------
(* Loaders                                                                    *)

\* psemu_load_flash_image: the rest of the flash is zero.
LoadFlashImage(image) == image \o Blanks(CardFrames - Len(image))

\* Mutant: the chain of an app of one block ends in its last frame.
DirectoryFrameLinked(block, count, size) ==
    IF block > count THEN Entry("free", 0, NoBlock, 0, FALSE)
    ELSE Entry(IF block = 1 THEN "first" ELSE IF block = count THEN "last" ELSE "middle",
               IF block = 1 THEN size ELSE 0, IF block <= count THEN block ELSE NoBlock, 0, block = 1)

\* A frame of the directory that flash_load_app makes.  A link is the number of
\* the next block less 1.
DirectoryFrame(block, count, size) ==
    IF block > count THEN Entry("free", 0, NoBlock, 0, FALSE)
    ELSE Entry(IF block = 1 THEN "first" ELSE IF block = count THEN "last" ELSE "middle",
               IF block = 1 THEN size ELSE 0, IF block < count THEN block ELSE NoBlock, 0, block = 1)

\* flash_load_app: a card with one file around the body.
LoadApp(body) ==
    LET count == (Len(body) + BlockFrames - 1) \div BlockFrames
        directory == [i \in 1..Blocks |->
                         IF i = 1 THEN CardHead ELSE DirectoryFrame(i - 1, count, Len(body))]
    IN LoadFlashImage(directory \o Blanks(BlockFrames - Blocks) \o body)

\* psemu_load_content
LoadContent(file) ==
    CASE IdentifyContent(file) = "card" -> LoadFlashImage(file)
      [] IdentifyContent(file) = "gme" -> LoadFlashImage(After(file, 1))
      [] IdentifyContent(file) = "mcs" -> LoadApp(After(file, 1))
      [] IdentifyContent(file) = "app" -> LoadApp(file)

-----------------------------------------------------------------------------
(* Identity                                                                   *)

\* identity_hash_directory_frame: the state of a frame, and the name if it is used.
FrameIdentity(cell) ==
    CASE cell.kind # "entry" -> cell
      [] cell.kind = "entry" /\ cell.use = "free" -> [use |-> "free"]
      [] OTHER -> [use |-> cell.use, name |-> cell.name]

\* identity_hash_title_sector: the header and the icon frames, of which there is
\* one or more.
TitleIdentity(body) ==
    LET frames == IF body[1].icons < 1 THEN 1 ELSE body[1].icons
        end == IF 1 + frames > Len(body) THEN Len(body) ELSE 1 + frames
    IN Part(body, 1, end)

DirectoryIdentity(image) == [i \in 1..Blocks - 1 |-> FrameIdentity(image[i + 1])]

\* psemu_content_identity_hash, as if the hash met no collision.
ContentIdentity(file) ==
    CASE IdentifyContent(file) = "card" -> DirectoryIdentity(file)
      [] IdentifyContent(file) = "gme" -> DirectoryIdentity(After(file, 1))
      [] IdentifyContent(file) = "mcs" -> <<FrameIdentity(file[1])>> \o TitleIdentity(After(file, 1))
      [] IdentifyContent(file) = "app" -> TitleIdentity(file)
      [] OTHER -> file

-----------------------------------------------------------------------------
(* The write-back                                                             *)

\* region_offset and region_size of content_writeback_arm.
Region(file) ==
    CASE IdentifyContent(file) \in {"card", "gme"} -> 1..CardFrames
      [] IdentifyContent(file) = "mcs" -> (BlockFrames + 1)..(BlockFrames + Len(file) - 1)
      [] IdentifyContent(file) = "app" -> (BlockFrames + 1)..(BlockFrames + Len(file))

\* build_file_image, and the two parts of a .gme file in content_writeback_commit.
BuildFileImage ==
    CASE IdentifyContent(opened) = "card" -> card
      [] IdentifyContent(opened) = "gme" -> <<opened[1]>> \o card
      [] IdentifyContent(opened) = "mcs" ->
             <<opened[1]>> \o Part(card, BlockFrames + 1, BlockFrames + Len(opened) - 1)
      [] IdentifyContent(opened) = "app" ->
             Part(card, BlockFrames + 1, BlockFrames + Len(opened))

-----------------------------------------------------------------------------
ContentInit ==
    /\ userFile = <<>> /\ opened = <<>>
    /\ card = Blanks(CardFrames) /\ stores = {} /\ spent = 0

\* The file comes to the disk.
GetUserFile ==
    /\ userFile = <<>> /\ userFile' \in Inputs
    /\ UNCHANGED <<opened, card, stores, spent>>

\* The start of the program or prompt_open_app with the file as it is now.
OpenUserFile ==
    /\ userFile # <<>> /\ opened = <<>>
    /\ IdentifyContent(userFile) # "unknown"
    /\ opened' = userFile
    /\ card' = LoadContent(userFile)
    /\ stores' = {}
    /\ UNCHANGED <<userFile, spent>>

\* The app or the kernel stores a cell.
StoreCell(i, cell) ==
    /\ opened # <<>> /\ spent < MaxStores
    /\ spent' = spent + 1 /\ stores' = stores \cup {i}
    /\ card' = [card EXCEPT ![i] = cell]
    /\ UNCHANGED <<userFile, opened>>

CommitContent ==
    /\ opened # <<>>
    /\ userFile' = BuildFileImage
    /\ UNCHANGED <<opened, card, stores, spent>>

CloseContent ==
    /\ opened # <<>>
    /\ opened' = <<>> /\ card' = Blanks(CardFrames) /\ stores' = {}
    /\ UNCHANGED <<userFile, spent>>

ContentNext ==
    \/ GetUserFile \/ OpenUserFile
    \/ \E i \in 1..CardFrames, cell \in Stores : StoreCell(i, cell)
    \/ CommitContent \/ CloseContent

ContentSpec == ContentInit /\ [][ContentNext]_contentVars

-----------------------------------------------------------------------------
\* The cells of the flash that identify the content: the directory, or the header
\* with at most three icon frames.
IdentityCells ==
    IF IdentifyContent(opened) \in {"card", "gme"} THEN 2..Blocks
    ELSE (BlockFrames + 1)..(BlockFrames + 4)

\* The header of an app, which the kernel needs to start it, is still there.
CanStart == IdentifyContent(opened) \in {"card", "gme"} \/ card[BlockFrames + 1].kind = "title"

\* The file can be read back: it has the same kind, and its load gives each cell
\* that the file holds as the app left it.
ReadsBack ==
    CanStart => /\ IdentifyContent(BuildFileImage) = IdentifyContent(opened)
                /\ \A i \in Region(opened) : LoadContent(BuildFileImage)[i] = card[i]

\* A saved state of this content still matches it after the app saves its data.
KeepsIdentity ==
    stores \cap IdentityCells = {} => ContentIdentity(BuildFileImage) = ContentIdentity(opened)

\* The kernel, which follows the directory from the first block, reads the app.
DirectoryLeads ==
    IdentifyContent(opened) \in {"mcs", "app"} /\ stores = {} =>
        LET body == IF IdentifyContent(opened) = "mcs" THEN After(opened, 1) ELSE opened
            count == card[2].size \div BlockFrames + (IF card[2].size % BlockFrames = 0 THEN 0 ELSE 1)
            block[n \in 1..count] == IF n = 1 THEN 1 ELSE card[block[n - 1] + 1].next + 1
        IN /\ card[2].size = Len(body) /\ card[2].pocket
           /\ card[block[count] + 1].next = NoBlock
           /\ \A i \in 1..Len(body) :
                 card[block[(i - 1) \div BlockFrames + 1] * BlockFrames + ((i - 1) % BlockFrames) + 1]
                     = body[i]

\* A content file goes into the flash and out again over any number of sessions:
\* it keeps its kind, the bytes of the app and its identity, and the directory that
\* the core makes leads the kernel through all of it (psemu.h:102, 157, 172,
\* flash.c:107).
FilesRoundTrip == opened # <<>> => ReadsBack /\ KeepsIdentity /\ DirectoryLeads
=============================================================================
