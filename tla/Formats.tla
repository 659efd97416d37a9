------------------------------- MODULE Formats -------------------------------
(***************************************************************************)
(* The drop and the archives of the game: the queue is built, or the       *)
(* worker and the dialog work on the scripts, on the configuration, on a   *)
(* database or on an image; the others rest.                               *)
(***************************************************************************)
EXTENDS SceneArchive

CONSTANTS Programs,                                   \* those a behaviour may be of
          Names, MaxItems, MaxEntries,                \* of DropQueue
          Texts, FixedKey, PrivateKey,                \* of Gameexe
          TableSizes, Losses, Word, Rows, Keys,       \* of Database
          Parts, MaxParts, Sizes, Colours, MaxCount,  \* of ImageParts
          PngHead, PngRoom

VARIABLES
  program,
  drop, forbidden, item, listing, dphase, queue, gone,
  datNeedKey, source, gphase, gstatus, newdat, before, cut, dat, uphase, gbuffer, txt,
  table, data, bphase, UncompressedBuffer, i, Line, Row,
  image, G00Flag, debuf, iphase, imgentry, pictures, refused

Drop == INSTANCE DropQueue WITH phase <- dphase
Game == INSTANCE Gameexe
Base == INSTANCE Database
Image == INSTANCE ImageParts WITH entry <- imgentry

ASSUME FormatsAssumption ==
  /\ Drop!DropAssumption /\ Game!GameexeAssumption
  /\ Base!DatabaseAssumption /\ Image!ImageAssumption

dropvars == <<drop, forbidden, item, listing, dphase, queue, gone>>
gamevars == <<datNeedKey, source, gphase, gstatus, newdat, before, cut, dat, uphase, gbuffer, txt>>
basevars == <<table, data, bphase, UncompressedBuffer, i, Line, Row>>
imagevars == <<image, G00Flag, debuf, iphase, imgentry, pictures, refused>>
formatvars == <<program, vars, dropvars, gamevars, basevars, imagevars>>

SceneRests ==
  /\ needKey = FALSE /\ dir = [e \in 1 .. Entries |-> Absent] /\ phase = "idle" /\ info = <<>>
  /\ disk = <<>> /\ offset = 0 /\ taken = <<>> /\ output = Nothing /\ torn = FALSE
  /\ buffer = <<>> /\ entry = 1
  /\ unpacked = [e \in 1 .. Entries |-> Absent]
DropRests ==
  /\ drop = <<>> /\ forbidden = FALSE /\ item = 0 /\ listing = <<>> /\ dphase = "" /\ queue = <<>>
  /\ gone = {}
GameRests ==
  /\ datNeedKey = FALSE /\ source = <<>> /\ gphase = "" /\ gstatus = "" /\ newdat = <<>>
  /\ before = <<>> /\ cut = FALSE /\ dat = <<>> /\ uphase = "" /\ gbuffer = <<>> /\ txt = <<>>
BaseRests ==
  /\ table = <<>> /\ data = <<>> /\ bphase = "" /\ UncompressedBuffer = <<>>
  /\ i = 0 /\ Line = 0 /\ Row = 0
ImageRests ==
  /\ image = <<>> /\ G00Flag = "" /\ debuf = <<>> /\ iphase = "" /\ imgentry = 0
  /\ pictures = <<>> /\ refused = {}

FormatInit ==
  /\ program \in Programs
  /\ IF program = "scene" THEN Init ELSE SceneRests
  /\ IF program = "drop" THEN Drop!Init ELSE DropRests
  /\ IF program = "gameexe" THEN Game!Init ELSE GameRests
  /\ IF program = "database" THEN Base!Init ELSE BaseRests
  /\ IF program = "image" THEN Image!Init ELSE ImageRests

FormatNext ==
  \/ program = "scene" /\ Next /\ UNCHANGED <<program, dropvars, gamevars, basevars, imagevars>>
  \/ program = "drop" /\ Drop!Next /\ UNCHANGED <<program, vars, gamevars, basevars, imagevars>>
  \/ program = "gameexe" /\ Game!Next /\ UNCHANGED <<program, vars, dropvars, basevars, imagevars>>
  \/ program = "database" /\ Base!Next /\ UNCHANGED <<program, vars, dropvars, gamevars, imagevars>>
  \/ program = "image" /\ Image!Next /\ UNCHANGED <<program, vars, dropvars, gamevars, basevars>>

FormatSpec == FormatInit /\ [][FormatNext]_formatvars

-----------------------------------------------------------------------------
(* Properties; each is stated in its module. TypeOK, ArchiveWhole and RoundTrip
   are those of SceneArchive, whose variables rest in their initial state while
   another program runs. *)

(* Without the root of a drive the queue is what was dropped. *)
QueueIsDrop == program = "drop" => Drop!QueueIsDrop

(* The root of a drive costs at most the first of its entries. *)
RootCostsItsFirst == program = "drop" => Drop!RootCostsItsFirst

(* OnDropFiles comes to its end. *)
DropSurvives == program = "drop" => Drop!DropSurvives

(* A text comes out of Gameexe.dat as it was written. *)
TextSurvives == program = "gameexe" => Game!TextSurvives

(* A failed pack leaves the archive of the last one. *)
FailedPackKeeps == program = "gameexe" => Game!FailedPackKeeps

(* A whole database comes out with every key off. *)
DatabaseDecoded == program = "database" => Base!DatabaseDecoded

(* A saved picture shows its blocks at their places. *)
PicturesShown == program = "image" => Image!PicturesShown

(* No part costs another its file. *)
EveryPartSaved == program = "image" => Image!EveryPartSaved
=============================================================================
