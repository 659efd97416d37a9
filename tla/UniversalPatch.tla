---------------------------- MODULE UniversalPatch ----------------------------
(***************************************************************************)
(* SiglusUniversalPatch, a library loaded into the game: it reads          *)
(* SiglusCfg.json once and then stands between the game and two functions  *)
(* of the system.  CreateFileW opens another file for some names,          *)
(* CreateFontIndirectW makes another font.  The files in the folder of the *)
(* game come and go at any time.                                           *)
(*                                                                         *)
(* A file name, like any string of the configuration, is the folders       *)
(* before its last backslash and the name behind it; a name is its pieces  *)
(* between the points.  "g00\mod\va.g01" is <<"g00">>, <<"mod">> and        *)
(* <<"va", "g01">>, ".g01" is <<"", "g01">>, the empty string <<"">>.      *)
(***************************************************************************)
EXTENDS Integers, SequencesExt

CONSTANTS Configs,   \* what SiglusCfg.json may hold
          Asked,     \* the names the game opens
          Targets,   \* the names that may be there besides
          Small,     \* the small letters of every piece that has capitals
          FaceSize   \* LF_FACESIZE, 32

Path(dir, name) == [dir |-> dir, name |-> name]
EmptyString == Path(<<>>, <<"">>)

(* What a value of the configuration is that is no string: a font, an entry. *)
NotText   == <<"no string">>
NotString == Path(<<>>, <<>>)

(* LowerString. *)
Lower(piece) == IF piece \in DOMAIN Small THEN Small[piece] ELSE piece
LowerAll(name) == [k \in DOMAIN name |-> Lower(name[k])]

(* The file system does not tell capitals. Two ways to one file, by "..", are
   two names here whose files come and go on their own. *)
OnDisk(n) == Path([k \in DOMAIN n.dir |-> LowerAll(n.dir[k])], LowerAll(n.name))
Known == {OnDisk(n) : n \in Asked \cup Targets}

(* The font is a sequence of characters, or NotText.  The folders the game
   opens files of have no points. *)
PatchAssumption ==
  /\ FaceSize \in Nat \ {0}
  /\ \A c \in Configs :
       /\ c = [font |-> c.font, extensions |-> c.extensions, mapper |-> c.mapper]
       /\ Len(c.font) \in Nat /\ c.font = [k \in 1 .. Len(c.font) |-> c.font[k]]
  /\ \A n \in Asked : \A k \in DOMAIN n.dir : Len(n.dir[k]) = 1

VARIABLES
  file,     \* SiglusCfg.json: <<configuration>>, or <<>> for none that can be read
  cfg,      \* g_SiglusConfig: GameFont, ExtensionNameReplace, FileMapper
  disk,     \* of each name, "file", "dir" or "none"
  hook,     \* "attach", "idle", "open", or "fault" when the game is gone
  asked, found, \* of the last CreateFileW: lpFileName, CurFileName
  there,    \* history: the files there were when they were looked for
  face      \* lfFaceName of the last font, and two cells behind it

pvars == <<file, cfg, disk, hook, asked, found, there, face>>

Empty    == [font |-> <<>>, extensions |-> <<>>, mapper |-> <<>>]
Behind   == <<"behind", "behind">>
GameFace == [k \in 1 .. FaceSize |-> "game"] \o Behind

Init ==
  /\ file \in {<<>>} \cup {<<c>> : c \in Configs}
  /\ cfg = Empty
  /\ disk \in [Known -> {"file", "none"}]
  /\ hook = "attach"
  /\ asked \in Asked /\ found = asked /\ there = {} /\ face = GameFace

-----------------------------------------------------------------------------
(* LoadPatchConfig: of both tables the entries that are strings.  For the font
   a list or an object ends the program; numbers are made strings. *)
Strings(table) == Restrict(table, {key \in DOMAIN table : table[key] # NotString})

LoadPatchConfig ==
  /\ hook = "attach"
  /\ IF file = <<>> THEN hook' = "idle" /\ UNCHANGED cfg
     ELSE IF file[1].font = NotText THEN hook' = "fault" /\ UNCHANGED cfg
     ELSE /\ cfg' = [file[1] EXCEPT !.extensions = Strings(@), !.mapper = Strings(@)]
          /\ hook' = "idle"
  /\ UNCHANGED <<file, disk, asked, found, there, face>>

ChangeFile ==
  /\ hook \in {"idle", "open"}
  /\ \E n \in Known, what \in {"file", "dir", "none"} : disk' = [disk EXCEPT ![n] = what]
  /\ UNCHANGED <<file, cfg, hook, asked, found, there, face>>

-----------------------------------------------------------------------------
(* HookCreateFileW. *)

(* GetFileAttributesW. *)
IsFile(n) == OnDisk(n) \in Known /\ disk[OnDisk(n)] = "file"
OrElse(n, m) == IF IsFile(m) THEN m ELSE n

(* Mutant: the extension is searched for as it was typed. *)
AsTyped(n) == Last(n.name)

(* The keys of ExtensionNameReplace are searched for in small letters. *)
ExtensionKey(n) == Lower(Last(n.name))

(* The first half: the extension is replaced by the whole of the entry, with a
   point before it unless it begins with one. *)
Pointed(name) == IF name[1] = "" /\ Len(name) > 1 THEN Tail(name) ELSE name
Renamed(n, r) ==
  LET stem == Front(n.name)
  IN  IF r.dir = <<>> THEN Path(n.dir, stem \o Pointed(r.name))
      ELSE Path(n.dir \o <<stem \o Pointed(r.dir[1])>> \o Tail(r.dir), r.name)

ByExtension(n) ==
  IF ExtensionKey(n) \notin DOMAIN cfg.extensions THEN n
  ELSE LET r == cfg.extensions[ExtensionKey(n)]
       IN  IF r = EmptyString THEN n ELSE OrElse(n, Renamed(n, r))

(* The second half decides anew: a file the mapper does not have is opened by
   its own name.  For another one the entry of the table of extensions is put
   behind the folder of the file, with whatever folders it has itself; past the
   end of that table, where the extension is not there, it is whatever lies
   there, and so any file, if the game lives. *)
InFolder(n, r) == Path(n.dir \o r.dir, r.name)

ByMapper(n, first) ==
  IF n.name \notin DOMAIN cfg.mapper THEN {n}
  ELSE IF ExtensionKey(n) \notin DOMAIN cfg.extensions
       THEN {OrElse(n, m) : m \in Asked \cup Targets}
  ELSE LET r == cfg.extensions[ExtensionKey(n)]
       IN  {IF r = EmptyString THEN n ELSE OrElse(n, InFolder(n, r))}

CallCreateFileW ==
  /\ hook = "idle"
  /\ \E n \in Asked :
       /\ asked' = n
       /\ \/ Len(n.name) > 1 /\ hook' = "open" /\ found' \in ByMapper(n, ByExtension(n))
          \/ /\ Len(n.name) = 1   \* a string made of NULL
             /\ hook' = "fault" /\ found' = n
          \/ /\ n.name \in DOMAIN cfg.mapper /\ ExtensionKey(n) \notin DOMAIN cfg.extensions
             /\ hook' = "fault" /\ found' = n
  /\ there' = {n \in Known : disk[n] = "file"}
  /\ UNCHANGED <<file, cfg, disk, face>>

OpenFile ==
  /\ hook = "open" /\ hook' = "idle" /\ there' = {} /\ found' = asked
  /\ UNCHANGED <<file, cfg, disk, asked, face>>

-----------------------------------------------------------------------------
(* HookCreateFontIndirectW, for a font of the game: the name of the font and
   the zero behind it are copied over it, as far as there is room. *)

(* Mutant: all of it is copied. *)
WholeFace == Len(cfg.font) + 1

CopySize == IF Len(cfg.font) + 1 < FaceSize THEN Len(cfg.font) + 1 ELSE FaceSize

CallCreateFontIndirectW ==
  /\ hook = "idle"
  /\ face' = IF cfg.font = <<>> THEN GameFace
             ELSE [k \in DOMAIN GameFace |-> IF k <= CopySize THEN Append(cfg.font, "0")[k] ELSE GameFace[k]]
  /\ UNCHANGED <<file, cfg, disk, hook, asked, found, there>>

Next == LoadPatchConfig \/ ChangeFile \/ CallCreateFileW \/ OpenFile \/ CallCreateFontIndirectW

Spec == Init /\ [][Next]_pvars

-----------------------------------------------------------------------------
(* Properties. *)

(* The configuration as it stands in the file, without one the empty one, and
   whether its tables fit each other: every name of FileMapper has an extension
   that ExtensionReplacer knows. *)
Stated == IF file = <<>> THEN Empty
          ELSE [file[1] EXCEPT !.extensions = Strings(@), !.mapper = Strings(@)]
Fitting == \A name \in DOMAIN Stated.mapper : Lower(Last(name)) \in DOMAIN Stated.extensions

(* The entry of the mapper is read through an iterator into the other table,
   which may be past its end.  Only a name of the mapper is opened as another;
   and where the tables fit, the game dies of nothing but a font that is no
   string or a name without a point, and what it opens in place of a name is the
   entry for the extension, behind the folder of that name, which was a file
   when it was looked for. *)
RedirectSafe ==
  /\ hook = "open" /\ found # asked => asked.name \in DOMAIN Stated.mapper
  /\ Fitting =>
       /\ hook = "fault" => Stated.font = NotText \/ Len(asked.name) = 1
       /\ hook = "open" /\ found # asked =>
            /\ found = InFolder(asked, Stated.extensions[Lower(Last(asked.name))])
            /\ OnDisk(found) \in there

(* The font is the one of the configuration as far as a face has room, and what
   lies behind the face stays. *)
FaceInBounds ==
  /\ SubSeq(face, FaceSize + 1, FaceSize + 2) = Behind
  /\ cfg.font # <<>> /\ face # GameFace =>
       \A k \in 1 .. FaceSize : k <= Len(cfg.font) => face[k] = cfg.font[k]

(* SiglusCfg.json: "ExtensionReplacer" : { "omv" : "omv2" } and "FileMapper" :
   { "_va00.g00" : "_va00.g01" }.  A name whose extension is replaced is opened
   by the name that the tables give it, when that is a file. *)
Wanted(n) ==
  IF n.name \in DOMAIN cfg.mapper THEN InFolder(n, cfg.mapper[n.name])
  ELSE Renamed(n, cfg.extensions[ExtensionKey(n)])
RedirectAsConfigured ==
  hook = "open" /\ ExtensionKey(asked) \in DOMAIN cfg.extensions /\ OnDisk(Wanted(asked)) \in there
    => found = Wanted(asked)
=============================================================================
