-------------------------------- MODULE Gameexe --------------------------------
(***************************************************************************)
(* Gameexe.dat, the configuration of the game: CreateGameexe compresses a  *)
(* text into Gameexe.new.dat in the thread of the dialog, UnpackGameexe    *)
(* makes a text of Gameexe.dat in the worker.  The user edits texts, puts  *)
(* the new archive in the place of the old and packs what was unpacked.    *)
(*                                                                         *)
(* A text is a sequence of units, the byte order mark one of them, the     *)
(* others of four bytes or more: into how little room CompressData packs   *)
(* fewer is a matter of ScriptCodec, and no text here is as short.  A byte *)
(* of the archive is a part of the compressed text with the locks of the   *)
(* two XOR keys on it, as in SceneArchive.                                 *)
(***************************************************************************)
EXTENDS Integers, Sequences

CONSTANTS Texts,      \* the texts of an editor
          FixedKey,   \* 256, the bytes of the fixed key
          PrivateKey  \* 16, the bytes of the private key

Bom == "bom"
None == <<"no file">>
Garbage == <<"garbage">>

(* A text is a sequence and not the mark for a file that is missing, and has
   something behind its byte order mark. *)
GameexeAssumption ==
  /\ FixedKey \in Nat \ {0} /\ PrivateKey \in Nat \ {0}
  /\ \A t \in Texts : t \in Seq({t[k] : k \in DOMAIN t}) /\ t \notin {None, <<>>, <<Bom>>}

VARIABLES
  datNeedKey,  \* m_DatNeedKey
  source,      \* the text file, or None
  gphase,      \* of the dialog thread: "idle", "opened" or "created"
  gstatus,     \* what it reported last: "none", "ok" or "failed"
  newdat,      \* Gameexe.new.dat: its bytes, or NoArchive
  before,      \* history: newdat when the last pack began
  cut,         \* history: the game was closed while it packed
  dat,         \* Gameexe.dat
  uphase,      \* of the worker: "idle", "read" or "fault"
  gbuffer,     \* Buffer of the worker
  txt          \* the text it wrote, or None

gvars == <<datNeedKey, source, gphase, gstatus, newdat, before, cut, dat, uphase, gbuffer, txt>>
pack   == <<gphase, gstatus, newdat, before, cut>>
unpack == <<uphase, gbuffer, txt>>

Xor(locks, lock) == IF lock \in locks THEN locks \ {lock} ELSE locks \cup {lock}
Fixed(k) == <<"fixed", k % FixedKey>>
Key(k)   == <<"key", k % PrivateKey>>

(* Byte k, from 0, of the compressed text; byte 0 stands for the lengths. *)
Byte(text, k, locks) == [of |-> text, part |-> k, locks |-> locks]
FlagWords(flag) == Byte(None, 0, IF flag THEN {<<"flag", 1>>} ELSE {})
NoArchive == <<Byte(None, 1, {})>>

(* CompressData; the codec is that of ScriptCodec. *)
CompressData(text) == [k \in 1 .. Len(text) + 1 |-> Byte(text, k - 1, {})]

Init ==
  /\ datNeedKey \in BOOLEAN
  /\ source \in Texts \cup {None}
  /\ gphase = "idle" /\ gstatus = "none" /\ newdat = NoArchive /\ before = NoArchive /\ cut = FALSE /\ dat = NoArchive
  /\ uphase = "idle" /\ gbuffer = <<>> /\ txt = None

-----------------------------------------------------------------------------
(* The user. *)

(* A text that is open can be written but not deleted. *)
Edit ==
  /\ source' \in Texts \cup {txt} \cup (IF gphase = "idle" THEN {None} ELSE {source})
  /\ gphase # "idle" => source' # None
  /\ UNCHANGED <<datNeedKey, pack, dat, unpack>>

(* Gameexe.new.dat is copied over Gameexe.dat, not while it is written. *)
Install ==
  /\ newdat # NoArchive /\ gphase # "created"
  /\ dat' = newdat
  /\ UNCHANGED <<datNeedKey, source, pack, unpack>>

-----------------------------------------------------------------------------
(* CreateGameexe. *)

(* Mutant: the archive is made before the text is looked for. *)
OpenLate ==
  /\ gphase = "idle"
  /\ before' = newdat /\ newdat' = <<>>
  /\ IF source = None THEN gstatus' = "failed" /\ UNCHANGED gphase
                      ELSE gphase' = "opened" /\ UNCHANGED gstatus
  /\ UNCHANGED <<datNeedKey, source, cut, dat, unpack>>

(* A cancelled file dialog is a text that is not there. *)
Open ==
  /\ gphase = "idle"
  /\ before' = newdat
  /\ IF source = None THEN gstatus' = "failed" /\ UNCHANGED gphase
                      ELSE gphase' = "opened" /\ UNCHANGED gstatus
  /\ UNCHANGED <<datNeedKey, source, newdat, cut, dat, unpack>>

Create ==
  /\ gphase = "opened"
  /\ \/ gphase' = "created" /\ newdat' = <<>> /\ UNCHANGED gstatus
     \/ gphase' = "idle" /\ gstatus' = "failed" /\ UNCHANGED newdat
  /\ UNCHANGED <<datNeedKey, source, before, cut, dat, unpack>>

(* Mutant: the byte order mark is compressed with the text. *)
BodyWithMark(file) == file

(* What is compressed: the file behind its byte order mark. *)
TextBody(file) == IF file # <<>> /\ Head(file) = Bom THEN Tail(file) ELSE file

Encrypted(bytes) ==
  [n \in DOMAIN bytes |->
    LET fixed == Xor(bytes[n].locks, Fixed(n - 1))
    IN  [bytes[n] EXCEPT !.locks = IF datNeedKey THEN Xor(fixed, Key(n - 1)) ELSE fixed]]

Archive == <<FlagWords(datNeedKey)>> \o Encrypted(CompressData(TextBody(source)))

Write ==
  /\ gphase = "created"
  /\ newdat' = Archive
  /\ gphase' = "idle" /\ gstatus' = "ok"
  /\ UNCHANGED <<datNeedKey, source, before, cut, dat, unpack>>

(* The game is closed, a pack may have written a part, and it is started again;
   the files stay as they are. *)
Restart ==
  /\ IF gphase = "created"
     THEN /\ cut' = TRUE
          /\ \E n \in 0 .. Len(Archive) - 1 : newdat' = SubSeq(Archive, 1, n)
     ELSE UNCHANGED <<cut, newdat>>
  /\ gphase' = "idle" /\ gstatus' = "none" /\ before' = NoArchive
  /\ uphase' = "idle" /\ gbuffer' = <<>>
  /\ UNCHANGED <<datNeedKey, source, dat, txt>>

-----------------------------------------------------------------------------
(* UnpackGameexe: the flag of the header is not looked at. *)

Decrypted(bytes) ==
  [n \in DOMAIN bytes |->
    LET key == IF datNeedKey THEN Xor(bytes[n].locks, Key(n - 1)) ELSE bytes[n].locks
    IN  [bytes[n] EXCEPT !.locks = Xor(key, Fixed(n - 1))]]

(* The size less the header wraps around when there is no header, and the loop
   leaves the buffer. *)
Read ==
  /\ uphase = "idle" /\ dat # NoArchive
  /\ IF dat = <<>> THEN uphase' = "fault" /\ UNCHANGED gbuffer
     ELSE uphase' = "read" /\ gbuffer' = Decrypted(Tail(dat))
  /\ UNCHANGED <<datNeedKey, source, pack, dat, txt>>

(* DecompressData takes the bytes in their order and without locks. *)
DecompressData(bytes) ==
  IF bytes # <<>> /\ bytes = CompressData(bytes[1].of) THEN bytes[1].of ELSE Garbage

(* The text is created and written behind a byte order mark, or not created. *)
Save ==
  /\ uphase = "read"
  /\ txt' \in {txt, <<Bom>> \o DecompressData(gbuffer)}
  /\ uphase' = "idle" /\ gbuffer' = <<>>
  /\ UNCHANGED <<datNeedKey, source, pack, dat>>

Next == \/ Edit \/ Install \/ Restart
        \/ Open \/ Create \/ Write
        \/ Read \/ Save

Spec == Init /\ [][Next]_gvars

-----------------------------------------------------------------------------
(* Properties. *)

(* However often a text is packed and unpacked, what comes out is a text that
   was written, behind one byte order mark: neither the mark nor a key piles
   up. Only an archive whose pack was cut short gives anything else. *)
TextSurvives ==
  ~cut => /\ uphase # "fault"
          /\ txt # None => txt \in {<<Bom>> \o TextBody(t) : t \in Texts}

(* A pack that is reported to have failed has left the archive of the last one
   that succeeded. *)
FailedPackKeeps == gstatus = "failed" /\ gphase = "idle" => newdat = before
=============================================================================
