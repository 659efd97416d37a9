----------------------------- MODULE FormatProofs -----------------------------
(***************************************************************************)
(* The configuration of the game, its databases, its images and the drop   *)
(* of files, for all contents and sizes.                                   *)
(***************************************************************************)
EXTENDS Formats, SequenceLemmas, SequenceTheorems, TLAPS

-----------------------------------------------------------------------------
(* Gameexe.dat: a text comes out as it was written, for all texts and lengths
   of the keys, however often it is packed and unpacked.  Each lock is put on by
   one XOR and taken off by another, so a buffer that was decrypted is what
   CompressData made (GameCleared), and every archive that was not cut is one of
   a text that was written. *)

(* The texts without their marks, and the files they can be in. *)
Bodies == {Game!TextBody(t) : t \in Texts}
Files  == Texts \cup {<<Game!Bom>> \o b : b \in Bodies}

GamePacked(b) == <<Game!FlagWords(datNeedKey)>> \o Game!Encrypted(Game!CompressData(b))

(* The inductive invariant: what each file, and the buffer between them, can
   hold while no pack was cut. *)
SourceRight == /\ source \in Files \cup {Game!None}
               /\ gphase \in {"idle", "opened", "created"}
               /\ gphase # "idle" => source # Game!None
TextRight   == txt \in {<<Game!Bom>> \o b : b \in Bodies} \cup {Game!None}
DatRight    == dat = Game!NoArchive \/ \E b \in Bodies : dat = GamePacked(b)
NewRight    == \/ gphase = "created" \/ newdat = Game!NoArchive
               \/ \E b \in Bodies : newdat = GamePacked(b)
BufferRight == /\ uphase \in {"idle", "read"}
               /\ uphase = "read" => \E b \in Bodies : gbuffer = Game!CompressData(b)

GameInv == ~cut => SourceRight /\ TextRight /\ DatRight /\ NewRight /\ BufferRight

-----------------------------------------------------------------------------
(* XOR takes off what it has put on. *)
LEMMA XorTwice == \A S, l : Game!Xor(Game!Xor(S, l), l) = S
BY DEF Game!Xor

(* What the unpacker takes off is what the packer put on, with and without the
   private key. *)
LEMMA GameCleared ==
  ASSUME NEW S, NEW b \in Seq(S)
  PROVE  /\ Game!CompressData(b) # <<>>
         /\ Game!CompressData(b)[1].of = b
         /\ Game!Encrypted(Game!CompressData(b)) \in Seq(Range(Game!Encrypted(Game!CompressData(b))))
         /\ Game!Decrypted(Game!Encrypted(Game!CompressData(b))) = Game!CompressData(b)
<1> DEFINE c == Game!CompressData(b)
           e == Game!Encrypted(c)
           Put(n) == IF datNeedKey THEN Game!Xor(Game!Xor({}, Game!Fixed(n - 1)), Game!Key(n - 1)) ELSE Game!Xor({}, Game!Fixed(n - 1))
<1>1. Len(b) + 1 \in Nat \ {0}
  BY LenProperties
<1>2. DOMAIN c = 1 .. Len(b) + 1 /\ c = [n \in 1 .. Len(b) + 1 |-> c[n]]
  BY DEF Game!CompressData
<1>3. \A n \in 1 .. Len(b) + 1 : c[n] = [of |-> b, part |-> n - 1, locks |-> {}]
  BY DEF Game!CompressData, Game!Byte
<1>4. e = [n \in 1 .. Len(b) + 1 |-> e[n]]
  BY <1>2 DEF Game!Encrypted
<1>5. \A n \in 1 .. Len(b) + 1 : e[n] = [of |-> b, part |-> n - 1, locks |-> Put(n)]
  <2> TAKE n \in 1 .. Len(b) + 1
  <2>1. e[n] = [c[n] EXCEPT !.locks = IF datNeedKey THEN Game!Xor(Game!Xor(c[n].locks, Game!Fixed(n - 1)), Game!Key(n - 1))
                                                   ELSE Game!Xor(c[n].locks, Game!Fixed(n - 1))]
    BY <1>2 DEF Game!Encrypted
  <2>2. c[n] = [of |-> b, part |-> n - 1, locks |-> {}] /\ c[n].locks = {}
    BY <1>3
  <2> HIDE DEF c, e
  <2> QED BY <2>1, <2>2
<1>6. Game!Decrypted(e) = [n \in 1 .. Len(b) + 1 |-> Game!Decrypted(e)[n]]
  BY <1>4 DEF Game!Decrypted
<1>7. \A n \in 1 .. Len(b) + 1 : Game!Decrypted(e)[n] = c[n]
  <2> TAKE n \in 1 .. Len(b) + 1
  <2>1. Game!Decrypted(e)[n] = [of |-> b, part |-> n - 1,
                           locks |-> Game!Xor(IF datNeedKey THEN Game!Xor(Put(n), Game!Key(n - 1)) ELSE Put(n), Game!Fixed(n - 1))]
    BY <1>4, <1>5 DEF Game!Decrypted
  <2>2. Game!Xor(IF datNeedKey THEN Game!Xor(Put(n), Game!Key(n - 1)) ELSE Put(n), Game!Fixed(n - 1)) = {}
    BY XorTwice
  <2> QED BY <2>1, <2>2, <1>3
<1>8. Game!Decrypted(e) = c
  BY <1>2, <1>6, <1>7, Zenon
<1>9. e \in Seq(Range(e))
  <2>1. e \in [1 .. Len(b) + 1 -> Range(e)]
    BY <1>4 DEF Range
  <2> QED BY <2>1, <1>1, SeqDef, Zenon
<1>10. c # <<>> /\ c[1].of = b
  BY <1>1, <1>2, <1>3
<1> QED BY <1>8, <1>9, <1>10

LEMMA Opened ==
  ASSUME NEW S, NEW b \in Seq(S)
  PROVE  GamePacked(b) # <<>> /\ Game!Decrypted(Tail(GamePacked(b))) = Game!CompressData(b)
<1> DEFINE e == Game!Encrypted(Game!CompressData(b))
           h == Game!FlagWords(datNeedKey)
           U == {h} \cup Range(e)
<1>1. e \in Seq(U)
  BY GameCleared, SeqMonotonic
<1>2. <<h>> \in Seq(U) /\ Len(<<h>>) = 1
  OBVIOUS
<1>3. <<h>> \o e \in Seq(U) /\ Len(<<h>> \o e) = 1 + Len(e)
      /\ \A m \in 1 .. 1 + Len(e) : (<<h>> \o e)[m] = IF m <= 1 THEN <<h>>[m] ELSE e[m - 1]
  BY <1>1, <1>2, ConcatProperties
<1>4. <<h>> \o e # <<>> /\ Len(e) \in Nat
  BY <1>1, <1>3, LenProperties
<1>5. Tail(<<h>> \o e) = e
  <2>1. Tail(<<h>> \o e) \in Seq(U) /\ Len(Tail(<<h>> \o e)) = Len(e)
        /\ \A m \in 1 .. Len(e) : Tail(<<h>> \o e)[m] = (<<h>> \o e)[m + 1]
    BY <1>3, <1>4
  <2>2. \A m \in 1 .. Len(e) : Tail(<<h>> \o e)[m] = e[m]
    BY <2>1, <1>3, <1>4
  <2> QED BY <2>1, <2>2, <1>1, SeqEqual
<1> QED BY <1>4, <1>5, GameCleared DEF GamePacked

-----------------------------------------------------------------------------
(* The body of a text is a sequence, and the mark in front of it is the one
   that the packer takes off again. *)
LEMMA BodyType ==
  ASSUME Game!GameexeAssumption, NEW b \in Bodies
  PROVE  \E S : b \in Seq(S)
<1>1. PICK t \in Texts : b = Game!TextBody(t)
  BY DEF Bodies
<1>2. t \in Seq({t[k] : k \in DOMAIN t})
  BY DEF Game!GameexeAssumption
<1>3. t # <<>> => Tail(t) \in Seq({t[k] : k \in DOMAIN t})
  BY <1>2
<1> QED BY <1>1, <1>2, <1>3 DEF Game!TextBody

LEMMA BodyOfFile ==
  ASSUME Game!GameexeAssumption, NEW f \in Files
  PROVE  Game!TextBody(f) \in Bodies /\ f # Game!None
<1>1. CASE f \in Texts
  BY <1>1 DEF Bodies, Game!GameexeAssumption
<1>2. CASE f \notin Texts
  <2>1. PICK b \in Bodies : f = <<Game!Bom>> \o b
    BY <1>2 DEF Files
  <2>2. PICK S : b \in Seq(S)
    BY BodyType
  <2>3. b \in Seq(S \cup {Game!Bom}) /\ <<Game!Bom>> \in Seq(S \cup {Game!Bom})
    BY <2>2, SeqMonotonic
  <2>4. f \in Seq(S \cup {Game!Bom}) /\ Len(f) = 1 + Len(b) /\ Len(b) \in Nat
        /\ \A m \in 1 .. 1 + Len(b) : f[m] = IF m <= 1 THEN Game!Bom ELSE b[m - 1]
    BY <2>1, <2>3, ConcatProperties, LenProperties
  <2>5. f # <<>> /\ Head(f) = Game!Bom
    BY <2>4
  <2>6. Tail(f) = b
    <3>1. Tail(f) \in Seq(S \cup {Game!Bom}) /\ Len(Tail(f)) = Len(b)
          /\ \A m \in 1 .. Len(b) : Tail(f)[m] = f[m + 1]
      BY <2>4, <2>5
    <3>2. \A m \in 1 .. Len(b) : Tail(f)[m] = b[m]
      BY <3>1, <2>4
    <3> QED BY <3>1, <3>2, <2>3, SeqEqual
  <2>7. f # Game!None
    <3>1. f[1] = Game!Bom
      BY <2>4
    <3>2. Game!None[1] # Game!Bom
      BY DEF Game!None, Game!Bom
    <3> QED BY <3>1, <3>2
  <2> QED BY <2>5, <2>6, <2>7 DEF Game!TextBody
<1> QED BY <1>1, <1>2

-----------------------------------------------------------------------------
(* The option of the dialog does not change, so an archive stays the archive
   of its text. *)
LEMMA SamePacked ==
  ASSUME datNeedKey' = datNeedKey
  PROVE  \A b : GamePacked(b)' = GamePacked(b)
BY DEF GamePacked, Game!FlagWords, Game!Encrypted

LEMMA GameInvStep ==
  ASSUME Game!GameexeAssumption, GameInv, Game!Next \/ UNCHANGED Game!gvars
  PROVE  GameInv'
<1> SUFFICES ASSUME ~cut'
             PROVE  (SourceRight /\ TextRight /\ DatRight /\ NewRight /\ BufferRight)'
  BY DEF GameInv
<1>1. ~cut /\ datNeedKey' = datNeedKey
  BY DEF Game!Next, Game!gvars, Game!pack, Game!unpack, Game!Edit, Game!Install, Game!Restart, Game!Open, Game!Create, Game!Write, Game!Read, Game!Save
<1>2. SourceRight /\ TextRight /\ DatRight /\ NewRight /\ BufferRight
  BY <1>1 DEF GameInv
<1>3. \A b : GamePacked(b)' = GamePacked(b)
  BY <1>1, SamePacked
<1>4. CASE Game!Edit
  <2>1. txt \in Files \cup {Game!None}
    BY <1>2 DEF TextRight, Files
  <2>2. SourceRight'
    BY <1>2, <1>4, <2>1 DEF Game!Edit, Game!pack, SourceRight, Files
  <2>3. (TextRight /\ DatRight /\ NewRight /\ BufferRight)'
    BY <1>2, <1>3, <1>4 DEF Game!Edit, Game!pack, Game!unpack, TextRight, DatRight, NewRight, BufferRight
  <2> QED BY <2>2, <2>3
<1>5. CASE Game!Install
  <2>1. DatRight'
    BY <1>2, <1>3, <1>5 DEF Game!Install, NewRight, DatRight
  <2>2. (SourceRight /\ TextRight /\ NewRight /\ BufferRight)'
    BY <1>2, <1>3, <1>5 DEF Game!Install, Game!pack, Game!unpack, SourceRight, TextRight, NewRight, BufferRight
  <2> QED BY <2>1, <2>2
<1>6. CASE Game!Restart
  <2>1. gphase # "created" /\ newdat' = newdat
    BY <1>1, <1>6 DEF Game!Restart
  <2> QED BY <1>2, <1>3, <1>6, <2>1 DEF Game!Restart, SourceRight, TextRight, DatRight, NewRight, BufferRight
<1>7. CASE Game!Open
  BY <1>2, <1>3, <1>7 DEF Game!Open, Game!unpack, SourceRight, TextRight, DatRight, NewRight, BufferRight
<1>8. CASE Game!Create
  BY <1>2, <1>3, <1>8 DEF Game!Create, Game!unpack, SourceRight, TextRight, DatRight, NewRight, BufferRight
<1>9. CASE Game!Write
  <2>1. source \in Files
    BY <1>2, <1>9 DEF Game!Write, SourceRight
  <2>2. Game!TextBody(source) \in Bodies /\ newdat' = GamePacked(Game!TextBody(source))
    BY <1>9, <2>1, BodyOfFile DEF Game!Write, Game!Archive, GamePacked
  <2>3. NewRight'
    BY <1>3, <2>2 DEF NewRight
  <2> QED BY <1>2, <1>3, <1>9, <2>3 DEF Game!Write, Game!unpack, SourceRight, TextRight, DatRight, BufferRight
<1>10. CASE Game!Read
  <2>1. PICK b \in Bodies : dat = GamePacked(b)
    BY <1>2, <1>10 DEF Game!Read, DatRight
  <2>2. dat # <<>> /\ Game!Decrypted(Tail(dat)) = Game!CompressData(b)
    BY <2>1, BodyType, Opened
  <2>3. BufferRight'
    BY <1>10, <2>2 DEF Game!Read, BufferRight, Game!CompressData
  <2> QED BY <1>2, <1>3, <1>10, <2>3 DEF Game!Read, Game!pack, SourceRight, TextRight, DatRight, NewRight
<1>11. CASE Game!Save
  <2>1. PICK b \in Bodies : gbuffer = Game!CompressData(b)
    BY <1>2, <1>11 DEF Game!Save, BufferRight
  <2>2. Game!DecompressData(gbuffer) = b
    BY <2>1, BodyType, GameCleared DEF Game!DecompressData
  <2>3. TextRight'
    BY <1>2, <1>11, <2>2 DEF Game!Save, TextRight
  <2> QED BY <1>2, <1>3, <1>11, <2>3 DEF Game!Save, Game!pack, SourceRight, DatRight, NewRight, BufferRight
<1>12. CASE UNCHANGED Game!gvars
  BY <1>2, <1>3, <1>12 DEF Game!gvars, Game!pack, Game!unpack, SourceRight, TextRight, DatRight, NewRight, BufferRight
<1> QED BY <1>4, <1>5, <1>6, <1>7, <1>8, <1>9, <1>10, <1>11, <1>12 DEF Game!Next

(* UnpackGameexe gives back what CreateGameexe was given, for every text and
   every length of the two keys, whatever the user edits, installs and packs
   again, as long as no pack was cut by the end of the game. *)
THEOREM GameexeIsKept == FormatSpec => []TextSurvives
<1> DEFINE Inv == program = "gameexe" => GameInv
<1>1. FormatInit => Inv
  <2> SUFFICES ASSUME Game!Init
               PROVE  GameInv
    BY DEF FormatInit
  <2> QED BY DEF Game!Init, GameInv, SourceRight, TextRight, DatRight, NewRight, BufferRight, Files
<1>2. Inv /\ [FormatNext]_formatvars => Inv'
  <2> SUFFICES ASSUME GameInv, Game!Next \/ UNCHANGED Game!gvars
               PROVE  GameInv'
    BY DEF FormatNext, formatvars, gamevars, Game!gvars, Game!pack, Game!unpack
  <2> QED BY FormatsAssumption, GameInvStep
<1>3. Inv => TextSurvives
  BY DEF TextSurvives, GameInv, TextRight, BufferRight, Game!TextSurvives, Bodies
<1> QED BY <1>1, <1>2, <1>3, PTL DEF FormatSpec

-----------------------------------------------------------------------------
(* CreateGameexe makes the archive last, after every call that can fail. *)
Untouched == /\ gphase \in {"idle", "opened", "created"}
             /\ gphase = "opened" => newdat = before
             /\ Game!FailedPackKeeps

(* A pack of Gameexe.dat that is reported to have failed has left the archive
   of the last one, also when the game was closed and started in between. *)
THEOREM GameexeFailureKeeps == FormatSpec => []FailedPackKeeps
<1> DEFINE Inv == program = "gameexe" => Untouched
<1>1. FormatInit => Inv
  BY DEF FormatInit, Game!Init, Untouched, Game!FailedPackKeeps
<1>2. Inv /\ [FormatNext]_formatvars => Inv'
  <2> SUFFICES ASSUME Untouched, Game!Next \/ UNCHANGED Game!gvars
               PROVE  Untouched'
    BY DEF FormatNext, formatvars, gamevars, Game!gvars, Game!pack, Game!unpack
  <2>1. CASE Game!Edit
    BY <2>1 DEF Game!Edit, Game!pack, Untouched, Game!FailedPackKeeps
  <2>2. CASE Game!Install
    BY <2>2 DEF Game!Install, Game!pack, Untouched, Game!FailedPackKeeps
  <2>3. CASE Game!Restart
    BY <2>3 DEF Game!Restart, Untouched, Game!FailedPackKeeps
  <2>4. CASE Game!Open
    BY <2>4 DEF Game!Open, Untouched, Game!FailedPackKeeps
  <2>5. CASE Game!Create
    BY <2>5 DEF Game!Create, Untouched, Game!FailedPackKeeps
  <2>6. CASE Game!Write
    BY <2>6 DEF Game!Write, Untouched, Game!FailedPackKeeps
  <2>7. CASE Game!Read
    BY <2>7 DEF Game!Read, Game!pack, Untouched, Game!FailedPackKeeps
  <2>8. CASE Game!Save
    BY <2>8 DEF Game!Save, Game!pack, Untouched, Game!FailedPackKeeps
  <2>9. CASE UNCHANGED Game!gvars
    BY <2>9 DEF Game!gvars, Game!pack, Untouched, Game!FailedPackKeeps
  <2> QED BY <2>1, <2>2, <2>3, <2>4, <2>5, <2>6, <2>7, <2>8, <2>9 DEF Game!Next
<1>3. Inv => FailedPackKeeps
  BY DEF Untouched, FailedPackKeeps
<1> QED BY <1>1, <1>2, <1>3, PTL DEF FormatSpec

-----------------------------------------------------------------------------
(* Arithmetic of places: the place (x, y) in rows of w, and the place behind a
   place. *)
LEMMA RowAndColumn ==
  ASSUME NEW w \in Nat \ {0}, NEW y \in Int, NEW x \in 0 .. w - 1
  PROVE  (y * w + x) \div w = y /\ (y * w + x) % w = x
OBVIOUS

(* How far a place is behind the first of a block. *)
Apart(w, x, y, bx, by, hx, hy, bw) ==
  /\ x - (bx - hx) \in Int /\ y - (by - hy) \in Int
  /\ x - (bx - hx) < w /\ x - (bx - hx) + w >= bw
  /\ (y * w + x + 1) - 1 - ((by - hy) * w + bx - hx) = (y - (by - hy)) * w + (x - (bx - hx))

LEMMA HowFarApart ==
  ASSUME NEW w \in Nat \ {0}, NEW x \in 0 .. w - 1, NEW y \in Int, NEW bx \in Int, NEW by \in Int,
         NEW hx \in Int, NEW hy \in Int, NEW bw \in Nat, bx >= hx, bx - hx + bw <= w
  PROVE  Apart(w, x, y, bx, by, hx, hy, bw)
<1>1. x - (bx - hx) < w /\ x - (bx - hx) + w >= bw
  OBVIOUS
<1>2. (y * w + x + 1) - 1 - ((by - hy) * w + bx - hx) = (y - (by - hy)) * w + (x - (bx - hx))
  OBVIOUS
<1> QED BY <1>1, <1>2 DEF Apart

(* A place is in a buffer of h rows. *)
LEMMA InBuffer ==
  ASSUME NEW w \in Nat \ {0}, NEW h \in Nat, NEW x \in 0 .. w - 1, NEW y \in 0 .. h - 1
  PROVE  y * w + x + 1 \in 1 .. w * h
<1>1. 0 <= y * w /\ y * w <= (h - 1) * w
  OBVIOUS
<1>2. (h - 1) * w = w * h - w
  OBVIOUS
<1> QED BY <1>1, <1>2

(* The row of a block of bh rows that a place is in, by its distance from the
   first pixel of the block, and the column. *)
RowOf(w, bh, at) == IF at \div w < bh THEN at \div w ELSE bh - 1
ColumnOf(w, bh, at) == at - RowOf(w, bh, at) * w

(* Where a place is in a block of bw by bh at a distance of (dx, dy), by the
   distance of the places in the buffer. *)
LEMMA PasteAt ==
  ASSUME NEW w \in Nat \ {0}, NEW dx \in Int, NEW dy \in Int, NEW bw \in Nat, NEW bh \in Nat,
         dx < w, dx + w >= bw, NEW at, at = dy * w + dx
  PROVE  /\ at >= 0 /\ bh > 0 /\ ColumnOf(w, bh, at) < bw
               <=> dx \in 0 .. bw - 1 /\ dy \in 0 .. bh - 1
         /\ dx \in 0 .. bw - 1 /\ dy \in 0 .. bh - 1 =>
               ColumnOf(w, bh, at) = dx /\ RowOf(w, bh, at) = dy
<1>1. ASSUME NEW q \in Int, NEW r \in 0 .. w - 1, at = q * w + r
      PROVE  /\ q < bh => RowOf(w, bh, at) = q /\ ColumnOf(w, bh, at) = r
             /\ ~(q < bh) => ColumnOf(w, bh, at) >= w + r
  <2>1. at \div w = q
    BY <1>1, RowAndColumn
  <2>2. CASE q < bh
    <3>1. RowOf(w, bh, at) = q
      BY <2>1, <2>2 DEF RowOf
    <3>2. q * w \in Int
      OBVIOUS
    <3>3. ColumnOf(w, bh, at) = at - q * w
      BY <3>1 DEF ColumnOf
    <3> QED BY <2>2, <3>1, <3>2, <3>3, <1>1
  <2>3. CASE ~(q < bh)
    <3>1. RowOf(w, bh, at) = bh - 1
      BY <2>1, <2>3 DEF RowOf
    <3>2. ColumnOf(w, bh, at) = at - (bh - 1) * w
      BY <3>1 DEF ColumnOf
    <3> DEFINE m == q - bh
    <3>3. m \in Nat /\ q = (bh - 1) + 1 + m
      BY <2>3
    <3> HIDE DEF m
    <3>4. q * w = (bh - 1) * w + w + m * w /\ m * w >= 0
      BY <3>3
    <3>5. q * w \in Int /\ (bh - 1) * w \in Int /\ m * w \in Int
      BY <3>3
    <3> QED BY <2>3, <3>2, <3>4, <3>5, <1>1
  <2> QED BY <2>2, <2>3
<1>2. CASE dx >= 0
  <2>1. dx \in 0 .. w - 1
    BY <1>2
  <2>2. /\ dy < bh => RowOf(w, bh, at) = dy /\ ColumnOf(w, bh, at) = dx
        /\ ~(dy < bh) => ColumnOf(w, bh, at) >= w + dx
    BY <1>1, <2>1
  <2>3. dy >= 0 => dy * w >= 0
    OBVIOUS
  <2>4. dy <= 0 - 1 => dy * w <= (0 - 1) * w
    OBVIOUS
  <2>5. dy * w \in Int /\ at \in Int
    OBVIOUS
  <2>6. CASE dy < bh
    <3>1. RowOf(w, bh, at) = dy /\ ColumnOf(w, bh, at) = dx
      BY <2>2, <2>6
    <3>2. at >= 0 <=> dy >= 0
      BY <2>1, <2>3, <2>4, <2>5
    <3> QED BY <1>2, <2>6, <3>1, <3>2
  <2>7. CASE ~(dy < bh)
    <3>1. ColumnOf(w, bh, at) >= w + dx
      BY <2>2, <2>7
    <3>2. ColumnOf(w, bh, at) \in Int
      <4>1. at \div w \in Int
        BY <2>5
      <4>2. RowOf(w, bh, at) \in Int
        BY <4>1 DEF RowOf
      <4> QED BY <4>2, <2>5 DEF ColumnOf
    <3> QED BY <2>7, <3>1, <3>2
  <2> QED BY <2>6, <2>7
<1>3. CASE ~(dx >= 0)
  <2> DEFINE q == dy - 1
             r == w + dx
  <2>1. q \in Int /\ r \in 0 .. w - 1
    BY <1>3
  <2>2. at = q * w + r
    <3>1. (dy - 1) * w = dy * w - w
      OBVIOUS
    <3>2. dy * w \in Int /\ (dy - 1) * w \in Int
      OBVIOUS
    <3> QED BY <3>1, <3>2
  <2> HIDE DEF q
  <2>3. /\ q < bh => ColumnOf(w, bh, at) = r
        /\ ~(q < bh) => ColumnOf(w, bh, at) >= w + r
    <3> HIDE DEF r
    <3> QED BY <1>1, <2>1, <2>2
  <2>4. ColumnOf(w, bh, at) \in Int
    <3>1. at \in Int /\ at \div w \in Int
      OBVIOUS
    <3>2. RowOf(w, bh, at) \in Int
      BY <3>1 DEF RowOf
    <3> QED BY <3>1, <3>2 DEF ColumnOf
  <2>5. ~(ColumnOf(w, bh, at) < bw)
    BY <2>1, <2>3, <2>4
  <2> QED BY <1>3, <2>5
<1> QED BY <1>2, <1>3

(* The rows of a block that lies in the part stay in its buffer. *)
LEMMA InsideBuffer ==
  ASSUME NEW w \in Nat, NEW h \in Nat, NEW dx \in Nat, NEW dy \in Nat,
         NEW bw \in Nat, NEW bh \in Nat \ {0}, dx + bw <= w, dy + bh <= h
  PROVE  /\ dy * w + dx >= 0
         /\ dy * w + dx + (bh - 1) * w + bw <= w * h
<1>1. dy * w >= 0 /\ dy * w \in Int
  OBVIOUS
<1> DEFINE m == h - (dy + bh)
<1>2. m \in Nat /\ h = dy + (bh - 1) + 1 + m
  OBVIOUS
<1> HIDE DEF m
<1>3. w * h = dy * w + (bh - 1) * w + w + m * w
  BY <1>2
<1>4. (bh - 1) * w \in Int /\ m * w \in Int /\ m * w >= 0 /\ w * h \in Int
  BY <1>2
<1> QED BY <1>1, <1>3, <1>4

LEMMA NextPlace ==
  ASSUME NEW w \in Nat \ {0}, NEW k \in Nat
  PROVE  /\ k % w \in 0 .. w - 1 /\ k \div w \in Nat
         /\ (k + 1) % w = IF (k % w) + 1 >= w THEN 0 ELSE (k % w) + 1
         /\ (k + 1) \div w = IF (k % w) + 1 >= w THEN (k \div w) + 1 ELSE k \div w
<1> DEFINE q == k \div w
           r == k % w
<1>1. k = q * w + r /\ r \in 0 .. w - 1 /\ q \in Nat
  OBVIOUS
<1> HIDE DEF q, r
<1>2. CASE r + 1 >= w
  <2>1. k + 1 = (q + 1) * w + 0
    BY <1>1, <1>2
  <2>2. ((q + 1) * w + 0) \div w = q + 1 /\ ((q + 1) * w + 0) % w = 0
    BY <1>1, RowAndColumn
  <2> QED BY <1>1, <1>2, <2>1, <2>2 DEF q, r
<1>3. CASE ~(r + 1 >= w)
  <2>1. k + 1 = q * w + (r + 1) /\ r + 1 \in 0 .. w - 1
    BY <1>1, <1>3
  <2>2. (q * w + (r + 1)) \div w = q /\ (q * w + (r + 1)) % w = r + 1
    BY <1>1, <2>1, RowAndColumn
  <2> QED BY <1>1, <1>3, <2>1, <2>2 DEF q, r
<1> QED BY <1>2, <1>3

-----------------------------------------------------------------------------
(* The images: a picture put together from blocks is, pixel for pixel, the last
   block that covers the place. *)
In(p, m, x, y) ==
  /\ x - (p.blocks[m].x - p.hs_x) \in 0 .. p.blocks[m].width - 1
  /\ y - (p.blocks[m].y - p.hs_y) \in 0 .. p.blocks[m].height - 1
BlockPixel(p, m, x, y) == Image!Pixel(m, x - (p.blocks[m].x - p.hs_x), y - (p.blocks[m].y - p.hs_y))

(* The place of a pixel in a buffer of rows of w. *)
At(w, x, y) == y * w + x + 1

(* A buffer with the first b blocks of a part. *)
HoldsBlocks(buf, p, b) ==
  /\ buf = [k \in 1 .. p.width * p.height |-> buf[k]]
  /\ \A x \in 0 .. p.width - 1, y \in 0 .. p.height - 1 :
       \/ (\A m \in 1 .. b : ~In(p, m, x, y)) /\ buf[At(p.width, x, y)] = Image!Clear
       \/ \E m \in 1 .. b : /\ In(p, m, x, y) /\ \A n \in m + 1 .. b : ~In(p, n, x, y)
                            /\ buf[At(p.width, x, y)] = BlockPixel(p, m, x, y)

LEMMA PartType ==
  ASSUME NEW p \in Parts
  PROVE  /\ p.width \in Nat /\ p.height \in Nat /\ p.hs_x \in Int /\ p.hs_y \in Int
         /\ Len(p.blocks) \in Nat /\ DOMAIN p.blocks = 1 .. Len(p.blocks)
         /\ \A b \in 1 .. Len(p.blocks) :
              /\ p.blocks[b].x \in Int /\ p.blocks[b].y \in Int
              /\ p.blocks[b].width \in Nat /\ p.blocks[b].height \in Nat
<1>1. /\ p.width \in Nat /\ p.height \in Nat /\ p.hs_x \in Int /\ p.hs_y \in Int
      /\ p.blocks \in Seq(Image!Blocks)
  BY FormatsAssumption DEF Image!ImageAssumption
<1>2. Len(p.blocks) \in Nat /\ DOMAIN p.blocks = 1 .. Len(p.blocks)
  BY <1>1, LenProperties
<1>3. \A b \in 1 .. Len(p.blocks) : p.blocks[b] \in Image!Blocks
  BY <1>1, ElementOfSeq
<1>4. \A b \in 1 .. Len(p.blocks) :
        /\ p.blocks[b].x \in Int /\ p.blocks[b].y \in Int
        /\ p.blocks[b].width \in Nat /\ p.blocks[b].height \in Nat
  BY <1>3 DEF Image!Blocks
<1> QED BY <1>1, <1>2, <1>4

LEMMA BlockFits ==
  ASSUME NEW p \in Parts, Image!Fits(p), NEW b \in 1 .. Len(p.blocks)
  PROVE  /\ p.blocks[b].x >= p.hs_x /\ p.blocks[b].x - p.hs_x + p.blocks[b].width <= p.width
         /\ p.blocks[b].y >= p.hs_y /\ p.blocks[b].y - p.hs_y + p.blocks[b].height <= p.height
BY PartType DEF Image!Fits

(* A part whose blocks lie in it touches no memory of others. *)
LEMMA FitsStaysHome ==
  ASSUME NEW p \in Parts, p.type \in Image!Painted, Image!Fits(p)
  PROVE  ~Image!Strays(p)
<1> SUFFICES ASSUME NEW b \in 1 .. Len(p.blocks), Image!Outside(p, b)
             PROVE  FALSE
  BY PartType DEF Image!Strays
<1>0. /\ p.blocks[b].width > 0 /\ p.blocks[b].height > 0
      /\ \/ Image!Offset(p, b) < 0
         \/ Image!Offset(p, b) + (p.blocks[b].height - 1) * p.width + p.blocks[b].width
              > p.width * p.height
  <2> DEFINE c == p.blocks[b]
  <2>1. /\ c.width > 0 /\ c.height > 0
        /\ \/ Image!Offset(p, b) < 0
           \/ Image!Offset(p, b) + (c.height - 1) * p.width + c.width > p.width * p.height
    BY Zenon DEF Image!Outside
  <2> QED BY <2>1, Zenon
<1> DEFINE dx == p.blocks[b].x - p.hs_x
           dy == p.blocks[b].y - p.hs_y
           bw == p.blocks[b].width
           bh == p.blocks[b].height
           w  == p.width
           h  == p.height
<1>1. /\ p.blocks[b].x \in Int /\ p.blocks[b].y \in Int /\ bw \in Nat /\ bh \in Nat
      /\ p.hs_x \in Int /\ p.hs_y \in Int /\ w \in Nat /\ h \in Nat
  BY PartType
<1>2. /\ p.blocks[b].x >= p.hs_x /\ dx + bw <= w /\ p.blocks[b].y >= p.hs_y /\ dy + bh <= h
  BY BlockFits
<1>3. dx \in Nat /\ dy \in Nat
  <2>1. \A m, n \in Int : m >= n => m - n \in Nat
    OBVIOUS
  <2> QED BY <2>1, <1>1, <1>2, Zenon
<1>4. /\ bw > 0 /\ bh > 0
      /\ \/ Image!Offset(p, b) < 0
         \/ Image!Offset(p, b) + (bh - 1) * w + bw > w * h
  BY <1>0, Zenon
<1>5. Image!Offset(p, b) = dy * w + dx
  <2>1. Image!Offset(p, b) = dy * w + p.blocks[b].x - p.hs_x
    BY DEF Image!Offset
  <2>2. dy * w \in Int
    BY <1>1, <1>3
  <2> HIDE DEF dy, w
  <2> QED BY <1>1, <2>1, <2>2
<1> HIDE DEF dx, dy, bw, bh, w, h
<1>6. bh \in Nat \ {0}
  BY <1>1, <1>4
<1>7. dy * w + dx >= 0 /\ dy * w + dx + (bh - 1) * w + bw <= w * h
  BY <1>1, <1>2, <1>3, <1>6, InsideBuffer
<1>8. dy * w \in Int /\ (bh - 1) * w \in Int /\ w * h \in Int
  BY <1>1, <1>3, <1>6
<1> QED BY <1>1, <1>3, <1>4, <1>5, <1>7, <1>8

LEMMA BlockPlace ==
  ASSUME NEW p \in Parts, Image!Fits(p), NEW b \in 1 .. Len(p.blocks),
         NEW x \in 0 .. p.width - 1, NEW y \in 0 .. p.height - 1
  PROVE  LET dx == x - (p.blocks[b].x - p.hs_x)
             dy == y - (p.blocks[b].y - p.hs_y)
         IN  /\ p.width \in Nat \ {0} /\ dx \in Int /\ dy \in Int
             /\ dx < p.width /\ dx + p.width >= p.blocks[b].width
             /\ (y * p.width + x + 1) - 1 - Image!Offset(p, b) = dy * p.width + dx
<1>1. /\ p.blocks[b].x \in Int /\ p.blocks[b].y \in Int /\ p.hs_x \in Int /\ p.hs_y \in Int
      /\ p.width \in Nat /\ p.height \in Nat
      /\ p.blocks[b].width \in Nat /\ p.blocks[b].height \in Nat
  BY PartType
<1>2. p.blocks[b].x >= p.hs_x /\ p.blocks[b].x - p.hs_x + p.blocks[b].width <= p.width
  BY BlockFits
<1>3. p.width \in Nat \ {0} /\ y \in Int
  BY <1>1
<1>4. Apart(p.width, x, y, p.blocks[b].x, p.blocks[b].y, p.hs_x, p.hs_y, p.blocks[b].width)
  BY <1>1, <1>2, <1>3, HowFarApart
<1> QED BY <1>1, <1>3, <1>4 DEF Image!Offset, Apart

(* part_extract_buf pastes a block at its place and nowhere else. *)
LEMMA PastedAtItsPlace ==
  ASSUME NEW p \in Parts, Image!Fits(p), NEW b \in 1 .. Len(p.blocks), NEW buf,
         buf = [k \in 1 .. p.width * p.height |-> buf[k]],
         NEW x \in 0 .. p.width - 1, NEW y \in 0 .. p.height - 1
  PROVE  Image!Pasted(buf, p, b)[At(p.width, x, y)] =
           IF In(p, b, x, y) THEN BlockPixel(p, b, x, y) ELSE buf[At(p.width, x, y)]
<1> DEFINE w == p.width
           dx == x - (p.blocks[b].x - p.hs_x)
           dy == y - (p.blocks[b].y - p.hs_y)
           k == y * w + x + 1
           at == k - 1 - ((p.blocks[b].y - p.hs_y) * w + p.blocks[b].x - p.hs_x)
           bw == p.blocks[b].width
           bh == p.blocks[b].height
<1>1. /\ w \in Nat \ {0} /\ p.height \in Nat /\ dx \in Int /\ dy \in Int
      /\ bw \in Nat /\ bh \in Nat /\ dx < w /\ dx + w >= bw
      /\ at = dy * w + dx
  <2>1. bw \in Nat /\ bh \in Nat /\ p.height \in Nat
    BY PartType
  <2> QED BY <2>1, BlockPlace DEF Image!Offset
<1>2. k \in 1 .. w * p.height
  BY <1>1, InBuffer
<1>3. Image!Pasted(buf, p, b)[k] =
        IF at >= 0 /\ bh > 0 /\ ColumnOf(w, bh, at) < bw
        THEN Image!Pixel(b, ColumnOf(w, bh, at), RowOf(w, bh, at)) ELSE buf[k]
  <2>1. DOMAIN buf = 1 .. w * p.height
    OBVIOUS
  <2> HIDE DEF k
  <2> QED BY <1>2, <2>1, Zenon DEF Image!Pasted, Image!Offset, RowOf, ColumnOf
<1>4. In(p, b, x, y) <=> dx \in 0 .. bw - 1 /\ dy \in 0 .. bh - 1
  BY DEF In
<1>5. BlockPixel(p, b, x, y) = Image!Pixel(b, dx, dy)
  BY DEF BlockPixel
<1> HIDE DEF bw, bh, at, dx, dy, k, w
<1>6. /\ at >= 0 /\ bh > 0 /\ ColumnOf(w, bh, at) < bw <=> dx \in 0 .. bw - 1 /\ dy \in 0 .. bh - 1
      /\ dx \in 0 .. bw - 1 /\ dy \in 0 .. bh - 1 =>
           ColumnOf(w, bh, at) = dx /\ RowOf(w, bh, at) = dy
  BY <1>1, PasteAt
<1>7. Image!Pasted(buf, p, b)[k] = IF In(p, b, x, y) THEN BlockPixel(p, b, x, y) ELSE buf[k]
  BY <1>3, <1>4, <1>5, <1>6, Zenon
<1> QED BY <1>7 DEF k, w, At

LEMMA AtInBuffer ==
  ASSUME NEW p \in Parts, NEW x \in 0 .. p.width - 1, NEW y \in 0 .. p.height - 1
  PROVE  At(p.width, x, y) \in 1 .. p.width * p.height
<1>1. p.width \in Nat /\ p.height \in Nat
  BY PartType
<1>2. p.width \in Nat \ {0}
  BY <1>1
<1> QED BY <1>1, <1>2, InBuffer DEF At

(* The buffers of extract_g02_part, block after block. *)
Buffers(p, f, m) ==
  f = [b \in 0 .. m |-> IF b = 0 THEN [k \in 1 .. p.width * p.height |-> Image!Clear]
                                 ELSE Image!Pasted(f[b - 1], p, b)]

LEMMA BuffersExist ==
  ASSUME NEW p, NEW n \in Nat
  PROVE  \E f : Buffers(p, f, n)
<1> DEFINE S == {m \in Nat : ~ \E f : Buffers(p, f, m)}
<1> SUFFICES ASSUME S # {}
             PROVE  FALSE
  OBVIOUS
<1>1. PICK m \in S : \A k \in S : m <= k
  BY Least
<1>2. CASE m = 0
  <2> DEFINE g == [b \in 0 .. 0 |-> [k \in 1 .. p.width * p.height |-> Image!Clear]]
  <2>1. Buffers(p, g, 0)
    BY DEF Buffers
  <2> QED BY <1>1, <1>2, <2>1
<1>3. CASE m # 0
  <2>1. m - 1 \in Nat /\ m \in Nat /\ m - 1 \notin S
    BY <1>1, <1>3
  <2>2. PICK f : Buffers(p, f, m - 1)
    BY <2>1
  <2> DEFINE g == [b \in 0 .. m |-> IF b < m THEN f[b] ELSE Image!Pasted(f[m - 1], p, m)]
  <2>3. \A b \in 0 .. m : g[b] = IF b = 0 THEN [k \in 1 .. p.width * p.height |-> Image!Clear]
                                          ELSE Image!Pasted(g[b - 1], p, b)
    <3> TAKE b \in 0 .. m
    <3>1. CASE b = m
      BY <1>3, <2>1, <3>1
    <3>2. CASE b # m
      <4>1. b \in 0 .. m - 1 /\ g[b] = f[b] /\ (b # 0 => b - 1 \in 0 .. m - 1 /\ g[b - 1] = f[b - 1])
        BY <2>1, <3>2
      <4>2. f[b] = IF b = 0 THEN [k \in 1 .. p.width * p.height |-> Image!Clear]
                            ELSE Image!Pasted(f[b - 1], p, b)
        BY <2>2, <4>1 DEF Buffers
      <4> QED BY <4>1, <4>2
    <3> QED BY <3>1, <3>2
  <2>4. Buffers(p, g, m)
    <3>1. g = [b \in 0 .. m |-> g[b]]
      OBVIOUS
    <3> HIDE DEF g
    <3> QED BY <2>3, <3>1 DEF Buffers
  <2> QED BY <1>1, <2>4
<1> QED BY <1>2, <1>3

LEMMA BlocksPasted ==
  ASSUME NEW p \in Parts, Image!Fits(p)
  PROVE  HoldsBlocks(Image!extract_g02_part(p), p, Len(p.blocks))
<1> DEFINE L == Len(p.blocks)
           dib == CHOOSE f : Buffers(p, f, L)
<1>1. L \in Nat
  BY PartType
<1>2. Buffers(p, dib, L)
  BY <1>1, BuffersExist
<1>3. Image!extract_g02_part(p) = dib[L]
  BY DEF Image!extract_g02_part, Buffers
<1> HIDE DEF dib
<1>4. \A b \in 0 .. L : dib[b] = IF b = 0 THEN [k \in 1 .. p.width * p.height |-> Image!Clear]
                                          ELSE Image!Pasted(dib[b - 1], p, b)
  BY <1>2 DEF Buffers
<1> DEFINE S == {b \in 0 .. L : ~HoldsBlocks(dib[b], p, b)}
<1>5. ASSUME S # {}
      PROVE  FALSE
  <2>1. PICK b \in S : \A k \in S : b <= k
    <3>1. S \subseteq Nat
      BY <1>1
    <3> QED BY <1>5, <3>1, Least
  <2>2. CASE b = 0
    <3>1. dib[0] = [k \in 1 .. p.width * p.height |-> Image!Clear]
      <4>1. 0 \in 0 .. L
        BY <1>1
      <4> QED BY <1>4, <4>1
    <3>2. ASSUME NEW x \in 0 .. p.width - 1, NEW y \in 0 .. p.height - 1
          PROVE  dib[0][At(p.width, x, y)] = Image!Clear
      <4>1. At(p.width, x, y) \in 1 .. p.width * p.height
        BY AtInBuffer
      <4> DEFINE D == 1 .. p.width * p.height
                 a == At(p.width, x, y)
      <4>2. a \in D /\ dib[0] = [k \in D |-> Image!Clear]
        BY <3>1, <4>1
      <4> HIDE DEF a, D
      <4>3. dib[0][a] = Image!Clear
        BY <4>2
      <4> QED BY <4>3 DEF a
    <3>3. dib[0] = [k \in 1 .. p.width * p.height |-> dib[0][k]]
      BY <3>1
    <3>4. HoldsBlocks(dib[0], p, 0)
      BY <3>2, <3>3 DEF HoldsBlocks
    <3> QED BY <2>1, <2>2, <3>4
  <2>3. CASE b # 0
    <3>1. b \in 1 .. L /\ HoldsBlocks(dib[b - 1], p, b - 1)
      BY <1>1, <2>1, <2>3
    <3>2. dib[b] = Image!Pasted(dib[b - 1], p, b)
      BY <1>4, <3>1
    <3>3. dib[b - 1] = [k \in 1 .. p.width * p.height |-> dib[b - 1][k]]
      BY <3>1 DEF HoldsBlocks
    <3>4. dib[b] = [k \in 1 .. p.width * p.height |-> dib[b][k]]
      BY <3>2, <3>3 DEF Image!Pasted
    <3>5. ASSUME NEW x \in 0 .. p.width - 1, NEW y \in 0 .. p.height - 1
          PROVE  \/ (\A m \in 1 .. b : ~In(p, m, x, y)) /\ dib[b][At(p.width, x, y)] = Image!Clear
                 \/ \E m \in 1 .. b : /\ In(p, m, x, y) /\ \A n \in m + 1 .. b : ~In(p, n, x, y)
                                      /\ dib[b][At(p.width, x, y)] = BlockPixel(p, m, x, y)
      <4> DEFINE at == At(p.width, x, y)
                 old == dib[b - 1]
      <4>1. dib[b][at] = IF In(p, b, x, y) THEN BlockPixel(p, b, x, y) ELSE old[at]
        <5>1. b \in 1 .. Len(p.blocks)
          BY <3>1
        <5>2. old = [k \in 1 .. p.width * p.height |-> old[k]]
          BY <3>3
        <5> HIDE DEF old
        <5>3. Image!Pasted(old, p, b)[At(p.width, x, y)] =
                IF In(p, b, x, y) THEN BlockPixel(p, b, x, y) ELSE old[At(p.width, x, y)]
          BY <5>1, <5>2, PastedAtItsPlace
        <5> QED BY <3>2, <5>3 DEF old
      <4>2. \/ (\A m \in 1 .. b - 1 : ~In(p, m, x, y)) /\ old[at] = Image!Clear
            \/ \E m \in 1 .. b - 1 : /\ In(p, m, x, y) /\ \A n \in m + 1 .. b - 1 : ~In(p, n, x, y)
                                     /\ old[at] = BlockPixel(p, m, x, y)
        BY <3>1 DEF HoldsBlocks
      <4> HIDE DEF at, old
      <4>3. CASE In(p, b, x, y)
        <5>1. b \in 1 .. b /\ \A n \in b + 1 .. b : ~In(p, n, x, y)
          BY <1>1, <3>1
        <5> QED BY <4>1, <4>3, <5>1 DEF at
      <4>4. CASE ~In(p, b, x, y)
        <5>1. dib[b][at] = old[at]
          BY <4>1, <4>4
        <5>2. CASE (\A m \in 1 .. b - 1 : ~In(p, m, x, y)) /\ old[at] = Image!Clear
          <6>1. \A m \in 1 .. b : ~In(p, m, x, y)
            BY <1>1, <3>1, <4>4, <5>2
          <6> QED BY <5>1, <5>2, <6>1 DEF at
        <5>3. ASSUME NEW m \in 1 .. b - 1, In(p, m, x, y), \A n \in m + 1 .. b - 1 : ~In(p, n, x, y),
                     old[at] = BlockPixel(p, m, x, y)
              PROVE  \E q \in 1 .. b : /\ In(p, q, x, y) /\ \A n \in q + 1 .. b : ~In(p, n, x, y)
                                       /\ dib[b][at] = BlockPixel(p, q, x, y)
          <6>1. m \in 1 .. b /\ \A n \in m + 1 .. b : ~In(p, n, x, y)
            BY <1>1, <3>1, <4>4, <5>3
          <6> QED BY <5>1, <5>3, <6>1
        <5> QED BY <4>2, <5>2, <5>3 DEF at
      <4> QED BY <4>3, <4>4
    <3> QED BY <2>1, <3>4, <3>5 DEF HoldsBlocks
  <2> QED BY <2>2, <2>3
<1>6. HoldsBlocks(dib[L], p, L)
  BY <1>1, <1>5
<1> QED BY <1>3, <1>6

(* One span, measured from the picture and from the part. *)
SameSpan(u, g, v, n) == u + g \in v .. v + n - 1 <=> u - (v - g) \in 0 .. n - 1

LEMMA SpansAreSame == \A u, g, v \in Int, n \in Nat : SameSpan(u, g, v, n)
BY DEF SameSpan

(* The pixel that a part is to have is the one its buffer has. *)
LEMMA PartIsItsBlocks ==
  ASSUME NEW p \in Parts, Image!Fits(p), NEW x \in 0 .. p.width - 1, NEW y \in 0 .. p.height - 1
  PROVE  Image!extract_g02_part(p)[At(p.width, x, y)] = Image!PartPixel(p, x, y)
<1> DEFINE L == Len(p.blocks)
           covers == Image!Covers(p, x, y)
           pixel == Image!extract_g02_part(p)[At(p.width, x, y)]
<1>1. /\ L \in Nat /\ DOMAIN p.blocks = 1 .. L /\ p.hs_x \in Int /\ p.hs_y \in Int
      /\ \A b \in 1 .. L : /\ p.blocks[b].x \in Int /\ p.blocks[b].y \in Int
                           /\ p.blocks[b].width \in Nat /\ p.blocks[b].height \in Nat
  BY PartType
<1>2. x \in Int /\ y \in Int
  BY PartType
<1>3. covers = {m \in 1 .. L : In(p, m, x, y)}
  <2>1. ASSUME NEW m \in 1 .. L
        PROVE  LET c == p.blocks[m]
               IN  x + p.hs_x \in c.x .. c.x + c.width - 1 /\ y + p.hs_y \in c.y .. c.y + c.height - 1
                   <=> In(p, m, x, y)
    <3>1. /\ p.blocks[m].x \in Int /\ p.blocks[m].y \in Int
          /\ p.blocks[m].width \in Nat /\ p.blocks[m].height \in Nat
      BY <1>1
    <3>2. /\ SameSpan(x, p.hs_x, p.blocks[m].x, p.blocks[m].width)
          /\ SameSpan(y, p.hs_y, p.blocks[m].y, p.blocks[m].height)
      BY <1>1, <1>2, <3>1, SpansAreSame
    <3> QED BY <3>2 DEF In, SameSpan
  <2> QED BY <1>1, <2>1 DEF Image!Covers
<1>4. \/ (\A m \in 1 .. L : ~In(p, m, x, y)) /\ pixel = Image!Clear
      \/ \E m \in 1 .. L : /\ In(p, m, x, y) /\ \A n \in m + 1 .. L : ~In(p, n, x, y)
                           /\ pixel = BlockPixel(p, m, x, y)
  BY BlocksPasted DEF HoldsBlocks
<1> HIDE DEF pixel, covers
<1>5. CASE (\A m \in 1 .. L : ~In(p, m, x, y)) /\ pixel = Image!Clear
  <2>1. covers = {}
    BY <1>3, <1>5
  <2> QED BY <1>5, <2>1 DEF Image!PartPixel, covers, pixel
<1>6. ASSUME NEW m \in 1 .. L, In(p, m, x, y), \A n \in m + 1 .. L : ~In(p, n, x, y),
             pixel = BlockPixel(p, m, x, y)
      PROVE  pixel = Image!PartPixel(p, x, y)
  <2>1. m \in covers /\ \A n \in covers : n <= m
    BY <1>1, <1>3, <1>6
  <2>2. (CHOOSE b \in covers : \A n \in covers : n <= b) = m
    BY <1>1, <1>3, <2>1
  <2>3. Image!PartPixel(p, x, y) = Image!Pixel(m, x + p.hs_x - p.blocks[m].x, y + p.hs_y - p.blocks[m].y)
    BY <2>1, <2>2 DEF Image!PartPixel, covers
  <2>4. p.blocks[m].x \in Int /\ p.blocks[m].y \in Int
    BY <1>1
  <2>5. x - (p.blocks[m].x - p.hs_x) = x + p.hs_x - p.blocks[m].x
    BY <1>1, <1>2, <2>4
  <2>6. y - (p.blocks[m].y - p.hs_y) = y + p.hs_y - p.blocks[m].y
    BY <1>1, <1>2, <2>4
  <2> QED BY <1>6, <2>3, <2>5, <2>6 DEF BlockPixel
<1> QED BY <1>4, <1>5, <1>6 DEF pixel

-----------------------------------------------------------------------------
(* A file shows what was in the buffer, upright in each of the formats. *)
LEMMA RowsReversed ==
  ASSUME NEW w \in Nat \ {0}, NEW h \in Nat, NEW x \in 0 .. w - 1, NEW y \in 0 .. h - 1, NEW pixels
  PROVE  Image!fix_bmp(w, h, pixels)[At(w, x, y)] = pixels[At(w, x, h - 1 - y)]
<1> DEFINE k == y * w + x + 1
<1>1. k \in 1 .. w * h
  BY InBuffer
<1>2. (k - 1) \div w = y /\ (k - 1) % w = x
  <2>1. k - 1 = y * w + x
    OBVIOUS
  <2>2. (y * w + x) \div w = y /\ (y * w + x) % w = x
    <3>1. y \in Int
      OBVIOUS
    <3> QED BY <3>1, RowAndColumn
  <2> HIDE DEF k
  <2> QED BY <2>1, <2>2
<1> HIDE DEF k
<1>3. Image!fix_bmp(w, h, pixels)[k] = pixels[(h - 1 - y) * w + x + 1]
  BY <1>1, <1>2 DEF Image!fix_bmp
<1> QED BY <1>3 DEF At, k

LEMMA Upright ==
  ASSUME NEW w \in Nat, NEW h \in Nat, NEW x \in 0 .. w - 1, NEW y \in 0 .. h - 1, NEW pixels
  PROVE  Image!Shown(Image!Stored(w, h, Image!fix_bmp(w, h, pixels)), x, y) = pixels[At(w, x, y)]
<1> DEFINE fixed == Image!fix_bmp(w, h, pixels)
           file == Image!Stored(w, h, fixed)
<1>1. /\ w \in Nat \ {0} /\ h - 1 - y \in 0 .. h - 1 /\ h - 1 - (h - 1 - y) = y
  OBVIOUS
<1>2. fixed # Image!Garbage
  <2>1. DOMAIN fixed = 1 .. w * h
    BY DEF Image!fix_bmp
  <2>2. At(w, x, y) \in DOMAIN fixed
    BY <1>1, <2>1, InBuffer DEF At
  <2> HIDE DEF fixed
  <2> QED BY <2>2 DEF Image!Garbage
<1>3. fixed[At(w, x, h - 1 - y)] = pixels[At(w, x, y)]
  <2>1. fixed[At(w, x, h - 1 - y)] = pixels[At(w, x, h - 1 - (h - 1 - y))]
    BY <1>1, RowsReversed
  <2> QED BY <1>1, <2>1
<1>4. Image!fix_bmp(w, h, fixed)[At(w, x, y)] = fixed[At(w, x, h - 1 - y)]
  BY <1>1, RowsReversed
<1> HIDE DEF fixed
<1>5. CASE G00Flag = "bmp"
  <2>1. file.rows = fixed /\ file.height = h /\ file.width = w
    BY <1>5 DEF Image!Stored
  <2>2. Image!Shown(file, x, y) = fixed[At(w, x, h - 1 - y)]
    <3> HIDE DEF file
    <3> QED BY <1>5, <2>1 DEF Image!Shown, At
  <2> QED BY <1>3, <2>2 DEF fixed
<1>6. CASE G00Flag # "bmp"
  <2>1. file.rows = Image!fix_bmp(w, h, fixed) /\ file.height = h /\ file.width = w
    BY <1>2, <1>6 DEF Image!Stored
  <2>2. Image!Shown(file, x, y) = Image!fix_bmp(w, h, fixed)[At(w, x, y)]
    <3> HIDE DEF file
    <3> QED BY <1>6, <2>1 DEF Image!Shown, At
  <2> QED BY <1>3, <1>4, <2>2 DEF fixed
<1> QED BY <1>5, <1>6

-----------------------------------------------------------------------------
(* A reference makes the pixels that come next, also when it reaches into those
   it makes. *)
Reference(buf, distance, n, f) ==
  f = [k \in 1 .. n |-> IF k <= Len(buf) THEN buf[k] ELSE f[k - distance]]

(* A buffer of the first m pixels, and a reference to those that come next. *)
RefersToNext(buf, pixels, m, distance, count) ==
  /\ Len(buf) = m /\ \A k \in 1 .. m : buf[k] = pixels[k]
  /\ \A k \in m + 1 .. m + count : pixels[k] = pixels[k - distance]

LEMMA CopiedIsNext ==
  ASSUME NEW pixels, NEW m \in Nat, NEW count \in Nat, NEW distance \in 1 .. m,
         NEW buf, RefersToNext(buf, pixels, m, distance, count)
  PROVE  Image!Copied(buf, distance, count) = [k \in 1 .. m + count |-> pixels[k]]
<1> DEFINE n == m + count
           next == [k \in 1 .. n |-> pixels[k]]
           to == CHOOSE f : Reference(buf, distance, n, f)
<1>0. /\ Len(buf) = m /\ \A k \in 1 .. m : buf[k] = pixels[k]
      /\ \A k \in m + 1 .. m + count : pixels[k] = pixels[k - distance]
  BY DEF RefersToNext
<1> USE <1>0
<1>1. \A k \in 1 .. n : next[k] = IF k <= Len(buf) THEN buf[k] ELSE next[k - distance]
  OBVIOUS
<1>2. Reference(buf, distance, n, next)
  <2>1. next = [k \in 1 .. n |-> next[k]]
    OBVIOUS
  <2> HIDE DEF next
  <2> QED BY <1>1, <2>1 DEF Reference
<1>3. Reference(buf, distance, n, to)
  BY <1>2
<1>4. Image!Copied(buf, distance, count) = [k \in 1 .. n |-> to[k]]
  BY DEF Image!Copied, Reference
<1> HIDE DEF to
<1>5. \A k \in 1 .. n : to[k] = IF k <= m THEN buf[k] ELSE to[k - distance]
  BY <1>3 DEF Reference
<1> DEFINE S == {k \in 1 .. n : to[k] # pixels[k]}
<1>6. ASSUME S # {}
      PROVE  FALSE
  <2>1. PICK k \in S : \A j \in S : k <= j
    <3>1. S \subseteq Nat
      OBVIOUS
    <3> QED BY <1>6, <3>1, Least
  <2>2. k \in 1 .. n /\ to[k] # pixels[k] /\ k > m
    BY <1>5, <2>1
  <2>3. k - distance \in 1 .. n /\ k - distance < k /\ k \in m + 1 .. n
    BY <2>2
  <2>4. to[k - distance] = pixels[k - distance]
    BY <2>1, <2>3
  <2> QED BY <1>5, <2>2, <2>3, <2>4
<1>7. \A k \in 1 .. n : to[k] = pixels[k]
  BY <1>6
<1> QED BY <1>4, <1>7

-----------------------------------------------------------------------------
(* The inductive invariant of an image. *)
First(n) == [k \in 1 .. n |-> image.pixels[k]]

ImageShape ==
  /\ image.type \in {"24bit", "8bit", "dir"}
  /\ image.type = "24bit" => /\ image.width \in Nat /\ image.height \in Nat
                             /\ image.pixels \in Seq(Colours)
  /\ image.parts \in Seq(Parts)
  /\ image.type # "dir" => image.parts = <<>>
PhaseRight ==
  /\ iphase \in {"decode", "save", "parts", "done", "fault"}
  /\ iphase = "parts" => image.type = "dir"
  /\ iphase = "decode" => image.type # "dir"
  /\ iphase = "decode" /\ image.type = "24bit" => \E n \in 0 .. Len(image.pixels) : debuf = First(n)
  /\ iphase = "save" => image.type = "24bit" /\ debuf = image.pixels
  /\ imgentry \in Nat \ {0}
  /\ iphase = "done" /\ image.type = "dir" => imgentry > Len(image.parts)

(* A part that is listed and neither strays nor comes behind one that does, and
   a picture that is decoded. *)
Meant(n) == IF n = 0 THEN image.type = "24bit" ELSE image.parts[n].listed /\ ~Image!Astray(n)

(* The directory ends in an exception only behind a part that strays. *)
FaultRight ==
  iphase = "fault" => \A n \in 1 .. Len(image.parts) : ~Image!Astray(n) => n < imgentry

LEMMA AstrayGrows ==
  ASSUME NEW m \in Nat, NEW n \in Nat, m <= n, Image!Astray(m)
  PROVE  Image!Astray(n)
BY DEF Image!Astray

(* What the file of a number is to be. *)
PictureOf(n) ==
  IF n = 0
  THEN Image!Stored(image.width, image.height, Image!fix_bmp(image.width, image.height, image.pixels))
  ELSE LET p == image.parts[n]
       IN  Image!Stored(p.width, p.height, Image!fix_bmp(p.width, p.height, Image!extract_g02_part(p)))
PicturesRight ==
  /\ DOMAIN pictures = 0 .. Len(image.parts)
  /\ \A n \in 0 .. Len(image.parts) :
       Meant(n) /\ pictures[n] # Image!NoPicture => pictures[n] = PictureOf(n)
PartsTried ==
  \A n \in 1 .. Len(image.parts) : n < imgentry /\ Meant(n) /\ n \notin refused =>
    pictures[n] # Image!NoPicture \/ Image!NoRoom(image.parts[n].width, image.parts[n].height)

ImageInv == ImageShape /\ PhaseRight /\ FaultRight /\ PicturesRight /\ PartsTried

LEMMA ImageInvInit ==
  ASSUME Image!Init
  PROVE  ImageInv
<1>1. /\ Sizes \subseteq Nat /\ MaxParts \in Nat
  BY FormatsAssumption DEF Image!ImageAssumption
<1>2. ImageShape /\ Len(image.parts) \in Nat
  <2>1. CASE \E w, h \in Sizes, type \in {"24bit", "8bit"} : \E pixels \in [1 .. w * h -> Colours] :
               image = Image!Single(type, w, h, pixels)
    <3>1. PICK w \in Sizes, h \in Sizes, type \in {"24bit", "8bit"} :
            \E pixels \in [1 .. w * h -> Colours] : image = Image!Single(type, w, h, pixels)
      BY <2>1
    <3>2. PICK pixels \in [1 .. w * h -> Colours] : image = Image!Single(type, w, h, pixels)
      BY <3>1
    <3>3. w * h \in Nat
      BY <1>1
    <3>4. pixels \in Seq(Colours)
      BY <3>3
    <3>5. /\ image.type = type /\ image.width = w /\ image.height = h
          /\ image.pixels = pixels /\ image.parts = <<>>
      BY <3>2 DEF Image!Single
    <3> QED BY <1>1, <3>1, <3>4, <3>5 DEF ImageShape
  <2>2. CASE \E n \in 0 .. MaxParts : \E parts \in [1 .. n -> Parts] :
               image = [Image!Single("dir", 0, 0, <<>>) EXCEPT !.parts = parts]
    <3>1. PICK n \in 0 .. MaxParts : \E parts \in [1 .. n -> Parts] :
            image = [Image!Single("dir", 0, 0, <<>>) EXCEPT !.parts = parts]
      BY <2>2
    <3>2. PICK parts \in [1 .. n -> Parts] : image = [Image!Single("dir", 0, 0, <<>>) EXCEPT !.parts = parts]
      BY <3>1
    <3>3. parts \in Seq(Parts) /\ Len(parts) \in Nat
      BY <1>1
    <3>4. image.type = "dir" /\ image.parts = parts
      BY <3>2 DEF Image!Single
    <3> QED BY <3>3, <3>4 DEF ImageShape
  <2> QED BY <2>1, <2>2 DEF Image!Init
<1>3. PhaseRight
  <2>1. image.type = "24bit" => Len(image.pixels) \in Nat /\ debuf = First(0)
    BY <1>2 DEF Image!Init, ImageShape, First
  <2>2. image.type = "24bit" => \E n \in 0 .. Len(image.pixels) : debuf = First(n)
    BY <2>1
  <2> QED BY <1>2, <2>2 DEF Image!Init, ImageShape, PhaseRight
<1>4. PicturesRight /\ PartsTried /\ FaultRight
  BY <1>2 DEF Image!Init, PicturesRight, PartsTried, FaultRight
<1> QED BY <1>2, <1>3, <1>4 DEF ImageInv

(* The picture of one number does not touch those of others. *)
LEMMA ImageInvStep ==
  ASSUME ImageInv, Image!Next \/ UNCHANGED Image!ivars
  PROVE  ImageInv'
<1>1. ImageShape /\ PhaseRight /\ FaultRight /\ PicturesRight /\ PartsTried
  BY DEF ImageInv
<1>2. image' = image /\ G00Flag' = G00Flag
  BY DEF Image!Next, Image!DecodeItem, Image!EndItems, Image!SaveSingle, Image!SaveIndexed, Image!SkipPart,
         Image!SavePart, Image!SaveAstray, Image!EndParts, Image!ivars
<1>3. ImageShape' /\ Len(image.parts) \in Nat /\ DOMAIN image.parts = 1 .. Len(image.parts)
  BY <1>1, <1>2, LenProperties DEF ImageShape
<1>4. \A n : PictureOf(n)' = PictureOf(n) /\ Meant(n)' = Meant(n)
  BY <1>2 DEF PictureOf, Meant, Image!Stored, Image!Astray
<1>5. ASSUME UNCHANGED <<imgentry, pictures, refused>>
      PROVE  PicturesRight' /\ PartsTried'
  BY <1>1, <1>2, <1>4, <1>5 DEF PicturesRight, PartsTried, Image!NoRoom
<1>51. ASSUME iphase' # "fault" \/ image.parts = <<>> \/ UNCHANGED <<iphase, imgentry>>
       PROVE  FaultRight'
  <2>1. \A n : Image!Astray(n)' = Image!Astray(n)
    BY <1>2 DEF Image!Astray
  <2> QED BY <1>1, <1>2, <1>51, <2>1 DEF FaultRight
<1>6. CASE Image!DecodeItem
  <2> DEFINE L == Len(image.pixels)
  <2>1. iphase = "decode" /\ image.type = "24bit" /\ Len(debuf) # L
    BY <1>6 DEF Image!DecodeItem
  <2>2. image.pixels \in Seq(Colours) /\ L \in Nat
    BY <1>1, <2>1, LenProperties DEF ImageShape
  <2>3. PICK n \in 0 .. L : debuf = First(n)
    BY <1>1, <2>1 DEF PhaseRight
  <2>4. \A k \in 1 .. L : image.pixels[k] \in Colours
    BY <2>2, ElementOfSeq
  <2>5. \A k \in 0 .. L : /\ First(k) \in Seq(Colours) /\ Len(First(k)) = k
                          /\ \A j \in 1 .. k : First(k)[j] = image.pixels[j]
    <3> TAKE k \in 0 .. L
    <3>1. First(k) \in [1 .. k -> Colours]
      BY <2>2, <2>4 DEF First
    <3>2. First(k) \in Seq(Colours) /\ Len(First(k)) = k
      BY <2>2, <3>1
    <3> QED BY <3>2 DEF First
  <2>6. n \in 0 .. L - 1 /\ Len(debuf) = n
    BY <2>1, <2>2, <2>3, <2>5
  <2>7. \E m \in 0 .. L : debuf' = First(m)
    <3>1. CASE debuf' = Append(debuf, image.pixels[Len(debuf) + 1])
      <4>1. debuf' \in Seq(Colours) /\ Len(debuf') = n + 1
        BY <2>2, <2>3, <2>4, <2>5, <2>6, <3>1, AppendProperties
      <4>2. \A k \in 1 .. n + 1 : debuf'[k] = First(n + 1)[k]
        BY <2>2, <2>3, <2>4, <2>5, <2>6, <3>1, AppendProperties
      <4>3. debuf' = First(n + 1)
        BY <2>2, <2>5, <2>6, <4>1, <4>2, SeqEqual
      <4> QED BY <2>2, <2>6, <4>3
    <3>2. ASSUME NEW distance \in DOMAIN debuf, NEW count \in 1 .. MaxCount,
                 Image!Repeats(distance, count), debuf' = Image!Copied(debuf, distance, count)
          PROVE  \E m \in 0 .. L : debuf' = First(m)
      <4>1. distance \in 1 .. n /\ count \in Nat
        BY <2>2, <2>3, <2>5, <2>6, LenProperties, FormatsAssumption DEF Image!ImageAssumption
      <4>2. /\ n + count <= L
            /\ \A k \in n + 1 .. n + count : image.pixels[k] = image.pixels[k - distance]
        BY <2>6, <3>2 DEF Image!Repeats
      <4>3. \A k \in 1 .. n : debuf[k] = image.pixels[k]
        BY <2>3, <2>5
      <4>4. debuf' = First(n + count)
        <5>1. n \in Nat /\ RefersToNext(debuf, image.pixels, n, distance, count)
          BY <2>2, <2>6, <4>2, <4>3 DEF RefersToNext
        <5>2. Image!Copied(debuf, distance, count) = [k \in 1 .. n + count |-> image.pixels[k]]
          BY <4>1, <5>1, CopiedIsNext
        <5> QED BY <3>2, <5>2 DEF First
      <4> QED BY <2>2, <2>6, <4>1, <4>2, <4>4
    <3> QED BY <1>6, <3>1, <3>2 DEF Image!DecodeItem
  <2>8. PhaseRight'
    <3>1. UNCHANGED <<iphase, imgentry, image>>
      BY <1>2, <1>6 DEF Image!DecodeItem
    <3>2. \A m : First(m)' = First(m)
      BY <1>2 DEF First
    <3> QED BY <1>1, <2>1, <2>7, <3>1, <3>2 DEF PhaseRight
  <2> QED BY <1>3, <1>5, <1>51, <1>6, <2>8 DEF Image!DecodeItem, ImageInv
<1>7. CASE Image!EndItems
  <2>1. debuf = image.pixels
    <3>1. iphase = "decode" /\ image.type = "24bit" /\ Len(debuf) = Len(image.pixels)
      BY <1>7 DEF Image!EndItems
    <3>2. image.pixels \in Seq(Colours) /\ Len(image.pixels) \in Nat
      BY <1>1, <3>1, LenProperties DEF ImageShape
    <3>3. PICK n \in 0 .. Len(image.pixels) : debuf = First(n)
      BY <1>1, <3>1 DEF PhaseRight
    <3>4. debuf \in [1 .. n -> Colours]
      BY <3>2, <3>3, ElementOfSeq DEF First
    <3>5. debuf \in Seq(Colours) /\ Len(debuf) = n
      BY <3>3, <3>4
    <3>6. \A k \in 1 .. Len(debuf) : debuf[k] = image.pixels[k]
      BY <3>3, <3>5 DEF First
    <3> QED BY <3>1, <3>2, <3>5, <3>6, SeqEqual
  <2>2. PhaseRight'
    BY <1>1, <1>2, <1>7, <2>1 DEF Image!EndItems, PhaseRight
  <2> QED BY <1>3, <1>5, <1>51, <1>7, <2>2 DEF Image!EndItems, ImageInv
<1>8. CASE Image!SaveSingle
  <2>1. /\ iphase = "save" /\ iphase' = "done" /\ UNCHANGED <<image, G00Flag, debuf, imgentry>>
        /\ Image!SavePicture(0, image.width, image.height, Image!fix_bmp(image.width, image.height, debuf))
    BY <1>8 DEF Image!SaveSingle
  <2>2. image.type = "24bit" /\ debuf = image.pixels /\ image.parts = <<>>
    BY <1>1, <2>1 DEF PhaseRight, ImageShape
  <2>3. Len(image.parts) = 0
    BY <2>2
  <2>4. PhaseRight'
    BY <1>1, <2>1, <2>2 DEF PhaseRight
  <2>5. \/ pictures' = pictures
        \/ pictures' = [pictures EXCEPT ![0] = PictureOf(0)]
    BY <2>1, <2>2 DEF Image!SavePicture, PictureOf
  <2>6. PicturesRight'
    BY <1>1, <1>2, <1>4, <2>3, <2>5 DEF PicturesRight
  <2>7. PartsTried'
    BY <1>2, <2>3 DEF PartsTried
  <2> QED BY <1>3, <1>51, <2>1, <2>4, <2>6, <2>7 DEF ImageInv
<1>9. CASE Image!SaveIndexed
  <2>1. iphase = "decode" /\ image.type = "8bit" /\ iphase' \in {"done", "fault"} /\ imgentry' = imgentry
    BY <1>9 DEF Image!SaveIndexed
  <2>2. image.parts = <<>> /\ Len(image.parts) = 0 /\ ~Meant(0)
    BY <1>1, <2>1 DEF ImageShape, Meant
  <2>3. PhaseRight'
    BY <1>1, <1>2, <2>1 DEF PhaseRight
  <2>4. DOMAIN pictures' = DOMAIN pictures
    BY <1>9 DEF Image!SaveIndexed, Image!SavePicture
  <2>5. PicturesRight'
    BY <1>1, <1>2, <1>4, <2>2, <2>4 DEF PicturesRight
  <2>6. PartsTried'
    BY <1>2, <2>2 DEF PartsTried
  <2> QED BY <1>3, <1>51, <2>2, <2>3, <2>5, <2>6 DEF ImageInv
<1>10. CASE Image!SkipPart
  <2>1. /\ Image!InDirectory /\ ~image.parts[imgentry].listed /\ imgentry' = imgentry + 1
        /\ UNCHANGED <<iphase, pictures, refused, debuf>>
    BY <1>10 DEF Image!SkipPart
  <2>2. PhaseRight'
    BY <1>1, <1>2, <2>1 DEF PhaseRight, Image!InDirectory
  <2>3. PicturesRight'
    BY <1>1, <1>2, <1>4, <2>1 DEF PicturesRight
  <2>4. ~Meant(imgentry)
    BY <1>1, <2>1 DEF Meant, PhaseRight
  <2>5. PartsTried'
    <3> SUFFICES ASSUME NEW n \in 1 .. Len(image.parts), n < imgentry + 1, Meant(n), n \notin refused
                 PROVE  pictures[n] # Image!NoPicture \/ Image!NoRoom(image.parts[n].width, image.parts[n].height)
      BY <1>2, <1>4, <2>1 DEF PartsTried, Image!NoRoom
    <3>1. n < imgentry
      BY <1>1, <1>3, <2>4 DEF PhaseRight
    <3> QED BY <1>1, <3>1 DEF PartsTried
  <2> QED BY <1>3, <1>51, <2>1, <2>2, <2>3, <2>5 DEF ImageInv, Image!InDirectory
<1>11. CASE Image!SavePart
  <2> DEFINE p == image.parts[imgentry]
             fixed == Image!fix_bmp(p.width, p.height, Image!extract_g02_part(p))
  <2>1. /\ Image!InDirectory /\ imgentry' = imgentry + 1 /\ UNCHANGED <<iphase, debuf>>
        /\ Image!SavePicture(imgentry, p.width, p.height, fixed)
    BY <1>11 DEF Image!SavePart
  <2>2. imgentry \in 1 .. Len(image.parts)
    BY <1>1, <1>3, <2>1 DEF PhaseRight, Image!InDirectory
  <2>3. PhaseRight'
    BY <1>1, <1>2, <2>1 DEF PhaseRight, Image!InDirectory
  <2>4. \/ pictures' = [pictures EXCEPT ![imgentry] = PictureOf(imgentry)] /\ refused' = refused
        \/ pictures' = pictures /\ refused' = refused /\ Image!NoRoom(p.width, p.height)
        \/ pictures' = pictures /\ refused' = refused \cup {imgentry}
    BY <2>1, <2>2 DEF Image!SavePicture, PictureOf
  <2>5. PictureOf(imgentry) # Image!NoPicture
    BY <2>2 DEF PictureOf, Image!Stored, Image!NoPicture
  <2>6. DOMAIN pictures = 0 .. Len(image.parts)
    BY <1>1 DEF PicturesRight
  <2> HIDE DEF p, fixed
  <2>7. PicturesRight'
    BY <1>1, <1>2, <1>4, <2>2, <2>4 DEF PicturesRight
  <2>8. PartsTried'
    <3> SUFFICES ASSUME NEW n \in 1 .. Len(image.parts), n < imgentry + 1, Meant(n), n \notin refused'
                 PROVE  pictures'[n] # Image!NoPicture \/ Image!NoRoom(image.parts[n].width, image.parts[n].height)
      BY <1>2, <1>4, <2>1 DEF PartsTried, Image!NoRoom
    <3>1. CASE n = imgentry
      BY <2>2, <2>4, <2>5, <2>6, <3>1 DEF p
    <3>2. CASE n # imgentry
      <4>1. n < imgentry /\ n \notin refused /\ pictures'[n] = pictures[n]
        BY <2>2, <2>4, <2>6, <3>2
      <4> QED BY <1>1, <4>1 DEF PartsTried
    <3> QED BY <3>1, <3>2
  <2> QED BY <1>3, <1>51, <2>1, <2>3, <2>7, <2>8 DEF ImageInv, Image!InDirectory
<1>12. CASE Image!SaveAstray
  <2>1. /\ Image!InDirectory /\ imgentry' = imgentry + 1 /\ Image!Astray(imgentry)
        /\ iphase' \in {iphase, "fault"} /\ refused \subseteq refused' /\ UNCHANGED debuf
    BY <1>12 DEF Image!SaveAstray, Image!SavePicture
  <2>2. imgentry \in 1 .. Len(image.parts) /\ ~Meant(imgentry)
    BY <1>1, <1>3, <2>1 DEF PhaseRight, Image!InDirectory, Meant
  <2>3. PhaseRight'
    BY <1>1, <1>2, <2>1 DEF PhaseRight, Image!InDirectory
  <2>4. DOMAIN pictures = 0 .. Len(image.parts)
    BY <1>1 DEF PicturesRight
  <2>5. /\ DOMAIN pictures' = DOMAIN pictures
        /\ \A n \in DOMAIN pictures : n # imgentry => pictures'[n] = pictures[n]
    BY <1>12, <2>4 DEF Image!SaveAstray, Image!SavePicture
  <2>6. PicturesRight'
    BY <1>1, <1>2, <1>4, <2>2, <2>4, <2>5 DEF PicturesRight
  <2>7. PartsTried'
    <3> SUFFICES ASSUME NEW n \in 1 .. Len(image.parts), n < imgentry + 1, Meant(n), n \notin refused'
                 PROVE  pictures'[n] # Image!NoPicture \/ Image!NoRoom(image.parts[n].width, image.parts[n].height)
      BY <1>2, <1>4, <2>1 DEF PartsTried, Image!NoRoom
    <3>1. n < imgentry /\ n # imgentry /\ n \notin refused /\ n \in DOMAIN pictures
      BY <1>3, <2>1, <2>2, <2>4
    <3> QED BY <1>1, <2>5, <3>1 DEF PartsTried
  <2>8. FaultRight'
    <3> SUFFICES ASSUME NEW n \in 1 .. Len(image.parts), ~Image!Astray(n)
                 PROVE  n < imgentry + 1
      BY <1>2, <2>1 DEF FaultRight, Image!Astray
    <3>1. ~(imgentry <= n)
      BY <1>3, <2>1, <2>2, AstrayGrows
    <3> QED BY <1>3, <2>2, <3>1
  <2> QED BY <1>3, <2>3, <2>6, <2>7, <2>8 DEF ImageInv
<1>13. CASE Image!EndParts
  <2>1. iphase = "parts" /\ imgentry > Len(image.parts) /\ iphase' = "done" /\ UNCHANGED <<imgentry, pictures, refused, debuf>>
    BY <1>13 DEF Image!EndParts
  <2>2. PhaseRight'
    BY <1>1, <1>2, <2>1 DEF PhaseRight
  <2> QED BY <1>3, <1>5, <1>51, <2>1, <2>2 DEF ImageInv
<1>14. CASE UNCHANGED Image!ivars
  <2>1. PhaseRight'
    BY <1>1, <1>2, <1>14 DEF Image!ivars, PhaseRight, First
  <2> QED BY <1>3, <1>5, <1>51, <1>14, <2>1 DEF Image!ivars, ImageInv
<1> QED BY <1>6, <1>7, <1>8, <1>9, <1>10, <1>11, <1>12, <1>13, <1>14 DEF Image!Next

ImageKept == program = "image" => ImageInv

LEMMA ImageInvariant == FormatSpec => []ImageKept
<1>1. FormatInit => ImageKept
  <2> SUFFICES ASSUME Image!Init
               PROVE  ImageInv
    BY DEF FormatInit, ImageKept
  <2> QED BY ImageInvInit
<1>2. ImageKept /\ [FormatNext]_formatvars => ImageKept'
  <2> SUFFICES ASSUME ImageInv, Image!Next \/ UNCHANGED Image!ivars
               PROVE  ImageInv'
    BY DEF FormatNext, formatvars, imagevars, Image!ivars, ImageKept
  <2> QED BY ImageInvStep
<1> QED BY <1>1, <1>2, PTL DEF FormatSpec

(* However a directory ends, a part has its file unless its entry is empty, its
   file could not be made, its PNG has no room or it strays or comes behind a
   part that does, for every directory and every format of the files. *)
THEOREM PartsAreSaved == FormatSpec => []EveryPartSaved
<1>1. ImageKept => EveryPartSaved
  <2> SUFFICES ASSUME ImageInv
               PROVE  Image!EveryPartSaved
    BY DEF ImageKept, EveryPartSaved
  <2> SUFFICES ASSUME iphase \in {"done", "fault"}, NEW n \in DOMAIN image.parts,
                      image.parts[n].listed, ~Image!Astray(n), n \notin refused
               PROVE  pictures[n] # Image!NoPicture \/ Image!NoRoom(image.parts[n].width, image.parts[n].height)
    BY DEF Image!EveryPartSaved
  <2>1. n \in 1 .. Len(image.parts) /\ Len(image.parts) \in Nat
    BY LenProperties DEF ImageInv, ImageShape
  <2>2. image.type = "dir"
    BY <2>1 DEF ImageInv, ImageShape
  <2>3. n < imgentry
    BY <2>1, <2>2 DEF ImageInv, PhaseRight, FaultRight
  <2>4. Meant(n)
    BY <2>1 DEF Meant
  <2> QED BY <2>1, <2>3, <2>4 DEF ImageInv, PartsTried
<1> QED BY <1>1, ImageInvariant, PTL

(* Every saved picture shows, pixel for pixel and upright, the picture that was
   compressed or the blocks of its part, for every size, every blocks that lie
   in their part and every references that the encoder chose, unless a part
   before it wrote to memory of others. *)
THEOREM PicturesAreRight == FormatSpec => []PicturesShown
<1>1. ImageKept => PicturesShown
  <2> SUFFICES ASSUME ImageInv, NEW n \in DOMAIN pictures, Image!Drawn(n), pictures[n] # Image!NoPicture,
                      NEW x \in 0 .. pictures[n].width - 1, NEW y \in 0 .. pictures[n].height - 1
               PROVE  Image!Shown(pictures[n], x, y) =
                        IF n = 0 THEN image.pixels[y * image.width + x + 1]
                        ELSE Image!PartPixel(image.parts[n], x, y)
    BY DEF ImageKept, PicturesShown, Image!PicturesShown
  <2>1. n \in 0 .. Len(image.parts) /\ pictures[n] = PictureOf(n)
    <3>1. n \in 0 .. Len(image.parts) /\ Len(image.parts) \in Nat /\ image.parts \in Seq(Parts)
      BY LenProperties DEF ImageInv, PicturesRight, ImageShape
    <3>2. Meant(n)
      <4>1. CASE n = 0
        BY <4>1 DEF Image!Drawn, Meant
      <4>2. CASE n # 0
        <5>1. n \in 1 .. Len(image.parts) /\ image.parts[n] \in Parts
          BY <3>1, <4>2, ElementOfSeq
        <5>2. /\ image.parts[n].listed /\ image.parts[n].type \in Image!Painted
              /\ Image!Fits(image.parts[n]) /\ ~Image!Astray(n - 1)
          BY <4>2 DEF Image!Drawn
        <5>3. ~Image!Strays(image.parts[n])
          BY <5>1, <5>2, FitsStaysHome
        <5>4. ~Image!Astray(n)
          <6>1. \A m \in 1 .. n : m = n \/ m \in 1 .. n - 1
            BY <5>1
          <6> QED BY <5>2, <5>3, <6>1 DEF Image!Astray
        <5> QED BY <4>2, <5>2, <5>4 DEF Meant
      <4> QED BY <4>1, <4>2
    <3> QED BY <3>1, <3>2 DEF ImageInv, PicturesRight
  <2>2. CASE n = 0
    <3>1. image.width \in Nat /\ image.height \in Nat
      BY <2>2 DEF ImageInv, ImageShape, Image!Drawn
    <3>2. pictures[n] = Image!Stored(image.width, image.height,
                                     Image!fix_bmp(image.width, image.height, image.pixels))
      BY <2>1, <2>2 DEF PictureOf
    <3>3. pictures[n].width = image.width /\ pictures[n].height = image.height
      BY <3>2 DEF Image!Stored
    <3>4. Image!Shown(pictures[n], x, y) = image.pixels[At(image.width, x, y)]
      BY <3>1, <3>2, <3>3, Upright
    <3> QED BY <2>2, <3>4 DEF At
  <2>3. CASE n # 0
    <3> DEFINE p == image.parts[n]
    <3>1. p \in Parts /\ Image!Fits(p)
      <4>1. image.parts \in Seq(Parts) /\ n \in 1 .. Len(image.parts)
        BY <2>1, <2>3, LenProperties DEF ImageInv, ImageShape
      <4>2. Image!Fits(p)
        BY <2>3 DEF Image!Drawn
      <4> QED BY <4>1, <4>2, ElementOfSeq
    <3>2. pictures[n] = Image!Stored(p.width, p.height,
                                     Image!fix_bmp(p.width, p.height, Image!extract_g02_part(p)))
      BY <2>1, <2>3 DEF PictureOf
    <3> HIDE DEF p
    <3>3. pictures[n].width = p.width /\ pictures[n].height = p.height
      BY <3>2 DEF Image!Stored
    <3>4. p.width \in Nat /\ p.height \in Nat
      BY <3>1, PartType
    <3>5. Image!Shown(pictures[n], x, y) = Image!extract_g02_part(p)[At(p.width, x, y)]
      BY <3>2, <3>3, <3>4, Upright
    <3>6. Image!extract_g02_part(p)[At(p.width, x, y)] = Image!PartPixel(p, x, y)
      BY <3>1, <3>3, PartIsItsBlocks
    <3> QED BY <2>3, <3>5, <3>6 DEF p
  <2> QED BY <2>2, <2>3
<1> QED BY <1>1, ImageInvariant, PTL

-----------------------------------------------------------------------------
(* Databases: the words of the table are unlocked one by one, each by the key
   of its line and row. *)
TableLocks(k) == LET w == (k - 1) \div Word IN IF Base!Words(table.size, w) THEN {Base!Square(w)} ELSE {}

(* The table with its first n words unlocked. *)
Unlocked(n) ==
  [k \in 1 .. table.size |-> Base!Cell(k - 1, IF (k - 1) \div Word < n THEN {} ELSE TableLocks(k))]

(* The key on the file. *)
Locked == [k \in 1 .. table.bytes |-> Base!Words(Base!Head3 + table.bytes, (Base!Head3 + k - 1) \div Word)]
Read   == [k \in 1 .. table.bytes |-> FALSE]

TableShape ==
  /\ table.size \in Nat /\ table.bytes \in Nat /\ table.loss \in 0 .. table.bytes
  /\ table.bytes # table.size => table.said
CounterRight ==
  i \in Nat /\ Row = i % Rows /\ Line = (i \div Rows) % Keys
TableRight ==
  /\ bphase \in {"start", "copy", "keys", "done", "refused"}
  /\ bphase \in {"start", "copy"} => i = 0
  /\ bphase \in {"copy", "keys", "done"} => table.loss <= Base!Head3
  /\ table.loss = 0 =>
       /\ bphase = "start" => data = Locked
       /\ bphase = "copy" => data = Read
       /\ bphase = "keys" => i <= table.size \div Word /\ UncompressedBuffer = Unlocked(i)
       /\ bphase = "done" => UncompressedBuffer = Unlocked(table.size \div Word)

DatabaseInv == TableShape /\ CounterRight /\ TableRight

LEMMA DatabaseConstants ==
  /\ TableSizes \subseteq Nat /\ Losses \subseteq Nat
  /\ Word \in Nat \ {0} /\ Rows \in Nat \ {0} /\ Keys \in Nat \ {0}
BY FormatsAssumption DEF Base!DatabaseAssumption

(* The key is taken off all words that it was put on. *)
LEMMA KeyOff ==
  ASSUME NEW n \in Nat, NEW k \in 1 .. n
  PROVE  Base!Words(3 * Word + n, (3 * Word + k - 1) \div Word)
           <=> (3 * Word + k - 1) \div Word <= ((3 * Word + n) - Word) \div Word
<1> DEFINE m == 3 * Word + n
           q == m \div Word
           r == m % Word
           w == (3 * Word + k - 1) \div Word
<1> SUFFICES Base!Words(m, w) <=> w <= (m - Word) \div Word
  OBVIOUS
<1>1. Word \in Nat \ {0} /\ m \in Nat /\ 3 * Word + k - 1 \in Nat
  BY DatabaseConstants
<1>2. m = q * Word + r /\ q \in Nat /\ r \in 0 .. Word - 1 /\ w \in Nat
  <2>1. \A a \in Nat : a = (a \div Word) * Word + (a % Word) /\ a \div Word \in Nat /\ a % Word \in 0 .. Word - 1
    BY <1>1
  <2> HIDE DEF m
  <2> QED BY <1>1, <2>1
<1>3. (m - Word) \div Word = q - 1
  <2> HIDE DEF m, q, r
  <2>1. m - Word = (q - 1) * Word + r
    <3>1. (q - 1) * Word = q * Word - Word
      BY <1>1, <1>2
    <3> QED BY <1>1, <1>2, <3>1
  <2>2. q - 1 \in Int
    BY <1>2
  <2> QED BY <1>1, <1>2, <2>1, <2>2, RowAndColumn
<1>4. Base!Words(m, w) <=> w < q
  BY DEF Base!Words
<1> HIDE DEF m, q, w, r
<1>5. Base!Words(m, w) <=> w <= (m - Word) \div Word
  BY <1>2, <1>3, <1>4
<1> QED BY <1>5

LEMMA DatabaseInvInit ==
  ASSUME Base!Init
  PROVE  DatabaseInv
<1>1. TableShape
  <2>1. /\ table \in [size : TableSizes, bytes : TableSizes, said : BOOLEAN, loss : Losses]
        /\ table.bytes # table.size => table.said
        /\ table.loss <= table.bytes
    BY DEF Base!Init
  <2>2. table.size \in TableSizes /\ table.bytes \in TableSizes /\ table.loss \in Losses
    BY <2>1
  <2>3. table.size \in Nat /\ table.bytes \in Nat /\ table.loss \in Nat
    BY <2>2, DatabaseConstants
  <2> QED BY <2>1, <2>3 DEF TableShape
<1>2. CounterRight
  <2>1. 0 \div Rows = 0 /\ 0 % Rows = 0 /\ 0 % Keys = 0
    BY DatabaseConstants
  <2> QED BY <2>1 DEF Base!Init, CounterRight
<1>3. table.loss = 0 => data = Locked
  BY <1>1 DEF Base!Init, TableShape, Locked
<1> QED BY <1>1, <1>2, <1>3 DEF Base!Init, DatabaseInv, TableRight

LEMMA DatabaseInvStep ==
  ASSUME DatabaseInv, Base!Next \/ UNCHANGED Base!bvars
  PROVE  DatabaseInv'
<1>1. TableShape /\ CounterRight /\ TableRight
  BY DEF DatabaseInv
<1>2. table' = table
  BY DEF Base!Next, Base!Unlock, Base!Copy, Base!DecodeWord, Base!Write, Base!bvars
<1>3. TableShape' /\ Locked' = Locked /\ Read' = Read /\ \A n : Unlocked(n)' = Unlocked(n)
  BY <1>1, <1>2 DEF TableShape, Locked, Read, Unlocked, TableLocks
<1>4. CASE Base!Unlock
  <2>1. bphase = "start" /\ UNCHANGED <<i, Line, Row, UncompressedBuffer>>
    BY <1>4 DEF Base!Unlock
  <2>2. CounterRight' /\ i' = 0
    BY <1>1, <2>1 DEF CounterRight, TableRight
  <2>3. CASE bphase' = "refused"
    BY <1>3, <2>2, <2>3 DEF DatabaseInv, TableRight
  <2>4. CASE bphase' # "refused"
    <3>1. /\ bphase' = "copy" /\ ~(table.bytes > Base!FileSize)
          /\ data' = [k \in DOMAIN data |->
                       IF (Base!Head3 + k - 1) \div Word <= (Base!FileSize - Word) \div Word
                       THEN ~data[k] ELSE data[k]]
      BY <1>4, <2>4 DEF Base!Unlock, Base!CompressedSize
    <3>2. table.loss <= Base!Head3
      <4>1. Base!Head3 \in Nat
        BY DatabaseConstants DEF Base!Head3
      <4> QED BY <1>1, <3>1, <4>1 DEF TableShape, Base!FileSize
    <3>3. table.loss = 0 => data' = Read
      <4> SUFFICES ASSUME table.loss = 0
                   PROVE  data' = Read
        OBVIOUS
      <4>1. data = Locked /\ Base!FileSize = Base!Head3 + table.bytes
        <5>1. Base!Head3 + table.bytes \in Nat
          BY <1>1, DatabaseConstants DEF TableShape, Base!Head3
        <5> QED BY <1>1, <2>1, <5>1 DEF TableRight, TableShape, Base!FileSize
      <4>2. DOMAIN data = 1 .. table.bytes
        BY <4>1 DEF Locked
      <4> DEFINE Keyed(k) == (Base!Head3 + k - 1) \div Word <= (Base!FileSize - Word) \div Word
      <4>3. data' = [k \in 1 .. table.bytes |-> IF Keyed(k) THEN ~data[k] ELSE data[k]]
        BY <3>1, <4>2
      <4>4. ASSUME NEW k \in 1 .. table.bytes
            PROVE  data[k] \in BOOLEAN /\ (data[k] <=> Keyed(k))
        <5>1. data[k] = Base!Words(Base!Head3 + table.bytes, (Base!Head3 + k - 1) \div Word)
          BY <4>1 DEF Locked
        <5>2. table.bytes \in Nat
          BY <1>1 DEF TableShape
        <5>3. Base!Words(Base!Head3 + table.bytes, (Base!Head3 + k - 1) \div Word)
                <=> (Base!Head3 + k - 1) \div Word <= ((Base!Head3 + table.bytes) - Word) \div Word
          BY <5>2, KeyOff DEF Base!Head3
        <5>4. Base!Words(Base!Head3 + table.bytes, (Base!Head3 + k - 1) \div Word) \in BOOLEAN
          BY DEF Base!Words
        <5>5. data[k] \in BOOLEAN
          BY <5>1, <5>4
        <5>6. data[k] <=> (Base!Head3 + k - 1) \div Word <= ((Base!Head3 + table.bytes) - Word) \div Word
          BY <5>1, <5>3
        <5>7. Keyed(k) <=> (Base!Head3 + k - 1) \div Word <= ((Base!Head3 + table.bytes) - Word) \div Word
          <6>1. (Base!FileSize - Word) \div Word = ((Base!Head3 + table.bytes) - Word) \div Word
            BY <4>1
          <6> QED BY <6>1
        <5> HIDE DEF Keyed
        <5> QED BY <5>5, <5>6, <5>7
      <4> HIDE DEF Keyed
      <4>5. ASSUME NEW k \in 1 .. table.bytes
            PROVE  (IF Keyed(k) THEN ~data[k] ELSE data[k]) = FALSE
        <5>1. CASE Keyed(k)
          <6>1. data[k] = TRUE
            BY <4>4, <5>1
          <6> QED BY <5>1, <6>1
        <5>2. CASE ~Keyed(k)
          <6>1. data[k] = FALSE
            BY <4>4, <5>2
          <6> QED BY <5>2, <6>1
        <5> QED BY <5>1, <5>2
      <4> QED BY <4>3, <4>5 DEF Read
    <3> QED BY <1>3, <2>2, <3>1, <3>2, <3>3, <1>2 DEF DatabaseInv, TableRight, Base!Head3
  <2> QED BY <2>3, <2>4
<1>5. CASE Base!Copy
  <2>1. bphase = "copy" /\ bphase' = "keys" /\ UNCHANGED <<data, i, Line, Row>>
    BY <1>5 DEF Base!Copy
  <2>2. CounterRight' /\ i' = 0 /\ table.loss <= Base!Head3
    BY <1>1, <2>1 DEF CounterRight, TableRight
  <2>3. table.loss = 0 => UncompressedBuffer' = Unlocked(0)
    <3> SUFFICES ASSUME table.loss = 0
                 PROVE  UncompressedBuffer' = Unlocked(0)
      OBVIOUS
    <3>1. data = Read /\ table.size \in Nat /\ table.bytes \in Nat
      BY <1>1, <2>1 DEF TableRight, TableShape
    <3>2. data \in Seq(BOOLEAN) /\ Len(data) = table.bytes
      <4>1. Read \in [1 .. table.bytes -> BOOLEAN]
        BY DEF Read
      <4> HIDE DEF Read
      <4> QED BY <3>1, <4>1
    <3>3. Base!Read = [k \in 1 .. table.bytes |-> TRUE]
      <4>1. Base!Read = [k \in 1 .. table.bytes |-> k <= Len(data) /\ ~data[k]]
        BY DEF Base!Read, Base!CompressedSize
      <4>2. ASSUME NEW k \in 1 .. table.bytes
            PROVE  (k <= Len(data) /\ ~data[k]) = TRUE
        <5>1. k <= Len(data)
          BY <3>1, <3>2
        <5>2. data[k] = FALSE
          BY <3>1 DEF Read
        <5> QED BY <5>1, <5>2
      <4> QED BY <4>1, <4>2
    <3>4. Base!UncompressedSize = table.size
      BY <1>1 DEF TableShape, Base!UncompressedSize, Base!CompressedSize
    <3>5. Base!Table(table.size) = Unlocked(0)
      <4>1. Base!Table(table.size) = [k \in 1 .. table.size |-> Base!Cell(k - 1, TableLocks(k))]
        BY DEF Base!Table, TableLocks
      <4>2. \A k \in 1 .. table.size : ~((k - 1) \div Word < 0)
        BY <3>1, DatabaseConstants
      <4> QED BY <4>1, <4>2 DEF Unlocked
    <3>6. CASE table.size # table.bytes
      BY <1>5, <3>3, <3>4, <3>5, <3>6 DEF Base!Copy, Base!CompressedSize
    <3>7. CASE table.size = table.bytes
      <4>1. UncompressedBuffer' = [k \in 1 .. table.size |-> IF Base!Read[k] THEN Base!Table(table.size)[k] ELSE Base!Lost]
        BY <1>5, <3>4, <3>7 DEF Base!Copy, Base!CompressedSize
      <4>2. UncompressedBuffer' = [k \in 1 .. table.size |-> Base!Table(table.size)[k]]
        BY <3>3, <3>7, <4>1
      <4>3. Unlocked(0) = [k \in 1 .. table.size |-> Unlocked(0)[k]]
        BY DEF Unlocked
      <4> QED BY <3>5, <4>2, <4>3
    <3> QED BY <3>6, <3>7
  <2>4. 0 <= table.size \div Word
    BY <1>1, DatabaseConstants DEF TableShape
  <2> QED BY <1>2, <1>3, <2>1, <2>2, <2>3, <2>4 DEF DatabaseInv, TableRight, Base!Head3
<1>6. CASE Base!DecodeWord
  <2>1. /\ bphase = "keys" /\ bphase' = "keys" /\ i' = i + 1 /\ i < Base!UncompressedSize \div Word
        /\ Row' = IF Base!LineEnds THEN 0 ELSE Row + 1
        /\ Line' = LET next == IF Base!LineEnds THEN Line + 1 ELSE Line IN IF next >= Keys THEN 0 ELSE next
        /\ UncompressedBuffer' =
             [k \in DOMAIN UncompressedBuffer |->
               IF (k - 1) \div Word = i
               THEN [UncompressedBuffer[k] EXCEPT !.locks = Base!Xor(@, <<Line, Row % Keys>>)]
               ELSE UncompressedBuffer[k]]
    BY <1>6 DEF Base!DecodeWord
  <2>2. CounterRight'
    <3> DEFINE q == i \div Rows
    <3>1. i \in Nat /\ Row = i % Rows /\ Line = q % Keys
      BY <1>1 DEF CounterRight
    <3>2. /\ q \in Nat /\ (i + 1) % Rows = IF (i % Rows) + 1 >= Rows THEN 0 ELSE (i % Rows) + 1
          /\ (i + 1) \div Rows = IF (i % Rows) + 1 >= Rows THEN q + 1 ELSE q
      BY <3>1, DatabaseConstants, NextPlace
    <3>3. /\ q % Keys \in 0 .. Keys - 1
          /\ (q + 1) % Keys = IF (q % Keys) + 1 >= Keys THEN 0 ELSE (q % Keys) + 1
      BY <3>2, DatabaseConstants, NextPlace
    <3> HIDE DEF q
    <3>4. Row' = (i + 1) % Rows
      BY <2>1, <3>1, <3>2 DEF Base!LineEnds
    <3>5. Line' = ((i + 1) \div Rows) % Keys
      <4>1. CASE Base!LineEnds
        BY <2>1, <3>1, <3>2, <3>3, <4>1 DEF Base!LineEnds
      <4>2. CASE ~Base!LineEnds
        <5>1. Line' = Line /\ (i + 1) \div Rows = q
          BY <2>1, <3>1, <3>2, <3>3, <4>2, DatabaseConstants DEF Base!LineEnds
        <5> QED BY <3>1, <5>1
      <4> QED BY <4>1, <4>2
    <3> QED BY <2>1, <3>1, <3>4, <3>5 DEF CounterRight
  <2>3. table.loss <= Base!Head3
    BY <1>1, <2>1 DEF TableRight
  <2>4. table.loss = 0 => i + 1 <= table.size \div Word /\ UncompressedBuffer' = Unlocked(i + 1)
    <3> SUFFICES ASSUME table.loss = 0
                 PROVE  i + 1 <= table.size \div Word /\ UncompressedBuffer' = Unlocked(i + 1)
      OBVIOUS
    <3>1. UncompressedBuffer = Unlocked(i) /\ i \in Nat /\ table.size \in Nat
      BY <1>1, <2>1 DEF TableRight, CounterRight, TableShape
    <3>2. Base!UncompressedSize = table.size
      BY <1>1 DEF TableShape, Base!UncompressedSize, Base!CompressedSize
    <3>3. table.size \div Word \in Nat
      BY <3>1, DatabaseConstants
    <3>4. i + 1 <= table.size \div Word
      BY <2>1, <3>1, <3>2, <3>3
    <3>5. <<Line, Row % Keys>> = Base!Square(i)
      BY <1>1 DEF CounterRight, Base!Square
    <3>6. DOMAIN UncompressedBuffer = 1 .. table.size
      BY <3>1 DEF Unlocked
    <3>7. ASSUME NEW k \in 1 .. table.size
          PROVE  UncompressedBuffer'[k] = Unlocked(i + 1)[k]
      <4> DEFINE w == (k - 1) \div Word
                 old == IF w < i THEN {} ELSE TableLocks(k)
      <4>1. w \in Nat
        BY <3>1, DatabaseConstants
      <4>2. UncompressedBuffer[k] = [at |-> k - 1, locks |-> old]
        BY <3>1 DEF Unlocked, Base!Cell
      <4>3. Unlocked(i + 1)[k] = [at |-> k - 1, locks |-> IF w < i + 1 THEN {} ELSE TableLocks(k)]
        BY DEF Unlocked, Base!Cell
      <4>4. UncompressedBuffer'[k] = IF w = i THEN [UncompressedBuffer[k] EXCEPT !.locks = Base!Xor(@, Base!Square(i))]
                                     ELSE UncompressedBuffer[k]
        BY <2>1, <3>5, <3>6
      <4>5. CASE w = i
        <5>1. TableLocks(k) = {Base!Square(i)} /\ old = TableLocks(k)
          BY <2>1, <3>1, <3>2, <4>1, <4>5 DEF TableLocks, Base!Words
        <5>2. Base!Xor(old, Base!Square(i)) = {}
          BY <5>1 DEF Base!Xor
        <5>3. w < i + 1
          BY <3>1, <4>5
        <5> HIDE DEF old, w
        <5>4. UncompressedBuffer'[k] = [at |-> k - 1, locks |-> {}]
          <6>1. UncompressedBuffer'[k] = [[at |-> k - 1, locks |-> old] EXCEPT !.locks = Base!Xor(@, Base!Square(i))]
            BY <4>2, <4>4, <4>5
          <6>2. UncompressedBuffer'[k] = [at |-> k - 1, locks |-> Base!Xor(old, Base!Square(i))]
            BY <6>1
          <6> QED BY <5>2, <6>2
        <5> QED BY <4>3, <5>3, <5>4
      <4>6. CASE w # i
        <5>1. w < i <=> w < i + 1
          BY <3>1, <4>1, <4>6
        <5> QED BY <4>2, <4>3, <4>4, <4>6, <5>1
      <4> QED BY <4>5, <4>6
    <3>8. UncompressedBuffer' = [k \in 1 .. table.size |-> UncompressedBuffer'[k]]
      BY <2>1, <3>6
    <3>9. Unlocked(i + 1) = [k \in 1 .. table.size |-> Unlocked(i + 1)[k]]
      BY DEF Unlocked
    <3>10. UncompressedBuffer' = Unlocked(i + 1)
      BY <3>7, <3>8, <3>9
    <3> QED BY <3>4, <3>10
  <2> QED BY <1>2, <1>3, <2>1, <2>2, <2>3, <2>4 DEF DatabaseInv, TableRight, Base!Head3
<1>7. CASE Base!Write
  <2>1. /\ bphase = "keys" /\ i = Base!UncompressedSize \div Word /\ bphase' \in {"done", "refused"}
        /\ UNCHANGED <<data, UncompressedBuffer, i, Line, Row>>
    BY <1>7 DEF Base!Write
  <2>2. Base!UncompressedSize = table.size
    BY <1>1 DEF TableShape, Base!UncompressedSize, Base!CompressedSize
  <2> QED BY <1>1, <1>2, <1>3, <2>1, <2>2 DEF DatabaseInv, TableRight, CounterRight, Base!Head3
<1>8. CASE UNCHANGED Base!bvars
  BY <1>1, <1>2, <1>3, <1>8 DEF Base!bvars, DatabaseInv, TableRight, CounterRight, Base!Head3
<1> QED BY <1>4, <1>5, <1>6, <1>7, <1>8 DEF Base!Next

(* A whole database is written with every key off, for every size of the table
   and of the scheme of keys; one that lost more than its head is refused. *)
THEOREM DatabaseIsDecoded == FormatSpec => []DatabaseDecoded
<1> DEFINE Inv == program = "database" => DatabaseInv
<1>1. FormatInit => Inv
  <2> SUFFICES ASSUME Base!Init
               PROVE  DatabaseInv
    BY DEF FormatInit
  <2> QED BY DatabaseInvInit
<1>2. Inv /\ [FormatNext]_formatvars => Inv'
  <2> SUFFICES ASSUME DatabaseInv, Base!Next \/ UNCHANGED Base!bvars
               PROVE  DatabaseInv'
    BY DEF FormatNext, formatvars, basevars, Base!bvars
  <2> QED BY DatabaseInvStep
<1>3. Inv => DatabaseDecoded
  <2> SUFFICES ASSUME DatabaseInv, bphase = "done"
               PROVE  /\ table.loss <= Base!Head3
                      /\ table.loss = 0 => UncompressedBuffer = [k \in 1 .. table.size |-> Base!Cell(k - 1, {})]
    BY DEF DatabaseDecoded, Base!DatabaseDecoded
  <2>1. \A k \in 1 .. table.size : (IF (k - 1) \div Word < table.size \div Word THEN {} ELSE TableLocks(k)) = {}
    BY DEF TableLocks, Base!Words
  <2>2. Unlocked(table.size \div Word) = [k \in 1 .. table.size |-> Base!Cell(k - 1, {})]
    BY <2>1 DEF Unlocked
  <2> QED BY <2>2 DEF DatabaseInv, TableRight
<1> QED BY <1>1, <1>2, <1>3, PTL DEF FormatSpec

-----------------------------------------------------------------------------
LEMMA FlattenType ==
  ASSUME NEW S, NEW n \in Nat, NEW s \in [1 .. n -> Seq(S)]
  PROVE  Drop!FlattenSeq(s) \in Seq(S)
<1>1. Len(s) = n /\ DOMAIN s = 1 .. n /\ \A k \in 1 .. n : s[k] \in Seq(S)
  OBVIOUS
<1>2. CASE n = 0
  <2>1. s = <<>>
    BY <1>1, <1>2
  <2>2. Drop!FlattenSeq(s) = s
    BY <1>1, <1>2 DEF Drop!FlattenSeq
  <2> HIDE <1>1
  <2>3. <<>> \in Seq(S)
    OBVIOUS
  <2> QED BY <2>1, <2>2, <2>3
<1>3. CASE n # 0
  <2> DEFINE f == CHOOSE g : Flat(s, g, n)
  <2>1. Flat(s, f, n)
    BY FlatExists
  <2>2. Drop!FlattenSeq(s) = f[n]
    BY <1>1, <1>3 DEF Drop!FlattenSeq, Flat
  <2> HIDE DEF f
  <2>3. \A k \in 1 .. n : f[k] \in Seq(S)
    BY <1>1, <2>1, FlatType
  <2> QED BY <1>3, <2>2, <2>3
<1> QED BY <1>2, <1>3

LEMMA FlattenGrows ==
  ASSUME NEW S, NEW n \in Nat, NEW s \in [1 .. n + 1 -> Seq(S)]
  PROVE  Drop!FlattenSeq(s) = Drop!FlattenSeq([k \in 1 .. n |-> s[k]]) \o s[n + 1]
<1> DEFINE r == [k \in 1 .. n |-> s[k]]
           f == CHOOSE h : Flat(r, h, n)
           g == CHOOSE h : Flat(s, h, n + 1)
<1>1. Len(s) = n + 1 /\ Len(r) = n /\ \A k \in 1 .. n : r[k] = s[k]
  OBVIOUS
<1>2. Flat(r, f, n) /\ Flat(s, g, n + 1)
  <2>1. n + 1 \in Nat
    OBVIOUS
  <2>2. (\E h : Flat(r, h, n)) /\ (\E h : Flat(s, h, n + 1))
    BY <2>1, FlatExists
  <2> QED BY <2>2
<1>3. Drop!FlattenSeq(s) = g[n + 1]
  BY <1>1 DEF Drop!FlattenSeq, Flat
<1> HIDE DEF g
<1>4. n + 1 \in 1 .. n + 1 /\ s[n + 1] \in Seq(S)
  OBVIOUS
<1>5. g[n + 1] = IF n + 1 = 1 THEN s[n + 1] ELSE g[n] \o s[n + 1]
  <2>1. g = [k \in 1 .. n + 1 |-> IF k = 1 THEN s[k] ELSE g[k - 1] \o s[k]]
    BY <1>2 DEF Flat
  <2>2. (n + 1) - 1 = n
    OBVIOUS
  <2> QED BY <1>4, <2>1, <2>2
<1>6. CASE n = 0
  <2>1. Drop!FlattenSeq(r) = r /\ r = <<>>
    BY <1>1, <1>6 DEF Drop!FlattenSeq
  <2>2. <<>> \o s[n + 1] = s[n + 1]
    BY <1>4
  <2> QED BY <1>3, <1>5, <1>6, <2>1, <2>2
<1>7. CASE n # 0
  <2>1. Drop!FlattenSeq(r) = f[n]
    BY <1>1, <1>7 DEF Drop!FlattenSeq, Flat
  <2> HIDE DEF f, r
  <2>2. f[n] = g[n]
    <3>1. \A k \in 1 .. n : f[k] = g[k]
      BY <1>1, <1>2, FlatSame, SMTT(60)
    <3> QED BY <1>7, <3>1
  <2>3. Drop!FlattenSeq(s) = Drop!FlattenSeq(r) \o s[n + 1]
    <3>1. n + 1 # 1
      BY <1>7
    <3>2. g[n + 1] = g[n] \o s[n + 1]
      BY <1>5, <3>1
    <3> QED BY <1>3, <2>1, <2>2, <3>2
  <2> QED BY <2>3 DEF r
<1> QED BY <1>6, <1>7

-----------------------------------------------------------------------------
(* The drop of files: the queue is what was dropped, item by item and entry by
   entry. *)
Pairs == Nat \X Nat

EntriesTo(n, k) == Drop!FlattenSeq([e \in 1 .. k |-> Drop!WantedEntry(n, e)])
WantedTo(n)     == Drop!FlattenSeq([m \in 1 .. n |-> Drop!Wanted(m)])

(* The entries of the open folder behind the first k. *)
Entry(k) == [name |-> drop[item].entries[k], entry |-> k]
Rest(k)  == [j \in 1 .. Len(drop[item].entries) - k |-> Entry(k + j)]
SelfOf   == [name |-> Drop!Self, entry |-> 0]

Holds(q, e) == \E k \in 1 .. Len(q) : q[k] = e

(* What is in the queue of what is wanted. *)
Served(q, w) ==
  /\ ~Drop!HasRoot => q = w
  /\ \A e : Holds(q, e) => Holds(w, e)
  /\ \A e : Holds(w, e) => Holds(q, e) \/ (e[2] = 1 /\ drop[e[1]].root)

DropShape ==
  /\ drop \in Seq(Drop!Files \cup Drop!Folders)
  /\ \A n \in 1 .. Len(drop) : drop[n].kind = "folder" => drop[n].entries \in Seq(Names)
  /\ item \in 1 .. Len(drop) + 1
  /\ gone \subseteq 1 .. item - 1
  /\ queue \in Seq(Pairs)
FolderRight ==
  /\ item <= Len(drop) /\ drop[item].kind = "folder"
  /\ \E k \in 0 .. Len(drop[item].entries) :
       /\ Served(queue, WantedTo(item - 1) \o EntriesTo(item, k))
       /\ listing = Rest(k) \/ (k = 0 /\ listing = <<SelfOf>> \o Rest(0))
QueueRight ==
  /\ dphase \in {"items", "folder", "done", "crashed"}
  /\ dphase \in {"items", "done"} => Served(queue, WantedTo(item - 1))
  /\ dphase = "folder" => FolderRight

DropInv == DropShape /\ QueueRight

LEMMA ItemTypes ==
  ASSUME DropShape, NEW n \in 1 .. Len(drop)
  PROVE  /\ Len(drop) \in Nat /\ drop[n].kind \in {"file", "folder"}
         /\ drop[n].kind = "folder" => Len(drop[n].entries) \in Nat
<1>1. Len(drop) \in Nat /\ drop[n] \in Drop!Files \cup Drop!Folders
  BY LenProperties, ElementOfSeq DEF DropShape
<1>2. drop[n].kind \in {"file", "folder"}
  BY <1>1 DEF Drop!Files, Drop!Folders
<1> QED BY <1>1, <1>2, LenProperties DEF DropShape

LEMMA WantedType ==
  ASSUME DropShape
  PROVE  /\ \A n, e \in Nat : Drop!WantedEntry(n, e) \in Seq(Pairs)
         /\ \A n, k \in Nat : EntriesTo(n, k) \in Seq(Pairs)
         /\ \A n \in 1 .. Len(drop) : Drop!Wanted(n) \in Seq(Pairs)
         /\ \A n \in 0 .. Len(drop) : WantedTo(n) \in Seq(Pairs)
<1>1. \A n, e \in Nat : <<n, e>> \in Pairs
  BY DEF Pairs
<1> HIDE DEF Pairs
<1>2. \A n, e \in Nat : Drop!WantedEntry(n, e) \in Seq(Pairs)
  <2> TAKE n, e \in Nat
  <2> DEFINE x == <<n, e>>
  <2>1. x \in Pairs
    BY <1>1
  <2>2. Drop!WantedEntry(n, e) = <<x>> \/ Drop!WantedEntry(n, e) = <<>>
    BY DEF Drop!WantedEntry
  <2> HIDE DEF x
  <2>3. <<x>> \in Seq(Pairs) /\ <<>> \in Seq(Pairs)
    BY <2>1
  <2> QED BY <2>2, <2>3
<1>3. \A n, k \in Nat : EntriesTo(n, k) \in Seq(Pairs)
  <2> TAKE n, k \in Nat
  <2>1. [e \in 1 .. k |-> Drop!WantedEntry(n, e)] \in [1 .. k -> Seq(Pairs)]
    BY <1>2
  <2> QED BY <2>1, FlattenType DEF EntriesTo
<1>4. \A n \in 1 .. Len(drop) : Drop!Wanted(n) \in Seq(Pairs)
  <2> TAKE n \in 1 .. Len(drop)
  <2> DEFINE x == <<n, 0>>
  <2>1. n \in Nat /\ x \in Pairs
    BY <1>1, ItemTypes
  <2>2. drop[n].kind \in {"file", "folder"} /\ (drop[n].kind = "folder" => Len(drop[n].entries) \in Nat)
    BY ItemTypes
  <2>3. \/ Drop!Wanted(n) = <<>>
        \/ Drop!Wanted(n) = <<x>>
        \/ drop[n].kind = "folder" /\ Drop!Wanted(n) = EntriesTo(n, Len(drop[n].entries))
    BY <2>2 DEF Drop!Wanted, EntriesTo
  <2> HIDE DEF x
  <2>4. <<x>> \in Seq(Pairs) /\ <<>> \in Seq(Pairs)
    BY <2>1
  <2> QED BY <1>3, <2>1, <2>2, <2>3, <2>4
<1>5. \A n \in 0 .. Len(drop) : WantedTo(n) \in Seq(Pairs)
  <2> TAKE n \in 0 .. Len(drop)
  <2>1. n \in Nat /\ \A m \in 1 .. n : m \in 1 .. Len(drop)
    BY LenProperties DEF DropShape
  <2>2. [m \in 1 .. n |-> Drop!Wanted(m)] \in [1 .. n -> Seq(Pairs)]
    BY <1>4, <2>1
  <2> QED BY <2>1, <2>2, FlattenType DEF WantedTo
<1> QED BY <1>2, <1>3, <1>4, <1>5

(* One more entry, and one more item. *)
LEMMA OneMoreEntry ==
  ASSUME DropShape, NEW n \in Nat, NEW k \in Nat
  PROVE  EntriesTo(n, k + 1) = EntriesTo(n, k) \o Drop!WantedEntry(n, k + 1)
<1> DEFINE s == [e \in 1 .. k + 1 |-> Drop!WantedEntry(n, e)]
<1>1. s \in [1 .. k + 1 -> Seq(Pairs)]
  BY WantedType
<1>2. [e \in 1 .. k |-> s[e]] = [e \in 1 .. k |-> Drop!WantedEntry(n, e)] /\ s[k + 1] = Drop!WantedEntry(n, k + 1)
  OBVIOUS
<1> HIDE DEF s
<1>3. Drop!FlattenSeq(s) = Drop!FlattenSeq([e \in 1 .. k |-> s[e]]) \o s[k + 1]
  BY <1>1, FlattenGrows
<1> QED BY <1>2, <1>3 DEF EntriesTo, s

LEMMA OneMoreItem ==
  ASSUME DropShape, NEW n \in 1 .. Len(drop)
  PROVE  WantedTo(n) = WantedTo(n - 1) \o Drop!Wanted(n)
<1> DEFINE s == [m \in 1 .. (n - 1) + 1 |-> Drop!Wanted(m)]
<1>1. n - 1 \in Nat /\ (n - 1) + 1 = n /\ \A m \in 1 .. n : m \in 1 .. Len(drop)
  BY ItemTypes
<1>2. s \in [1 .. (n - 1) + 1 -> Seq(Pairs)]
  BY <1>1, WantedType
<1>3. [m \in 1 .. n - 1 |-> s[m]] = [m \in 1 .. n - 1 |-> Drop!Wanted(m)] /\ s[n] = Drop!Wanted(n)
  BY <1>1
<1>4. s = [m \in 1 .. n |-> Drop!Wanted(m)]
  BY <1>1
<1> HIDE DEF s
<1>5. Drop!FlattenSeq(s) = Drop!FlattenSeq([m \in 1 .. n - 1 |-> s[m]]) \o s[(n - 1) + 1]
  BY <1>1, <1>2, FlattenGrows
<1> QED BY <1>1, <1>3, <1>4, <1>5 DEF WantedTo

(* What is put at the end of both is served; an entry that the root of a drive
   loses is not missed. *)
LEMMA HoldsConcat ==
  ASSUME NEW S, NEW q \in Seq(S), NEW t \in Seq(S), NEW e
  PROVE  Holds(q \o t, e) <=> Holds(q, e) \/ Holds(t, e)
<1>1. Len(q) \in Nat /\ Len(t) \in Nat
  BY LenProperties
<1>2. /\ Len(q \o t) = Len(q) + Len(t)
      /\ \A k \in 1 .. Len(q) + Len(t) : (q \o t)[k] = IF k <= Len(q) THEN q[k] ELSE t[k - Len(q)]
  BY ConcatProperties
<1>3. ASSUME Holds(q \o t, e)
      PROVE  Holds(q, e) \/ Holds(t, e)
  <2>1. PICK k \in 1 .. Len(q) + Len(t) : (q \o t)[k] = e
    BY <1>2, <1>3 DEF Holds
  <2>2. CASE k <= Len(q)
    <3>1. k \in 1 .. Len(q) /\ q[k] = e
      BY <1>1, <1>2, <2>1, <2>2
    <3> QED BY <3>1 DEF Holds
  <2>3. CASE ~(k <= Len(q))
    <3>1. k - Len(q) \in 1 .. Len(t) /\ t[k - Len(q)] = e
      BY <1>1, <1>2, <2>1, <2>3
    <3> QED BY <3>1 DEF Holds
  <2> QED BY <2>2, <2>3
<1>4. ASSUME Holds(q, e)
      PROVE  Holds(q \o t, e)
  <2>1. PICK k \in 1 .. Len(q) : q[k] = e
    BY <1>4 DEF Holds
  <2>2. k \in 1 .. Len(q) + Len(t) /\ (q \o t)[k] = e
    BY <1>1, <1>2, <2>1
  <2> QED BY <1>2, <2>2 DEF Holds
<1>5. ASSUME Holds(t, e)
      PROVE  Holds(q \o t, e)
  <2>1. PICK k \in 1 .. Len(t) : t[k] = e
    BY <1>5 DEF Holds
  <2> DEFINE m == Len(q) + k
  <2>2. m \in 1 .. Len(q) + Len(t) /\ ~(m <= Len(q)) /\ m - Len(q) = k
    BY <1>1, <2>1
  <2>3. (q \o t)[m] = e
    BY <1>2, <2>1, <2>2
  <2> QED BY <1>2, <2>2, <2>3 DEF Holds
<1> QED BY <1>3, <1>4, <1>5

LEMMA ServedGrows ==
  ASSUME NEW q \in Seq(Pairs), NEW w \in Seq(Pairs), NEW t \in Seq(Pairs), Served(q, w)
  PROVE  Served(q \o t, w \o t)
<1>1. \A e : /\ Holds(q \o t, e) <=> Holds(q, e) \/ Holds(t, e)
             /\ Holds(w \o t, e) <=> Holds(w, e) \/ Holds(t, e)
  BY HoldsConcat
<1> QED BY <1>1 DEF Served

LEMMA RootLoses ==
  ASSUME NEW q \in Seq(Pairs), NEW w \in Seq(Pairs), NEW t \in Seq(Pairs), Served(q, w),
         Drop!HasRoot, \A e : Holds(t, e) => e[2] = 1 /\ drop[e[1]].root
  PROVE  Served(q, w \o t)
<1>1. \A e : Holds(w \o t, e) <=> Holds(w, e) \/ Holds(t, e)
  BY HoldsConcat
<1> QED BY <1>1 DEF Served

LEMMA UpToIsSeq ==
  ASSUME NEW S, NEW n \in Nat
  PROVE  Drop!UpTo(S, n) \subseteq Seq(S)
<1> SUFFICES ASSUME NEW k \in 0 .. n, NEW s \in [1 .. k -> S]
             PROVE  s \in Seq(S)
  BY DEF Drop!UpTo
<1> QED OBVIOUS

LEMMA DropInvInit ==
  ASSUME Drop!Init
  PROVE  DropInv
<1>1. MaxItems \in Nat /\ MaxEntries \in Nat
  BY FormatsAssumption DEF Drop!DropAssumption
<1>2. drop \in Seq(Drop!Files \cup Drop!Folders)
  BY <1>1, UpToIsSeq DEF Drop!Init
<1>3. \A n \in 1 .. Len(drop) : drop[n].kind = "folder" => drop[n].entries \in Seq(Names)
  <2> SUFFICES ASSUME NEW n \in 1 .. Len(drop), drop[n].kind = "folder"
               PROVE  drop[n].entries \in Seq(Names)
    OBVIOUS
  <2>1. drop[n] \in Drop!Files \cup Drop!Folders
    BY <1>2, ElementOfSeq
  <2>2. drop[n] \in Drop!Folders
    BY <2>1 DEF Drop!Files
  <2>3. drop[n].entries \in Drop!UpTo(Names, MaxEntries)
    BY <2>2 DEF Drop!Folders
  <2> QED BY <1>1, <2>3, UpToIsSeq
<1>4. DropShape
  <2>1. item \in 1 .. Len(drop) + 1 /\ gone \subseteq 1 .. item - 1
    BY <1>2, LenProperties DEF Drop!Init
  <2>2. queue \in Seq(Pairs)
    BY DEF Drop!Init
  <2> QED BY <1>2, <1>3, <2>1, <2>2 DEF DropShape
<1>5. WantedTo(0) = <<>>
  <2>1. [m \in 1 .. 0 |-> Drop!Wanted(m)] = <<>>
    OBVIOUS
  <2> QED BY <2>1 DEF WantedTo, Drop!FlattenSeq
<1>6. Served(queue, WantedTo(item - 1))
  BY <1>5 DEF Drop!Init, Served, Holds
<1> QED BY <1>4, <1>6 DEF Drop!Init, DropInv, QueueRight

(* A step that is done with the item takes what is wanted of it, and leaves what
   is wanted of those before it. *)
LEMMA ItemDone ==
  ASSUME DropShape, NEW n \in 1 .. Len(drop), n = item,
         drop' = drop, forbidden' = forbidden, gone' \in {gone, gone \cup {item}}
  PROVE  /\ WantedTo(n - 1)' = WantedTo(n - 1)
         /\ WantedTo(n)' = WantedTo(n - 1) \o Drop!Wanted(n)'
         /\ Drop!Wanted(n)' \in Seq(Pairs)
         /\ Drop!Wanted(n)' = IF n \in gone' THEN <<>> ELSE Drop!Wanted(n)
         /\ n \notin gone
<1>1. n - 1 \in Nat /\ (n - 1) + 1 = n /\ \A m \in 1 .. n : m \in 1 .. Len(drop)
  BY ItemTypes
<1>2. n \notin gone
  BY <1>1 DEF DropShape
<1>3. \A m : Drop!Supported(m)' = Drop!Supported(m)
  BY DEF Drop!Supported
<1>4. \A m, e : Drop!WantedEntry(m, e)' = Drop!WantedEntry(m, e)
  BY <1>3 DEF Drop!WantedEntry
<1>5. Drop!Wanted(n)' = IF n \in gone' THEN <<>> ELSE Drop!Wanted(n)
  BY <1>2, <1>3, <1>4 DEF Drop!Wanted
<1>6. \A m \in 1 .. n - 1 : Drop!Wanted(m)' = Drop!Wanted(m)
  <2> TAKE m \in 1 .. n - 1
  <2>1. m \in gone' <=> m \in gone
    BY <1>1
  <2> QED BY <1>3, <1>4, <2>1 DEF Drop!Wanted
<1>7. Drop!Wanted(n)' \in Seq(Pairs)
  <2>1. <<>> \in Seq(Pairs)
    OBVIOUS
  <2> QED BY <1>5, <2>1, WantedType
<1>8. WantedTo(n - 1)' = WantedTo(n - 1)
  BY <1>6 DEF WantedTo
<1>9. WantedTo(n)' = WantedTo(n - 1) \o Drop!Wanted(n)'
  <2> DEFINE s == [m \in 1 .. (n - 1) + 1 |-> Drop!Wanted(m)']
  <2>1. \A m \in 1 .. n : Drop!Wanted(m)' \in Seq(Pairs)
    <3>1. \A m \in 1 .. n - 1 : Drop!Wanted(m)' \in Seq(Pairs)
      BY <1>1, <1>6, WantedType
    <3> QED BY <1>1, <1>7, <3>1
  <2>2. s \in [1 .. (n - 1) + 1 -> Seq(Pairs)]
    BY <1>1, <2>1
  <2>3. [m \in 1 .. n - 1 |-> s[m]] = [m \in 1 .. n - 1 |-> Drop!Wanted(m)] /\ s[n] = Drop!Wanted(n)'
    BY <1>1, <1>6
  <2>4. WantedTo(n)' = Drop!FlattenSeq(s)
    BY <1>1 DEF WantedTo
  <2> HIDE DEF s
  <2>5. Drop!FlattenSeq(s) = Drop!FlattenSeq([m \in 1 .. n - 1 |-> s[m]]) \o s[(n - 1) + 1]
    BY <1>1, <2>2, FlattenGrows
  <2> QED BY <1>1, <2>3, <2>4, <2>5 DEF WantedTo
<1> QED BY <1>2, <1>5, <1>7, <1>8, <1>9

(* What FindFirstFileW and FindNextFileW return, one by one. *)
LEMMA FirstAndRest ==
  ASSUME NEW S, NEW a \in S, NEW s \in Seq(S)
  PROVE  /\ <<a>> \o s # <<>> /\ Head(<<a>> \o s) = a /\ Tail(<<a>> \o s) = s
         /\ <<a, a>> \o s = <<a>> \o (<<a>> \o s) /\ <<a>> \o s \in Seq(S)
<1>1. <<a>> \in Seq(S) /\ Len(<<a>>) = 1 /\ <<a>>[1] = a
  OBVIOUS
<1>2. <<a, a>> \in Seq(S) /\ <<a, a>> = <<a>> \o <<a>>
  BY <1>1
<1>3. /\ <<a>> \o s \in Seq(S) /\ Len(<<a>> \o s) = 1 + Len(s) /\ Len(s) \in Nat
      /\ \A k \in 1 .. 1 + Len(s) : (<<a>> \o s)[k] = IF k <= 1 THEN <<a>>[k] ELSE s[k - 1]
  BY <1>1, ConcatProperties, LenProperties
<1>4. <<a>> \o s # <<>> /\ Head(<<a>> \o s) = a
  <2> DEFINE c == <<a>> \o s
  <2>1. c \in Seq(S) /\ Len(c) = 1 + Len(s) /\ c[1] = a
    BY <1>1, <1>3
  <2> HIDE DEF c
  <2>2. c # <<>> /\ Head(c) = a
    BY <1>3, <2>1
  <2> QED BY <2>2 DEF c
<1>5. Tail(<<a>> \o s) = s
  <2> DEFINE c == <<a>> \o s
  <2>1. c \in Seq(S) /\ c # <<>> /\ Len(c) = 1 + Len(s) /\ \A k \in 1 .. Len(s) : c[k + 1] = s[k]
    BY <1>1, <1>3, <1>4
  <2> HIDE DEF c
  <2>2. Tail(c) \in Seq(S) /\ Len(Tail(c)) = Len(s) /\ \A k \in 1 .. Len(s) : Tail(c)[k] = s[k]
    BY <1>3, <2>1, HeadTailProperties
  <2>3. Tail(c) = s
    BY <2>2, SeqEqual
  <2> QED BY <2>3 DEF c
<1>6. <<a, a>> \o s = <<a>> \o (<<a>> \o s)
  BY <1>1, <1>2, ConcatAssociative
<1> QED BY <1>3, <1>4, <1>5, <1>6

LEMMA Rests ==
  ASSUME NEW L \in Nat, L = Len(drop[item].entries)
  PROVE  /\ Rest(L) = <<>>
         /\ \A k \in 0 .. L - 1 : /\ Rest(k) # <<>> /\ Head(Rest(k)) = Entry(k + 1)
                                  /\ Tail(Rest(k)) = Rest(k + 1)
         /\ <<SelfOf>> \o Rest(0) # <<>> /\ Head(<<SelfOf>> \o Rest(0)) = SelfOf
         /\ Tail(<<SelfOf>> \o Rest(0)) = Rest(0)
         /\ Tail(<<SelfOf, SelfOf>> \o Rest(0)) = <<SelfOf>> \o Rest(0)
         /\ <<SelfOf, SelfOf>> \o Rest(0) # <<>>
<1> DEFINE S == {Entry(k) : k \in 1 .. L} \cup {SelfOf}
<1>1. SelfOf \in S /\ \A k \in 1 .. L : Entry(k) \in S
  OBVIOUS
<1> HIDE DEF S
<1>2. \A k \in 0 .. L : /\ Rest(k) \in Seq(S) /\ Len(Rest(k)) = L - k
                        /\ \A j \in 1 .. L - k : Rest(k)[j] = Entry(k + j)
  <2> TAKE k \in 0 .. L
  <2>1. Rest(k) = [j \in 1 .. L - k |-> Entry(k + j)]
    BY DEF Rest
  <2>2. L - k \in Nat /\ \A j \in 1 .. L - k : k + j \in 1 .. L
    OBVIOUS
  <2>3. Rest(k) \in [1 .. L - k -> S]
    BY <1>1, <2>1, <2>2
  <2>4. Rest(k) \in Seq(S) /\ Len(Rest(k)) = L - k
    BY <2>2, <2>3
  <2> QED BY <2>1, <2>4
<1>3. Rest(L) = <<>>
  <2>1. L \in 0 .. L /\ L - L = 0
    OBVIOUS
  <2>2. Rest(L) \in Seq(S) /\ Len(Rest(L)) = 0
    BY <1>2, <2>1
  <2> QED BY <2>2, EmptySeq
<1>4. ASSUME NEW k \in 0 .. L - 1
      PROVE  Rest(k) # <<>> /\ Head(Rest(k)) = Entry(k + 1) /\ Tail(Rest(k)) = Rest(k + 1)
  <2>1. k \in 0 .. L /\ k + 1 \in 0 .. L /\ k \in Nat
    OBVIOUS
  <2>2. /\ Rest(k) \in Seq(S) /\ Len(Rest(k)) = L - k /\ L - k \in Nat /\ L - k > 0
        /\ \A j \in 1 .. L - k : Rest(k)[j] = Entry(k + j)
    BY <1>2, <2>1
  <2>3. Rest(k) # <<>> /\ Head(Rest(k)) = Entry(k + 1)
    BY <2>2
  <2>4. /\ Tail(Rest(k)) \in Seq(S) /\ Len(Tail(Rest(k))) = L - k - 1
        /\ \A j \in 1 .. L - k - 1 : Tail(Rest(k))[j] = Rest(k)[j + 1]
    BY <2>2, <2>3, HeadTailProperties
  <2>5. /\ Rest(k + 1) \in Seq(S) /\ Len(Rest(k + 1)) = L - (k + 1)
        /\ \A j \in 1 .. L - (k + 1) : Rest(k + 1)[j] = Entry((k + 1) + j)
    BY <1>2, <2>1
  <2>6. \A j \in 1 .. L - k - 1 : Tail(Rest(k))[j] = Rest(k + 1)[j]
    <3> TAKE j \in 1 .. L - k - 1
    <3>1. j + 1 \in 1 .. L - k /\ k + (j + 1) = (k + 1) + j /\ j \in 1 .. L - (k + 1)
      BY <2>1
    <3> QED BY <2>2, <2>4, <2>5, <3>1
  <2>7. Len(Tail(Rest(k))) = Len(Rest(k + 1))
    BY <2>1, <2>4, <2>5
  <2>8. Tail(Rest(k)) = Rest(k + 1)
    BY <2>4, <2>5, <2>6, <2>7, SeqEqual
  <2> QED BY <2>3, <2>8
<1>5. Rest(0) \in Seq(S)
  BY <1>2
<1>6. /\ <<SelfOf>> \o Rest(0) # <<>> /\ Head(<<SelfOf>> \o Rest(0)) = SelfOf
      /\ Tail(<<SelfOf>> \o Rest(0)) = Rest(0) /\ <<SelfOf>> \o Rest(0) \in Seq(S)
      /\ <<SelfOf, SelfOf>> \o Rest(0) = <<SelfOf>> \o (<<SelfOf>> \o Rest(0))
  BY <1>1, <1>5, FirstAndRest
<1>7. /\ <<SelfOf, SelfOf>> \o Rest(0) # <<>>
      /\ Tail(<<SelfOf, SelfOf>> \o Rest(0)) = <<SelfOf>> \o Rest(0)
  <2> DEFINE t == <<SelfOf>> \o Rest(0)
  <2>1. t \in Seq(S) /\ <<SelfOf, SelfOf>> \o Rest(0) = <<SelfOf>> \o t
    BY <1>6
  <2> HIDE DEF t
  <2>2. <<SelfOf>> \o t # <<>> /\ Tail(<<SelfOf>> \o t) = t
    BY <1>1, <2>1, FirstAndRest
  <2> QED BY <2>1, <2>2 DEF t
<1> QED BY <1>3, <1>4, <1>6, <1>7

LEMMA ConcatThree ==
  \A a, b, c \in Seq(Pairs) : (a \o b) \o c = a \o (b \o c)
<1>1. ASSUME NEW S, NEW a \in Seq(S), NEW b \in Seq(S), NEW c \in Seq(S)
      PROVE  (a \o b) \o c = a \o (b \o c)
  BY ConcatAssociative
<1>2. ASSUME NEW a \in Seq(Pairs), NEW b \in Seq(Pairs), NEW c \in Seq(Pairs)
      PROVE  (a \o b) \o c = a \o (b \o c)
  BY <1>1
<1> QED BY <1>2

LEMMA DropInvStep ==
  ASSUME DropInv, Drop!Next \/ UNCHANGED Drop!vars
  PROVE  DropInv'
<1>1. DropShape /\ QueueRight
  BY DEF DropInv
<1>2. drop' = drop /\ forbidden' = forbidden
  BY DEF Drop!Next, Drop!SkipMissing, Drop!AddFile, Drop!OpenFolder, Drop!NextEntry, Drop!CloseFolder,
         Drop!StartWorker, Drop!vars
<1>3. \A q, w : Served(q, w)' = Served(q, w)
  BY <1>2 DEF Served, Drop!HasRoot
<1>4. Len(drop) \in Nat
  BY <1>1, LenProperties DEF DropShape
<1>5. ASSUME item <= Len(drop)
      PROVE  item \in 1 .. Len(drop) /\ item \in Nat /\ item - 1 \in 0 .. Len(drop)
  BY <1>1, <1>4, <1>5 DEF DropShape
<1>6. queue \in Seq(Pairs)
  BY <1>1 DEF DropShape
(* The item is done with: the queue grows by what is wanted of it. *)
<1>7. ASSUME item <= Len(drop), item' = item + 1, gone' \in {gone, gone \cup {item}}, queue' \in Seq(Pairs),
             dphase' = "items",
             \A n \in 1 .. Len(drop) : n = item => Served(queue', WantedTo(n - 1) \o Drop!Wanted(n)')
      PROVE  DropInv'
  <2>1. PICK n \in 1 .. Len(drop) : n = item
    BY <1>5, <1>7
  <2>2. WantedTo(n)' = WantedTo(n - 1) \o Drop!Wanted(n)'
    BY <1>1, <1>2, <1>7, <2>1, ItemDone
  <2>3. Served(queue', WantedTo(n)')
    BY <1>7, <2>1, <2>2
  <2>4. item' - 1 = n /\ n \in Nat
    BY <1>4, <1>7, <2>1
  <2>5. WantedTo(item - 1)' = WantedTo(n)'
    BY <2>4 DEF WantedTo
  <2>6. Served(queue, WantedTo(item - 1))'
    BY <1>2, <2>3, <2>5 DEF Served, Drop!HasRoot
  <2>7. DropShape'
    BY <1>1, <1>2, <1>4, <1>5, <1>7 DEF DropShape
  <2> QED BY <1>7, <2>6, <2>7 DEF DropInv, QueueRight
(* The folder stays open. *)
<1>8. ASSUME NEW n \in 1 .. Len(drop), n = item, drop[n].kind = "folder", item' = item, gone' = gone,
             dphase' = "folder", queue' \in Seq(Pairs),
             NEW k \in 0 .. Len(drop[n].entries),
             Served(queue', WantedTo(n - 1) \o EntriesTo(n, k)),
             listing' = Rest(k) \/ (k = 0 /\ listing' = <<SelfOf>> \o Rest(0))
      PROVE  DropInv'
  <2>1. WantedTo(n - 1)' = WantedTo(n - 1)
    BY <1>1, <1>2, <1>8, ItemDone
  <2>2. EntriesTo(n, k)' = EntriesTo(n, k)
    BY <1>2 DEF EntriesTo, Drop!WantedEntry, Drop!Supported
  <2>3. Served(queue', (WantedTo(n - 1) \o EntriesTo(n, k))')
    BY <1>8, <2>1, <2>2
  <2>4. Served(queue, WantedTo(n - 1) \o EntriesTo(n, k))'
    BY <1>2, <2>3 DEF Served, Drop!HasRoot
  <2>5. Served(queue, WantedTo(item - 1) \o EntriesTo(item, k))'
    BY <1>8, <2>4
  <2>6. Rest(k)' = Rest(k) /\ Rest(0)' = Rest(0) /\ SelfOf' = SelfOf
    BY <1>2, <1>8 DEF Rest, Entry, SelfOf
  <2>7. FolderRight'
    BY <1>2, <1>4, <1>8, <2>5, <2>6 DEF FolderRight
  <2>8. DropShape'
    BY <1>1, <1>2, <1>8 DEF DropShape
  <2> QED BY <1>8, <2>7, <2>8 DEF DropInv, QueueRight
<1>9. CASE Drop!SkipMissing
  <2>1. /\ dphase = "items" /\ item <= Len(drop) /\ gone' = gone \cup {item} /\ item' = item + 1
        /\ dphase' = "items" /\ queue' = queue
    BY <1>9 DEF Drop!SkipMissing
  <2>2. Served(queue, WantedTo(item - 1))
    BY <1>1, <2>1 DEF QueueRight
  <2>3. ASSUME NEW n \in 1 .. Len(drop), n = item
        PROVE  Served(queue', WantedTo(n - 1) \o Drop!Wanted(n)')
    <3>1. Drop!Wanted(n)' = <<>>
      BY <1>1, <1>2, <2>1, <2>3, ItemDone
    <3>2. WantedTo(n - 1) \in Seq(Pairs)
      BY <1>1, <1>5, <2>1, <2>3, WantedType
    <3>3. WantedTo(n - 1) \o <<>> = WantedTo(n - 1)
      BY <3>2, ConcatEmptySeq
    <3> QED BY <2>1, <2>2, <2>3, <3>1, <3>3
  <2> QED BY <1>6, <1>7, <2>1, <2>3
<1>10. CASE Drop!AddFile
  <2>1. /\ dphase = "items" /\ item <= Len(drop) /\ drop[item].kind = "file" /\ gone' = gone /\ item' = item + 1
        /\ \/ dphase' = "crashed" /\ queue' = queue
           \/ /\ dphase' = "items"
              /\ queue' = IF Drop!Accepted(drop[item].name) THEN Append(queue, <<item, 0>>) ELSE queue
    BY <1>10 DEF Drop!AddFile, Drop!CreateAddObject
  <2>2. CASE dphase' = "crashed"
    <3>1. DropShape'
      BY <1>1, <1>2, <1>4, <1>5, <2>1, <2>2 DEF DropShape
    <3> QED BY <2>2, <3>1 DEF DropInv, QueueRight
  <2>3. CASE dphase' = "items"
    <3>1. PICK n \in 1 .. Len(drop) : n = item
      BY <1>5, <2>1
    <3>2. n \notin gone /\ Drop!Wanted(n)' = Drop!Wanted(n) /\ Drop!Wanted(n) \in Seq(Pairs)
      BY <1>1, <1>2, <2>1, <3>1, ItemDone, WantedType
    <3>3. Drop!Wanted(n) = IF Drop!Accepted(drop[n].name) THEN <<<<n, 0>>>> ELSE <<>>
      BY <2>1, <3>1, <3>2 DEF Drop!Wanted, Drop!Supported, Drop!Accepted
    <3>4. queue' = queue \o Drop!Wanted(n)
      <4> DEFINE x == <<n, 0>>
      <4>1. x \in Pairs
        BY <1>4, <3>1 DEF Pairs
      <4>2. queue' = IF Drop!Accepted(drop[n].name) THEN Append(queue, x) ELSE queue
        BY <2>1, <2>3, <3>1
      <4> HIDE DEF x, Pairs
      <4>3. Append(queue, x) = queue \o <<x>> /\ queue \o <<>> = queue
        BY <1>6, <4>1, AppendIsConcat, ConcatEmptySeq
      <4> QED BY <3>3, <4>2, <4>3 DEF x
    <3>5. WantedTo(n - 1) \in Seq(Pairs) /\ Served(queue, WantedTo(n - 1))
      BY <1>1, <1>5, <2>1, <3>1, WantedType DEF QueueRight
    <3>6. Served(queue', WantedTo(n - 1) \o Drop!Wanted(n)')
      BY <1>6, <3>2, <3>4, <3>5, ServedGrows
    <3>7. queue' \in Seq(Pairs)
      BY <1>6, <3>2, <3>4, ConcatProperties
    <3> QED BY <1>7, <2>1, <2>3, <3>1, <3>6, <3>7
  <2> QED BY <2>1, <2>2, <2>3
<1>11. CASE Drop!OpenFolder
  <2>1. /\ dphase = "items" /\ item <= Len(drop) /\ drop[item].kind = "folder" /\ gone' = gone /\ queue' = queue
        /\ \/ Drop!Listing(drop[item]) = <<>> /\ item' = item + 1 /\ dphase' = "items"
           \/ /\ Drop!Listing(drop[item]) # <<>> /\ item' = item
              /\ listing' = Tail(Drop!Listing(drop[item])) /\ dphase' = "folder"
    BY <1>11 DEF Drop!OpenFolder
  <2>2. PICK n \in 1 .. Len(drop) : n = item
    BY <1>5, <2>1
  <2> DEFINE L == Len(drop[n].entries)
  <2>3. L \in Nat /\ L = Len(drop[item].entries)
    BY <1>1, <2>1, <2>2, ItemTypes
  <2>4. Drop!Listing(drop[item]) = IF drop[item].root THEN Rest(0) ELSE <<SelfOf, SelfOf>> \o Rest(0)
    <3>1. Rest(0) = [m \in 1 .. Len(drop[item].entries) |-> [name |-> drop[item].entries[m], entry |-> m]]
      BY <2>3 DEF Rest, Entry
    <3> QED BY <3>1 DEF Drop!Listing, SelfOf
  <2>5. n \notin gone /\ Drop!Wanted(n)' = Drop!Wanted(n) /\ Drop!Wanted(n) = EntriesTo(n, L)
    <3>1. n \notin gone /\ Drop!Wanted(n)' = Drop!Wanted(n)
      BY <1>1, <1>2, <2>1, <2>2, ItemDone
    <3> QED BY <2>1, <2>2, <3>1 DEF Drop!Wanted, EntriesTo
  <2>6. WantedTo(n - 1) \in Seq(Pairs) /\ Served(queue, WantedTo(n - 1)) /\ EntriesTo(n, 0) = <<>>
    <3>1. WantedTo(n - 1) \in Seq(Pairs) /\ Served(queue, WantedTo(n - 1))
      BY <1>1, <1>5, <2>1, <2>2, WantedType DEF QueueRight
    <3>2. [e \in 1 .. 0 |-> Drop!WantedEntry(n, e)] = <<>>
      OBVIOUS
    <3> QED BY <3>1, <3>2 DEF EntriesTo, Drop!FlattenSeq
  <2>7. Served(queue, WantedTo(n - 1) \o EntriesTo(n, 0))
    BY <2>6, ConcatEmptySeq
  <2>8. CASE L = 0 /\ drop[item].root
    <3>1. Rest(0) = <<>>
      BY <2>3, <2>8, Rests
    <3> QED BY <1>6, <1>7, <2>1, <2>2, <2>4, <2>5, <2>7, <2>8, <3>1
  <2>9. CASE L # 0 /\ drop[item].root
    <3>1. 0 \in 0 .. L - 1 /\ 1 \in 0 .. L /\ Rest(0) # <<>> /\ Tail(Rest(0)) = Rest(1)
      BY <2>3, <2>9, Rests
    <3>2. Served(queue, WantedTo(n - 1) \o EntriesTo(n, 1))
      <4>1. EntriesTo(n, 1) = EntriesTo(n, 0) \o Drop!WantedEntry(n, 1)
        <5>1. n \in Nat /\ 0 \in Nat /\ 0 + 1 = 1
          BY <1>4
        <5> QED BY <1>1, <5>1, OneMoreEntry
      <4>2. Drop!WantedEntry(n, 1) \in Seq(Pairs)
        BY <1>1, <1>4, WantedType
      <4>3. EntriesTo(n, 1) = Drop!WantedEntry(n, 1)
        BY <2>6, <4>1, <4>2
      <4>4. Drop!HasRoot
        BY <2>1, <2>2, <2>9 DEF Drop!HasRoot
      <4>5. \A e : Holds(Drop!WantedEntry(n, 1), e) => e = <<n, 1>>
        BY DEF Holds, Drop!WantedEntry
      <4>6. \A e : Holds(Drop!WantedEntry(n, 1), e) => e[2] = 1 /\ drop[e[1]].root
        BY <2>2, <2>9, <4>5
      <4>7. Served(queue, WantedTo(n - 1) \o Drop!WantedEntry(n, 1))
        BY <1>6, <2>6, <4>2, <4>4, <4>6, RootLoses
      <4> QED BY <4>3, <4>7
    <3> QED BY <1>6, <1>8, <2>1, <2>2, <2>4, <2>9, <3>1, <3>2
  <2>10. CASE ~drop[item].root
    <3>1. /\ <<SelfOf, SelfOf>> \o Rest(0) # <<>>
          /\ Tail(<<SelfOf, SelfOf>> \o Rest(0)) = <<SelfOf>> \o Rest(0)
      BY <2>3, Rests
    <3>2. 0 \in 0 .. L
      BY <2>3
    <3> QED BY <1>6, <1>8, <2>1, <2>2, <2>4, <2>7, <2>10, <3>1, <3>2
  <2> QED BY <2>8, <2>9, <2>10
<1>12. CASE Drop!NextEntry
  <2>1. /\ dphase = "folder" /\ listing # <<>> /\ listing' = Tail(listing) /\ item' = item /\ gone' = gone
        /\ \/ Drop!Skipped(Head(listing).name) /\ dphase' = "folder" /\ queue' = queue
           \/ /\ ~Drop!Skipped(Head(listing).name)
              /\ Drop!CreateAddObject(Head(listing).name, drop[item].dotted, Head(listing).entry)
    BY <1>12 DEF Drop!NextEntry
  <2>2. FolderRight
    BY <1>1, <2>1 DEF QueueRight
  <2>3. PICK n \in 1 .. Len(drop) : n = item
    BY <1>5, <2>2 DEF FolderRight
  <2> DEFINE L == Len(drop[n].entries)
  <2>4. L \in Nat /\ L = Len(drop[item].entries) /\ drop[n].kind = "folder"
    BY <1>1, <2>2, <2>3, ItemTypes DEF FolderRight
  <2>5. PICK k \in 0 .. L :
          /\ Served(queue, WantedTo(n - 1) \o EntriesTo(n, k))
          /\ listing = Rest(k) \/ (k = 0 /\ listing = <<SelfOf>> \o Rest(0))
    BY <2>2, <2>3 DEF FolderRight
  <2>6. CASE k = 0 /\ listing = <<SelfOf>> \o Rest(0)
    <3>1. Head(listing) = SelfOf /\ Tail(listing) = Rest(0)
      BY <2>4, <2>6, Rests
    <3>2. Drop!Skipped(Head(listing).name)
      BY <3>1 DEF SelfOf, Drop!Self, Drop!Skipped
    <3> QED BY <1>6, <1>8, <2>1, <2>3, <2>4, <2>5, <2>6, <3>1, <3>2
  <2>7. CASE listing = Rest(k)
    <3>1. k # L
      BY <2>1, <2>4, <2>7, Rests
    <3>2. k \in 0 .. L - 1 /\ k + 1 \in 0 .. L /\ k \in Nat /\ k + 1 \in Nat /\ n \in Nat
      BY <1>4, <2>4, <3>1
    <3>3. Head(listing) = Entry(k + 1) /\ Tail(listing) = Rest(k + 1)
      BY <2>4, <2>7, <3>2, Rests
    <3>4. Head(listing).name = drop[n].entries[k + 1] /\ Head(listing).entry = k + 1
      BY <2>3, <3>3 DEF Entry
    <3>5. EntriesTo(n, k + 1) = EntriesTo(n, k) \o Drop!WantedEntry(n, k + 1)
      BY <1>1, <3>2, OneMoreEntry
    <3>6. /\ EntriesTo(n, k) \in Seq(Pairs) /\ Drop!WantedEntry(n, k + 1) \in Seq(Pairs)
          /\ WantedTo(n - 1) \in Seq(Pairs)
      <4>1. n - 1 \in 0 .. Len(drop)
        BY <1>4
      <4> QED BY <1>1, <3>2, <4>1, WantedType
    <3>7. CASE dphase' = "crashed"
      <4>1. queue' = queue
        BY <2>1, <3>7 DEF Drop!CreateAddObject
      <4>2. DropShape'
        BY <1>1, <1>2, <2>1, <4>1 DEF DropShape
      <4> QED BY <3>7, <4>2 DEF DropInv, QueueRight
    <3>8. CASE dphase' # "crashed"
      <4>1. dphase' = "folder"
        BY <2>1, <3>8 DEF Drop!CreateAddObject
      <4>2. queue' = IF ~Drop!Skipped(drop[n].entries[k + 1]) /\ Drop!Accepted(drop[n].entries[k + 1])
                     THEN Append(queue, <<n, k + 1>>) ELSE queue
        BY <2>1, <2>3, <3>4, <3>8 DEF Drop!CreateAddObject
      <4>3. queue' = queue \o Drop!WantedEntry(n, k + 1)
        <5> DEFINE x == <<n, k + 1>>
        <5>1. x \in Pairs
          BY <3>2 DEF Pairs
        <5>2. Drop!WantedEntry(n, k + 1) =
                IF ~Drop!Skipped(drop[n].entries[k + 1]) /\ Drop!Accepted(drop[n].entries[k + 1])
                THEN <<x>> ELSE <<>>
          BY DEF Drop!WantedEntry, Drop!Skipped, Drop!Visible, Drop!Supported, Drop!Accepted
        <5> HIDE DEF x, Pairs
        <5>3. Append(queue, x) = queue \o <<x>> /\ queue \o <<>> = queue
          BY <1>6, <5>1, AppendIsConcat, ConcatEmptySeq
        <5> QED BY <4>2, <5>2, <5>3 DEF x
      <4>4. Served(queue', WantedTo(n - 1) \o EntriesTo(n, k + 1))
        <5> DEFINE w == WantedTo(n - 1) \o EntriesTo(n, k)
        <5>1. w \in Seq(Pairs)
          BY <3>6, ConcatProperties
        <5>2. Served(queue \o Drop!WantedEntry(n, k + 1), w \o Drop!WantedEntry(n, k + 1))
          BY <1>6, <2>5, <3>6, <5>1, ServedGrows
        <5>3. w \o Drop!WantedEntry(n, k + 1) =
                WantedTo(n - 1) \o (EntriesTo(n, k) \o Drop!WantedEntry(n, k + 1))
          BY <3>6, ConcatThree
        <5>4. w \o Drop!WantedEntry(n, k + 1) = WantedTo(n - 1) \o EntriesTo(n, k + 1)
          BY <3>5, <5>3
        <5> HIDE DEF w
        <5> QED BY <4>3, <5>2, <5>4
      <4>5. queue' \in Seq(Pairs)
        BY <1>6, <3>6, <4>3, ConcatProperties
      <4>6. item' = item /\ gone' = gone /\ listing' = Rest(k + 1)
        BY <2>1, <3>3
      <4> DEFINE m == k + 1
      <4>7. m \in 0 .. Len(drop[n].entries) /\ listing' = Rest(m)
        BY <3>2, <4>6
      <4>8. Served(queue', WantedTo(n - 1) \o EntriesTo(n, m))
        BY <4>4
      <4> HIDE DEF m
      <4> QED BY <1>8, <2>3, <2>4, <4>1, <4>5, <4>6, <4>7, <4>8
    <3> QED BY <3>7, <3>8
  <2> QED BY <2>5, <2>6, <2>7
<1>13. CASE Drop!CloseFolder
  <2>1. /\ dphase = "folder" /\ listing = <<>> /\ item' = item + 1 /\ dphase' = "items" /\ gone' = gone
        /\ queue' = queue
    BY <1>13 DEF Drop!CloseFolder
  <2>2. FolderRight
    BY <1>1, <2>1 DEF QueueRight
  <2>3. PICK n \in 1 .. Len(drop) : n = item
    BY <1>5, <2>2 DEF FolderRight
  <2> DEFINE L == Len(drop[n].entries)
  <2>4. L \in Nat /\ L = Len(drop[item].entries) /\ drop[n].kind = "folder" /\ item <= Len(drop)
    BY <1>1, <2>2, <2>3, ItemTypes DEF FolderRight
  <2>5. PICK k \in 0 .. L :
          /\ Served(queue, WantedTo(n - 1) \o EntriesTo(n, k))
          /\ listing = Rest(k) \/ (k = 0 /\ listing = <<SelfOf>> \o Rest(0))
    BY <2>2, <2>3 DEF FolderRight
  <2>6. k = L
    <3>1. <<SelfOf>> \o Rest(0) # <<>>
      BY <2>4, Rests
    <3>2. listing = Rest(k)
      BY <2>1, <2>5, <3>1
    <3>3. \A j \in 0 .. L - 1 : Rest(j) # <<>>
      BY <2>4, Rests
    <3>4. k \notin 0 .. L - 1
      BY <2>1, <3>2, <3>3
    <3> QED BY <2>4, <3>4
  <2>7. Drop!Wanted(n)' = EntriesTo(n, L)
    <3>1. n \notin gone /\ Drop!Wanted(n)' = Drop!Wanted(n)
      BY <1>1, <1>2, <2>1, <2>3, <2>4, ItemDone
    <3>2. drop[n].kind = "folder"
      BY <2>4
    <3> QED BY <3>1, <3>2 DEF Drop!Wanted, EntriesTo
  <2> QED BY <1>6, <1>7, <2>1, <2>3, <2>4, <2>5, <2>6, <2>7
<1>14. CASE Drop!StartWorker
  <2>1. /\ dphase = "items" /\ dphase' = "done" /\ UNCHANGED <<item, gone, queue>>
    BY <1>14 DEF Drop!StartWorker
  <2>2. WantedTo(item - 1)' = WantedTo(item - 1)
    BY <1>2, <2>1 DEF WantedTo, Drop!Wanted, Drop!WantedEntry, Drop!Supported
  <2>3. Served(queue, WantedTo(item - 1))'
    BY <1>1, <1>2, <2>1, <2>2 DEF QueueRight, Served, Drop!HasRoot
  <2>4. DropShape'
    BY <1>1, <1>2, <2>1 DEF DropShape
  <2> QED BY <2>1, <2>3, <2>4 DEF DropInv, QueueRight
<1>15. CASE UNCHANGED Drop!vars
  <2>1. UNCHANGED <<item, gone, queue, listing, dphase>>
    BY <1>15 DEF Drop!vars
  <2>2. DropShape'
    BY <1>1, <1>2, <2>1 DEF DropShape
  <2>3. \A n : WantedTo(n)' = WantedTo(n)
    BY <1>2, <2>1 DEF WantedTo, Drop!Wanted, Drop!WantedEntry, Drop!Supported
  <2>4. CASE dphase # "folder"
    <3>1. WantedTo(item - 1)' = WantedTo(item - 1)
      BY <1>2, <2>1 DEF WantedTo, Drop!Wanted, Drop!WantedEntry, Drop!Supported
    <3>2. Served(queue, WantedTo(item - 1))' = Served(queue, WantedTo(item - 1))
      BY <1>2, <2>1, <3>1 DEF Served, Drop!HasRoot
    <3> QED BY <1>1, <2>1, <2>2, <2>4, <3>2 DEF DropInv, QueueRight
  <2>5. CASE dphase = "folder"
    <3>1. FolderRight
      BY <1>1, <2>5 DEF QueueRight
    <3>2. PICK n \in 1 .. Len(drop) : n = item
      BY <1>5, <3>1 DEF FolderRight
    <3>3. PICK k \in 0 .. Len(drop[n].entries) :
            /\ Served(queue, WantedTo(n - 1) \o EntriesTo(n, k))
            /\ listing = Rest(k) \/ (k = 0 /\ listing = <<SelfOf>> \o Rest(0))
      BY <3>1, <3>2 DEF FolderRight
    <3> QED BY <1>6, <1>8, <2>1, <2>5, <3>1, <3>2, <3>3 DEF FolderRight
  <2> QED BY <2>4, <2>5
<1> QED BY <1>9, <1>10, <1>11, <1>12, <1>13, <1>14, <1>15 DEF Drop!Next

DropKept == program = "drop" => DropInv

LEMMA DropInvariant == FormatSpec => []DropKept
<1>1. FormatInit => DropKept
  <2> SUFFICES ASSUME Drop!Init
               PROVE  DropInv
    BY DEF FormatInit, DropKept
  <2> QED BY DropInvInit
<1>2. DropKept /\ [FormatNext]_formatvars => DropKept'
  <2> SUFFICES ASSUME DropInv, Drop!Next \/ UNCHANGED Drop!vars
               PROVE  DropInv'
    BY DEF FormatNext, formatvars, dropvars, Drop!vars, DropKept
  <2> QED BY DropInvStep
<1> QED BY <1>1, <1>2, PTL DEF FormatSpec

(* Of a drop without the root of a drive the worker gets exactly the supported
   and visible files, each once and in its order: for every number of items and
   of entries, and whatever vanished before its turn. *)
THEOREM QueueServesDrop == FormatSpec => []QueueIsDrop
<1>1. DropKept => QueueIsDrop
  <2> SUFFICES ASSUME DropInv, dphase = "done", ~Drop!HasRoot
               PROVE  queue = Drop!WantedUpTo
    BY DEF DropKept, QueueIsDrop, Drop!QueueIsDrop
  <2>1. Served(queue, WantedTo(item - 1))
    BY DEF DropInv, QueueRight
  <2>2. Drop!WantedUpTo = WantedTo(item - 1)
    BY DEF Drop!WantedUpTo, WantedTo
  <2> QED BY <2>1, <2>2 DEF Served
<1> QED BY <1>1, DropInvariant, PTL

(* With the root of a drive the queue holds nothing that was not wanted, and
   of what was wanted at most the first entry of each root is lost. *)
THEOREM RootLosesFirst == FormatSpec => []RootCostsItsFirst
<1>1. DropKept => RootCostsItsFirst
  <2> SUFFICES ASSUME DropInv, dphase = "done"
               PROVE  /\ \A n \in DOMAIN queue : Drop!Contains(Drop!WantedUpTo, queue[n])
                      /\ \A n \in DOMAIN Drop!WantedUpTo :
                           \/ Drop!Contains(queue, Drop!WantedUpTo[n])
                           \/ Drop!WantedUpTo[n][2] = 1 /\ drop[Drop!WantedUpTo[n][1]].root
    BY DEF DropKept, RootCostsItsFirst, Drop!RootCostsItsFirst
  <2> DEFINE w == WantedTo(item - 1)
  <2>1. Served(queue, w)
    BY DEF DropInv, QueueRight
  <2>2. Drop!WantedUpTo = w
    BY DEF Drop!WantedUpTo, WantedTo
  <2>3. queue \in Seq(Pairs) /\ w \in Seq(Pairs)
    <3>1. Len(drop) \in Nat
      BY LenProperties DEF DropInv, DropShape
    <3>2. item - 1 \in 0 .. Len(drop)
      BY <3>1 DEF DropInv, DropShape
    <3> QED BY <3>2, WantedType DEF DropInv, DropShape
  <2> HIDE DEF w
  <2>4. DOMAIN queue = 1 .. Len(queue) /\ DOMAIN w = 1 .. Len(w)
    BY <2>3, LenProperties
  <2>5. \A n \in DOMAIN queue : Holds(queue, queue[n])
    BY <2>4 DEF Holds
  <2>6. \A n \in DOMAIN w : Holds(w, w[n])
    BY <2>4 DEF Holds
  <2>7. \A q, e : Holds(q, e) => Drop!Contains(q, e)
    BY DEF Holds, Drop!Contains
  <2>8. \A n \in DOMAIN queue : Drop!Contains(w, queue[n])
    BY <2>1, <2>5, <2>7 DEF Served
  <2>9. \A n \in DOMAIN w : Drop!Contains(queue, w[n]) \/ (w[n][2] = 1 /\ drop[w[n][1]].root)
    BY <2>1, <2>6, <2>7 DEF Served
  <2> QED BY <2>2, <2>8, <2>9
<1> QED BY <1>1, DropInvariant, PTL
=============================================================================
