------------------------------- MODULE Database -------------------------------
(***************************************************************************)
(* UnpackDbs.h: a database of the game is three words, of kind, the size   *)
(* of the rest and the size of the table, and the data: the table, which   *)
(* is compressed when the sizes differ.  One key is on all words behind    *)
(* the first, others are on the words of the table, chosen by a scheme of  *)
(* lines and rows.  A file may have lost its end.                          *)
(*                                                                         *)
(* A byte of the table is its place and the locks of the keys on it; a     *)
(* byte of the data is its place and the lock on it; the codec is that of  *)
(* ScriptCodec.                                                            *)
(***************************************************************************)
EXTENDS Integers, Sequences

CONSTANTS TableSizes,  \* the bytes of the table, and of the data
          Losses,      \* the bytes a file may have lost
          Word,        \* 4
          Rows,        \* 16, the words of a line
          Keys         \* 5, the keys of a line, and the lines

DatabaseAssumption ==
  /\ TableSizes \subseteq Nat /\ Losses \subseteq Nat
  /\ Word \in Nat \ {0} /\ Rows \in Nat \ {0} /\ Keys \in Nat \ {0}

VARIABLES
  table,     \* the sizes of the table and its data, whether the file says both, and its loss
  data,      \* of each byte of the data, whether the key is on it
  bphase,    \* of Unpack: "start", "copy", "keys", "done" or "refused"
  UncompressedBuffer,
  i, Line, Row

bvars == <<table, data, bphase, UncompressedBuffer, i, Line, Row>>

Head3 == 3 * Word
FileSize  == Head3 + table.bytes - table.loss

(* The scheme of the table: the lines take turns in a square of keys, the words
   of a line in a line of it.  What is left at the end is no word. *)
Square(w) == <<(w \div Rows) % Keys, (w % Rows) % Keys>>
Words(n, w) == w < n \div Word

Cell(k, locks) == [at |-> k, locks |-> locks]
Table(n) == [k \in 1 .. n |->
  LET w == (k - 1) \div Word IN Cell(k - 1, IF Words(n, w) THEN {Square(w)} ELSE {})]
Lost == Cell(-1, {})

Init ==
  /\ table \in [size : TableSizes, bytes : TableSizes, said : BOOLEAN, loss : Losses]
  /\ table.bytes # table.size => table.said
  /\ table.loss <= table.bytes
  /\ data = [k \in 1 .. table.bytes - table.loss |->
               Words(Head3 + table.bytes, (Head3 + k - 1) \div Word)]
  /\ bphase = "start" /\ UncompressedBuffer = <<>>
  /\ i = 0 /\ Line = 0 /\ Row = 0

-----------------------------------------------------------------------------
(* The sizes that the words behind the key give. *)
CompressedSize == table.bytes
UncompressedSize == IF table.said THEN table.size ELSE CompressedSize

(* The key on the words behind the first: (FileSize - 4) / 4 of them. *)
Unlock ==
  /\ bphase = "start"
  /\ IF FileSize <= Head3 THEN bphase' = "refused" /\ UNCHANGED data
     ELSE /\ data' = [k \in DOMAIN data |->
                       IF (Head3 + k - 1) \div Word <= (FileSize - Word) \div Word
                       THEN ~data[k] ELSE data[k]]
          /\ bphase' = IF CompressedSize > FileSize THEN "refused" ELSE "copy"
  /\ UNCHANGED <<table, UncompressedBuffer, i, Line, Row>>

(* DecompressData or a copy; what lies behind the file is read as it comes. *)
Read == [k \in 1 .. CompressedSize |-> k <= Len(data) /\ ~data[k]]

Copy ==
  /\ bphase = "copy"
  /\ UncompressedBuffer' =
       IF UncompressedSize # CompressedSize
       THEN IF \A k \in DOMAIN Read : Read[k] THEN Table(table.size)
            ELSE [k \in 1 .. UncompressedSize |-> Lost]
       ELSE [k \in 1 .. UncompressedSize |-> IF Read[k] THEN Table(table.size)[k] ELSE Lost]
  /\ bphase' = "keys"
  /\ UNCHANGED <<table, data, i, Line, Row>>

Xor(locks, lock) == IF lock \in locks THEN locks \ {lock} ELSE locks \cup {lock}

(* Mutant: a line is as long as a line of keys. *)
EarlyLine == Row + 1 >= Keys

LineEnds == Row + 1 >= Rows

(* One word of the table. *)
DecodeWord ==
  /\ bphase = "keys" /\ i < UncompressedSize \div Word
  /\ UncompressedBuffer' =
       [k \in DOMAIN UncompressedBuffer |->
         IF (k - 1) \div Word = i
         THEN [UncompressedBuffer[k] EXCEPT !.locks = Xor(@, <<Line, Row % Keys>>)]
         ELSE UncompressedBuffer[k]]
  /\ i' = i + 1
  /\ Row' = IF LineEnds THEN 0 ELSE Row + 1
  /\ Line' = LET next == IF LineEnds THEN Line + 1 ELSE Line IN IF next >= Keys THEN 0 ELSE next
  /\ UNCHANGED <<table, data, bphase>>

(* The buffer is written to the file, or the file fails. *)
Write ==
  /\ bphase = "keys" /\ i = UncompressedSize \div Word
  /\ bphase' \in {"done", "refused"}
  /\ UNCHANGED <<table, data, UncompressedBuffer, i, Line, Row>>

Next == Unlock \/ Copy \/ DecodeWord \/ Write

Spec == Init /\ [][Next]_bvars

-----------------------------------------------------------------------------
(* Properties. *)

(* What is written of a whole file is the table, every key off; a file that has
   lost more than the words at its head is refused. *)
DatabaseDecoded ==
  bphase = "done" =>
    /\ table.loss <= Head3
    /\ table.loss = 0 => UncompressedBuffer = [k \in 1 .. table.size |-> Cell(k - 1, {})]
=============================================================================
