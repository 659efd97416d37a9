----------------------------- MODULE ScriptCodec -----------------------------
(***************************************************************************)
(* The LZSS codec of scripts and Gameexe: CompressData with its KMP search *)
(* (Compression.cpp), then the two decoders, DecompressData (Gameexe.dat,  *)
(* *.dbs) and the assembler decompress_data (Scene.pck).                   *)
(*                                                                         *)
(* The code is a sequence of items: a control byte (the set of its bits),  *)
(* a literal (one byte) or a reference (two bytes: a distance and a        *)
(* length less two).  Distances and lengths are truncated to their fields. *)
(* One step is one iteration of a loop of the source.                      *)
(***************************************************************************)
EXTENDS Integers, Sequences, FiniteSets

CONSTANTS Symbols,   \* the values of a byte
          MaxInput,  \* bound: the longest input
          Level,     \* LEVEL, the longest match
          Window,    \* 0xfff, the greatest distance
          Nibble,    \* 16, the values of the length field
          Slots      \* 8, the items of a control byte

AcceptLevel == 3

(* One item a control byte and a short text would not fit the allocation. *)
ASSUME CodecAssumption ==
  /\ MaxInput \in Nat /\ Slots \in Nat /\ 2 <= Slots
  /\ Nibble \in Nat /\ Level \in Nat /\ AcceptLevel <= Level /\ Level <= Nibble + 1
  /\ Window \in Nat /\ Level < Window

Inputs == UNION {[1 .. n -> Symbols] : n \in 0 .. MaxInput}

VARIABLES
  input,    \* the buffer to compress
  phase,    \* the loop the program is in
  cur,      \* curlen
  slot,     \* the bit of the control byte being filled (i of CompressData)
  table,    \* OffTable
  ti, tx,   \* i and x of GenerateTable
  x, i,     \* x and i of SearchData
  match,    \* matchlen of SearchData
  best,     \* offset of SearchData, from the start of the window
  code,     \* the items written
  outlen,   \* outlen, the size the header records less its own 8 bytes
  reader,   \* which decoder reads the code
  rd,       \* the item the decoder reads next
  bits,     \* the control byte of the decoder
  used,     \* the bits of it already consumed
  left,     \* the bytes of a reference still to copy
  taken,    \* the bytes of code read, for the properties only
  out       \* the decoded bytes

encoder == <<cur, slot, table, ti, tx, x, i, match, best, code, outlen>>
decoder == <<reader, rd, bits, used, left, taken, out>>
vars    == <<input, phase, encoder, decoder>>

len == Len(input)

(* Mutant: the window is the whole past. *)
WholePast == cur

(* The window of the search and the match it may find: tcurlen and the length
   CompressData passes to SearchData. *)
Back == IF cur > Window THEN Window ELSE cur
Ahead == IF cur + Level > len THEN len - cur ELSE Level

Comp(k) == input[cur + k + 1]         \* comp[k], inbuffer[k]
Ptr(k)  == input[cur - Back + k + 1]  \* ptr[k]

Control(B)    == [kind |-> "control", bits |-> B, sym |-> 0, dist |-> 0, size |-> 0]
Literal(s)    == [kind |-> "literal", bits |-> {}, sym |-> s, dist |-> 0, size |-> 0]
Reference(d, n) == [kind |-> "reference", bits |-> {}, sym |-> 0,
                    dist |-> d % (Window + 1), size |-> n % Nibble]

(* Mutant: OffTable[0] is left at the zero of the memset. *)
ResetTableToZero == [table EXCEPT ![0] = 0, ![1] = 0, ![2] = 0]

(* The memset clears LEVEL + 1 bytes, not integers: two entries and the low
   byte of the third.  The others keep what the last search left. *)
ResetTable == [table EXCEPT ![0] = -1, ![1] = 0, ![2] = 0]

Init ==
  /\ input \in Inputs /\ phase = "group"
  /\ cur = 0 /\ slot = 0 /\ table = [k \in 0 .. Level |-> 0] /\ ti = 2 /\ tx = 0
  /\ x = 0 /\ i = 0 /\ match = 0 /\ best = 0
  /\ code = <<>> /\ outlen = 0
  /\ reader = "none" /\ rd = 1 /\ bits = {} /\ used = 0 /\ left = 0 /\ taken = 0
  /\ out = <<>>

-----------------------------------------------------------------------------
(* CompressData. *)

(* The head of the while loop: a control byte. *)
OpenGroup ==
  /\ phase = "group" /\ cur <= len
  /\ code' = Append(code, Control({}))
  /\ outlen' = outlen + 1
  /\ slot' = 0
  /\ phase' = "prepare"
  /\ UNCHANGED <<input, cur, table, ti, tx, x, i, match, best, decoder>>

(* The head of the for loop: GenerateTable and SearchData are entered. *)
Prepare ==
  /\ phase = "prepare"
  /\ table' = ResetTable /\ ti' = 2 /\ tx' = 0
  /\ x' = 0 /\ i' = 0 /\ match' = 0 /\ best' = 0
  /\ phase' = "table"
  /\ UNCHANGED <<input, cur, slot, code, outlen, decoder>>

(* Mutant: a prefix without a border keeps the entry it finds. *)
TableStepKeepingOld ==
  /\ phase = "table" /\ ti < Ahead
  /\ IF Comp(ti - 1) = Comp(tx)
     THEN /\ table' = [table EXCEPT ![ti] = tx + 1]
          /\ ti' = ti + 1 /\ tx' = tx + 1
     ELSE IF tx > 0
     THEN tx' = table[tx] /\ UNCHANGED <<table, ti>>
     ELSE ti' = ti + 1 /\ UNCHANGED <<table, tx>>
  /\ UNCHANGED <<input, phase, cur, slot, x, i, match, best, code, outlen, decoder>>

TableStep ==
  /\ phase = "table" /\ ti < Ahead
  /\ IF Comp(ti - 1) = Comp(tx)
     THEN /\ table' = [table EXCEPT ![ti] = tx + 1]
          /\ ti' = ti + 1 /\ tx' = tx + 1
     ELSE IF tx > 0
     THEN tx' = table[tx] /\ UNCHANGED <<table, ti>>
     ELSE /\ table' = [table EXCEPT ![ti] = 0]
          /\ ti' = ti + 1 /\ UNCHANGED tx
  /\ UNCHANGED <<input, phase, cur, slot, x, i, match, best, code, outlen, decoder>>

(* SearchData gives up at once on a short rest or a short window. *)
TableEnd ==
  /\ phase = "table" /\ ti >= Ahead
  /\ phase' = IF Ahead <= 2 \/ Back <= Ahead THEN "emit" ELSE "search"
  /\ UNCHANGED <<input, encoder, decoder>>

(* Mutant: a mismatch is taken for the longest match so far. *)
SearchStepForgettingLongest ==
  /\ phase = "search" /\ x < Back
  /\ IF Comp(i) = Ptr(i + x)
     THEN /\ i' = i + 1 /\ UNCHANGED x
          /\ IF i + 1 = Ahead
             THEN match' = i + 1 /\ best' = x /\ phase' = "emit"
             ELSE UNCHANGED <<match, best, phase>>
     ELSE /\ match' = i /\ best' = x
          /\ x' = x + i - table[i]
          /\ i' = IF table[i] > 0 THEN table[i] ELSE 0
          /\ UNCHANGED phase
  /\ UNCHANGED <<input, cur, slot, table, ti, tx, code, outlen, decoder>>

SearchStep ==
  /\ phase = "search" /\ x < Back
  /\ IF Comp(i) = Ptr(i + x)
     THEN /\ i' = i + 1 /\ UNCHANGED x
          /\ IF i + 1 = Ahead
             THEN match' = i + 1 /\ best' = x /\ phase' = "emit"
             ELSE UNCHANGED <<match, best, phase>>
     ELSE /\ IF i > match THEN match' = i /\ best' = x ELSE UNCHANGED <<match, best>>
          /\ x' = x + i - table[i]
          /\ i' = IF table[i] > 0 THEN table[i] ELSE 0
          /\ UNCHANGED phase
  /\ UNCHANGED <<input, cur, slot, table, ti, tx, code, outlen, decoder>>

SearchEnd ==
  /\ phase = "search" /\ x >= Back
  /\ phase' = "emit"
  /\ UNCHANGED <<input, encoder, decoder>>

Accepted == match >= AcceptLevel

(* The index in code of the control byte being filled. *)
Open == Len(code) - slot

(* Past the end of the input the literal is whatever follows the buffer. *)
Put ==
  IF Accepted
  THEN /\ code' = Append(code, Reference(Back - best, match - 2))
       /\ cur' = cur + match
  ELSE /\ \E s \in Symbols :
            /\ cur < len => s = Comp(0)
            /\ code' = Append([code EXCEPT ![Open].bits = @ \cup {slot}], Literal(s))
       /\ cur' = cur + 1

(* Mutants: nine items for a control byte, one item for a control byte. *)
NinthSlot == slot = Slots
EverySlot == TRUE
LastSlot == slot + 1 = Slots

(* Mutant: every byte of every item is counted. *)
CountedAll(n) == n

(* The last byte of an item is counted only if the for loop goes on. *)
Counted(n) == IF cur' >= len THEN n - 1 ELSE n

Emit ==
  /\ phase = "emit"
  /\ Put
  /\ outlen' = outlen + Counted(IF Accepted THEN 2 ELSE 1)
  /\ IF cur' >= len
     THEN phase' = "group" /\ UNCHANGED slot
     ELSE phase' = (IF LastSlot THEN "group" ELSE "prepare") /\ slot' = slot + 1
  /\ UNCHANGED <<input, table, ti, tx, x, i, match, best, decoder>>

(* The header is written; one of the decoders is then given the code. *)
Finish ==
  /\ phase = "group" /\ cur > len
  /\ reader' \in {"DecompressData", "decompress_data"}
  /\ phase' = "control"
  /\ UNCHANGED <<input, encoder, rd, bits, used, left, taken, out>>

-----------------------------------------------------------------------------
(* The decoders. *)

Reads(kind) == rd <= Len(code) /\ code[rd].kind = kind

(* The head of the outer loop of DecompressData: stop at the end of the output. *)
StopAtControl ==
  /\ phase = "control" /\ reader = "DecompressData" /\ Len(out) >= len
  /\ phase' = "decoded"
  /\ UNCHANGED <<input, encoder, decoder>>

(* decompress_data reads its control byte before it looks at the output. *)
ReadControl ==
  /\ phase = "control"
  /\ reader = "DecompressData" => Len(out) < len
  /\ IF Reads("control")
     THEN /\ bits' = code[rd].bits /\ used' = 0
          /\ rd' = rd + 1 /\ taken' = taken + 1
          /\ phase' = "item"
     ELSE phase' = "lost" /\ UNCHANGED <<bits, used, rd, taken>>
  /\ UNCHANGED <<input, encoder, reader, left, out>>

StopAtItem ==
  /\ phase = "item" /\ Len(out) = len
  /\ phase' = IF reader = "DecompressData" THEN "control" ELSE "decoded"
  /\ UNCHANGED <<input, encoder, decoder>>

(* The next bit, or the next control byte after the last one. *)
NextBit == /\ used' = used + 1
           /\ phase' = IF used + 1 = Slots THEN "control" ELSE "item"

CopyLiteral ==
  /\ phase = "item" /\ Len(out) # len /\ used \in bits
  /\ IF Reads("literal")
     THEN /\ out' = Append(out, code[rd].sym)
          /\ rd' = rd + 1 /\ taken' = taken + 1
          /\ NextBit
     ELSE phase' = "lost" /\ UNCHANGED <<out, rd, taken, used>>
  /\ UNCHANGED <<input, encoder, reader, bits, left>>

ReadReference ==
  /\ phase = "item" /\ Len(out) # len /\ used \notin bits
  /\ IF Reads("reference") /\ code[rd].dist \in 1 .. Len(out)
     THEN left' = code[rd].size + 2 /\ taken' = taken + 2 /\ phase' = "copy"
     ELSE phase' = "lost" /\ UNCHANGED <<left, taken>>
  /\ UNCHANGED <<input, encoder, reader, rd, bits, used, out>>

(* A byte at a time: a reference may overlap what it writes. *)
CopyByte ==
  /\ phase = "copy" /\ left > 0
  /\ out' = Append(out, out[Len(out) + 1 - code[rd].dist])
  /\ left' = left - 1
  /\ UNCHANGED <<input, phase, encoder, reader, rd, bits, used, taken>>

EndCopy ==
  /\ phase = "copy" /\ left = 0
  /\ rd' = rd + 1
  /\ NextBit
  /\ UNCHANGED <<input, encoder, reader, bits, left, taken, out>>

-----------------------------------------------------------------------------
Compress == \/ OpenGroup \/ Prepare \/ TableStep \/ TableEnd
            \/ SearchStep \/ SearchEnd \/ Emit \/ Finish

Decompress == \/ StopAtControl \/ ReadControl \/ StopAtItem
              \/ CopyLiteral \/ ReadReference \/ CopyByte \/ EndCopy

Next == Compress \/ Decompress

Spec == Init /\ [][Next]_vars

(* A single thread runs the codec. *)
FairSpec == Spec /\ WF_vars(Next)

-----------------------------------------------------------------------------
(* Properties. *)

Phases == {"group", "prepare", "table", "search", "emit", "control", "item",
           "copy", "decoded", "lost"}

Items == [kind : {"control", "literal", "reference"}, bits : SUBSET (0 .. Slots - 1),
          sym : Symbols \cup {0}, dist : 0 .. Window, size : 0 .. Nibble - 1]

(* The types of the cursors, the table, the code and the output. *)
TypeOK ==
  /\ input \in Seq(Symbols) /\ phase \in Phases
  /\ cur \in Nat /\ slot \in 0 .. Slots
  /\ table \in [0 .. Level -> -1 .. Level]
  /\ ti \in 2 .. Level + 1 /\ tx \in 0 .. Level
  /\ x \in Nat /\ i \in 0 .. Level /\ match \in 0 .. Level /\ best \in Nat
  /\ code \in Seq(Items) /\ outlen \in Nat
  /\ reader \in {"none", "DecompressData", "decompress_data"}
  /\ rd \in Nat \ {0} /\ bits \in SUBSET (0 .. Slots - 1) /\ used \in 0 .. Slots
  /\ left \in 0 .. Nibble + 1 /\ taken \in Nat /\ out \in Seq(Symbols)

(* What either decoder gives back is what CompressData was given, and neither
   ever takes a literal for a reference, a control byte for data or a distance
   that leaves the output. *)
RoundTrip == /\ phase # "lost"
             /\ phase = "decoded" => out = input

(* GenerateTable computes, for each prefix of the text to find, its longest
   proper border, although the memset leaves old entries behind. *)
IsBorder(b, k) == b < k /\ \A n \in 0 .. b - 1 : Comp(n) = Comp(k - b + n)

TableIsBorder ==
  phase = "search" =>
    \A k \in 2 .. Ahead - 1 :
      /\ IsBorder(table[k], k)
      /\ \A b \in table[k] + 1 .. k - 1 : ~IsBorder(b, k)

(* SearchData finds the longest match the window has, and the farthest of the
   longest, when the window is longer than the text to find. *)
MatchesAt(p, n) == \A k \in 0 .. n - 1 : Comp(k) = Ptr(p + k)

LongestMatch ==
  phase = "emit" /\ Ahead > 2 /\ Back > Ahead =>
    /\ MatchesAt(best, match)
    /\ \A p \in 0 .. Back - 1 :
         /\ match < Ahead => ~MatchesAt(p, match + 1)
         /\ p < best => ~MatchesAt(p, match)

(* The size CompressData records, which is all a Gameexe.dat holds of the code,
   is what DecompressData reads; decompress_data may read one control byte
   more, from the bytes CreateScenePck appends to every script. *)
RecordedIsRead ==
  /\ phase \in {"item", "copy", "decoded"} =>
       taken <= outlen + (IF reader = "decompress_data" THEN 1 ELSE 0)
  /\ phase = "decoded" /\ reader = "DecompressData" /\ len > 0 => taken = outlen

(* calloc(len * 4) holds the header and the code of any input of four bytes or
   more, the control byte and the literal past the end included. *)
References == Cardinality({n \in DOMAIN code : code[n].kind = "reference"})

FitsAllocation == len >= 4 => 8 + Len(code) + References <= 4 * len

(* Compression and decompression end: no search and no copy loops for ever. *)
Terminates == <>(phase = "decoded")
=============================================================================
