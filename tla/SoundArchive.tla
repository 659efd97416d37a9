---------------------------- MODULE SoundArchive ----------------------------
(***************************************************************************)
(* Unpacking the sound archives: the Unpack of UnpackOvk.h copies each     *)
(* entry to a file, that of UnpackNwk.h converts each entry, an NWA sound, *)
(* with the block decoder of nwa2wav.cpp, as that of UnpackNwa.h does for  *)
(* a sound alone in its file.  They write through StreamWriter (instance   *)
(* W): OVK takes a new one for each entry, NWK has one for all.            *)
(*                                                                         *)
(* The archive is a sequence of units, each a part of one entry: part 0 is *)
(* the NWA header with its table of offsets, the parts that follow are     *)
(* compressed blocks, or samples when the sound is raw.                    *)
(***************************************************************************)
EXTENDS Integers, Sequences, FiniteSets

CONSTANTS Kinds,       \* of "ovk", "nwk", "nwa"
          Formats,     \* NWAFlag, of "wav", "flac", "vorbis"
          MaxEntries,  \* bound: the entries of an archive
          MaxParts,    \* bound: the blocks or samples of a sound
          BlockSize,   \* the samples of a raw block
          Chunk,       \* 32 * 1024, what OVK reads at a time
          MaxStream    \* bound: the greatest stream

SoundAssumption ==
  /\ Kinds \subseteq {"ovk", "nwk", "nwa"} /\ Formats \subseteq {"wav", "flac", "vorbis"}
  /\ MaxEntries \in Nat /\ MaxParts \in Nat
  /\ BlockSize \in Nat \ {0} /\ Chunk \in Nat \ {0} /\ MaxStream \in Nat

(* Not compressed, of 16-bit stereo samples as on a CD, its parts behind the header. *)
Sounds  == [raw : BOOLEAN, cd : BOOLEAN, parts : 1 .. MaxParts]
Unit(e, k) == [of |-> e, part |-> k]
Junk    == Unit(0, 1)

VARIABLES
  kind, format,
  sounds,     \* the sound of each entry
  units,      \* the file of the archive
  table,      \* its entries: offset and size
  entry,      \* i, the entry being unpacked
  phase,      \* where Unpack is
  at,         \* the position of the archive file
  left,       \* sz, what is left of the entry to copy
  converting, \* which of the two calls of ConvertNwaToWav runs, 0 for neither
  header,     \* the entry whose header was read, 0 for a header of garbage
  curblock,
  stream, offset, sent, \* the StreamWriter and what was written to it
  saved,      \* the output files, by entry
  denied      \* history: the entries whose file could not be created

archive == <<kind, format, sounds, units, table>>
writer  == <<stream, offset, sent>>
vars    == <<archive, entry, phase, at, left, converting, header, curblock, writer, saved, denied>>

AllUnits == [of : 0 .. MaxEntries, part : 0 .. MaxParts]

W == INSTANCE StreamWriter WITH
       Bytes <- AllUnits, Zero <- Junk, MaxWrite <- MaxParts, MaxSize <- MaxStream,
       m_Stream <- stream, m_Offset <- offset, file <- sent

Own(e)  == [k \in 1 .. sounds[e].parts + 1 |-> Unit(e, k - 1)]
Range(first, size) == SubSeq(units, first + 1, IF first + size > Len(units)
                                               THEN Len(units) ELSE first + size)

(* A file: after the table (one unit, nothing for a sound alone) the sounds follow in the order of the
   table or in the reverse one.  The end of the file may be missing. *)
Sequel(s, order) ==
  LET f[n \in 0 .. Len(s)] ==
        IF n = 0 THEN <<Junk>>
        ELSE f[n - 1] \o [k \in 1 .. s[order[n]].parts + 1 |-> Unit(order[n], k - 1)]
  IN  f[Len(s)]

Position(u, e) == (CHOOSE p \in 1 .. Len(u) : u[p] = Unit(e, 0)) - 1

(* Mutant: an entry that ends with the file is taken for a bad one. *)
BadTouchingEnd(e) == table[e].off <= 0 \/ table[e].siz <= 0
                     \/ table[e].off + table[e].siz >= Len(units)

Bad(e) == table[e].off <= 0 \/ table[e].siz <= 0
          \/ table[e].off + table[e].siz > Len(units)

Init ==
  /\ kind \in Kinds /\ format \in Formats
  /\ sounds \in UNION {[1 .. n -> Sounds] : n \in 1 .. MaxEntries}
  /\ \E order \in {[n \in DOMAIN sounds |-> n], [n \in DOMAIN sounds |-> Len(sounds) + 1 - n]} :
       LET whole == Sequel(sounds, order) IN
       /\ table = [e \in DOMAIN sounds |-> [off |-> Position(whole, e),
                                            siz |-> sounds[e].parts + 1]]
       /\ \E lost \in 0 .. 1 : units = SubSeq(whole, 1, Len(whole) - lost)
  /\ kind = "nwa" => Len(sounds) = 1 /\ ~Bad(1)
  /\ entry = 1 /\ phase = "next" /\ at = 1 /\ left = 0
  /\ converting = 0 /\ header = 0 /\ curblock = -1
  /\ W!Init
  /\ saved = [e \in {} |-> <<>>] /\ denied = {}

(* The continue of a bad entry. *)
SkipEntry ==
  /\ phase = "next" /\ entry <= Len(table)
  /\ Bad(entry)
  /\ entry' = entry + 1
  /\ UNCHANGED <<archive, phase, at, left, converting, header, curblock, writer, saved, denied>>

Save(e, content) == saved' = [n \in DOMAIN saved \cup {e} |-> IF n = e THEN content ELSE saved[n]]

-----------------------------------------------------------------------------
(* OVK. *)

(* Mutant: one StreamWriter for all the entries. *)
KeepWriter == UNCHANGED writer

NewWriter == stream' = <<>> /\ offset' = 0 /\ sent' = <<>>

BeginCopy ==
  /\ kind = "ovk" /\ phase = "next" /\ entry <= Len(table) /\ ~Bad(entry)
  /\ NewWriter
  /\ \/ /\ at' = table[entry].off /\ left' = table[entry].siz
        /\ phase' = "copy" /\ UNCHANGED <<entry, denied>>
     \/ /\ entry' = entry + 1 /\ denied' = denied \cup {entry}
        /\ UNCHANGED <<at, left, phase>>
  /\ UNCHANGED <<archive, converting, header, curblock, saved>>

CopyChunk ==
  /\ phase = "copy" /\ left > 0
  /\ LET n == IF left > Chunk THEN Chunk ELSE left IN
     /\ W!Write(Range(at, n))
     /\ at' = at + n /\ left' = left - n
  /\ UNCHANGED <<archive, entry, phase, converting, header, curblock, saved, denied>>

EndCopy ==
  /\ phase = "copy" /\ left = 0
  /\ Save(entry, stream)
  /\ entry' = entry + 1 /\ phase' = "next"
  /\ UNCHANGED <<archive, at, left, converting, header, curblock, writer, denied>>

-----------------------------------------------------------------------------
(* NWK and the conversion of an NWA sound. *)

BeginConvert ==
  /\ kind # "ovk" /\ phase = "next" /\ entry <= Len(table) /\ ~Bad(entry)
  /\ at' = table[entry].off
  /\ converting' = 1 /\ phase' = "header"
  /\ UNCHANGED <<archive, entry, left, header, curblock, writer, saved, denied>>

AtHeader == at < Len(units) /\ units[at + 1].part = 0

(* ReadHeader and CheckHeader.  The second call gives no size, so the size of
   the archive is compared with that of the sound and a compressed sound is
   refused.  The result of the check is ignored, but for a compressed sound
   Decode fails without the buffer that the check allocates.  A header read
   from the middle of a sound, or past the end, may look like a raw one. *)
ReadHeader ==
  /\ phase = "header"
  /\ at' = at + 1 /\ curblock' = -1
  /\ IF AtHeader
     THEN /\ header' = units[at + 1].of
          /\ phase' = IF converting = 2 /\ ~sounds[header'].raw THEN "ended" ELSE "decode"
     ELSE header' = 0 /\ phase' \in {"decode", "ended"}
  /\ UNCHANGED <<archive, entry, left, converting, writer, saved, denied>>

Blocks == IF header = 0 THEN 1
          ELSE IF sounds[header].raw
          THEN (sounds[header].parts + BlockSize - 1) \div BlockSize
          ELSE sounds[header].parts

(* The first call of Decode: the WAV header. *)
DecodeHeader ==
  /\ phase = "decode" /\ curblock = -1
  /\ W!Write(<<IF header = 0 THEN Junk ELSE Unit(header, 0)>>)
  /\ curblock' = 0
  /\ UNCHANGED <<archive, entry, phase, at, left, converting, header, saved, denied>>

(* A raw block is as long as the file allows: also the last one is read whole,
   whatever restsize says, so what follows the sound comes with it. *)
DecodeRaw ==
  /\ phase = "decode" /\ curblock \in 0 .. Blocks - 1
  /\ header # 0 => sounds[header].raw
  /\ LET block == IF header = 0 THEN <<Junk>> ELSE Range(at, BlockSize) IN
     IF at >= Len(units)
     THEN phase' = "ended" /\ UNCHANGED <<at, curblock, writer>>
     ELSE /\ W!Write(block)
          /\ at' = at + Len(block) /\ curblock' = curblock + 1
          /\ UNCHANGED phase
  /\ UNCHANGED <<archive, entry, left, converting, header, saved, denied>>

(* The last block has no successor in the table of offsets: twice the size of
   a decoded block is read. *)
Advances == IF curblock = Blocks - 1 THEN 1 .. 2 ELSE {1}

DecodeBlock ==
  /\ phase = "decode" /\ curblock \in 0 .. Blocks - 1
  /\ header # 0 /\ ~sounds[header].raw
  /\ W!Write(<<IF at < Len(units) THEN units[at + 1] ELSE Junk>>)
  /\ \E n \in Advances : at' = IF at + n > Len(units) THEN Len(units) ELSE at + n
  /\ curblock' = curblock + 1
  /\ UNCHANGED <<archive, entry, phase, left, converting, header, saved, denied>>

EndDecode ==
  /\ phase = "decode" /\ curblock = Blocks
  /\ phase' = "ended"
  /\ UNCHANGED <<archive, entry, at, left, converting, header, curblock, writer, saved, denied>>

(* NWK converts to WAV again, from where the file now is. *)
Again == kind = "nwk" /\ format = "wav"

ConvertAgain ==
  /\ phase = "ended" /\ Again /\ converting = 1
  /\ converting' = 2 /\ phase' = "header"
  /\ UNCHANGED <<archive, entry, at, left, header, curblock, writer, saved, denied>>

(* The encoders read the WAV header at the head of the stream.  That of FLAC
   returns without a file unless it says 16-bit stereo, and encodes as many
   samples as it says; ... *)
HeadSound == sounds[stream[1].of]

Encodable == format = "flac" => HeadSound.cd

Flac == SubSeq(stream, 1, HeadSound.parts + 1)

(* ... that of Vorbis passes the header over and takes all that follows for
   16-bit stereo: other samples are garbled, and maybe all behind them, which
   need not begin at a sample. *)
Garbled(k) == k > 1 /\ stream[k].of # 0 /\ ~sounds[stream[k].of].cd

Vorbis(shifted) ==
  [k \in DOMAIN stream |->
     IF Garbled(k) \/ (shifted /\ \E j \in 1 .. k - 1 : Garbled(j)) THEN Junk ELSE stream[k]]

Output == CASE format = "wav"    -> {stream}
            [] format = "flac"   -> {Flac}
            [] format = "vorbis" -> {Vorbis(shifted) : shifted \in BOOLEAN}

EndConvert ==
  /\ phase = "ended" /\ (Again => converting = 2)
  /\ \/ Encodable /\ (\E content \in Output : Save(entry, content)) /\ UNCHANGED denied
     \/ Encodable /\ denied' = denied \cup {entry} /\ UNCHANGED saved
     \/ ~Encodable /\ UNCHANGED <<saved, denied>>
  /\ entry' = entry + 1 /\ phase' = "next" /\ converting' = 0
  /\ UNCHANGED <<archive, at, left, header, curblock, writer>>

-----------------------------------------------------------------------------
Ovk == BeginCopy \/ CopyChunk \/ EndCopy
Nwk == \/ BeginConvert \/ ReadHeader \/ DecodeHeader \/ DecodeRaw \/ DecodeBlock
       \/ EndDecode \/ ConvertAgain \/ EndConvert

Next == SkipEntry \/ Ovk \/ Nwk

Spec == Init /\ [][Next]_vars

-----------------------------------------------------------------------------
(* Properties. *)

StartsWith(s, t) == Len(t) <= Len(s) /\ SubSeq(s, 1, Len(t)) = t

(* Every file starts with the sound of its own entry. *)
OwnSound == \A e \in DOMAIN saved : StartsWith(saved[e], Own(e))

(* A file written to a stream of its own starts with the sound of its entry:
   the chunks of an OVK entry are copied whole and no earlier entry is left in
   them, and the blocks of a compressed sound are read from where they are,
   whatever the order of the sounds in the archive.  The stream of UnpackNWK is
   its own for the first entry only, and the Vorbis encoder garbles a sound that
   is not 16-bit stereo. *)
OwnSoundInOwnStream ==
  \A e \in DOMAIN saved :
    /\ kind = "nwk" => \A n \in 1 .. e - 1 : Bad(n)
    /\ kind # "ovk" /\ format = "vorbis" => sounds[e].cd
    => StartsWith(saved[e], Own(e))

(* A file that ends too early costs only the entries it cuts: of the entries
   passed, each one the file holds whole has been saved or was refused, but for
   those the FLAC encoder does not take: it judges them all by the first sound,
   whose header stays at the head of the stream. *)
Whole(e) == \A k \in DOMAIN Own(e) : \E p \in DOMAIN units : units[p] = Own(e)[k]

Leads(n) == ~Bad(n) /\ \A m \in 1 .. n - 1 : Bad(m)

Unfit(e) == kind # "ovk" /\ format = "flac" /\ \E n \in 1 .. e : Leads(n) /\ ~sounds[n].cd

NoneSkipped ==
  \A e \in 1 .. entry - 1 : Whole(e) => e \in DOMAIN saved \cup denied \/ Unfit(e)
=============================================================================
