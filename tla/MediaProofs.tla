----------------------------- MODULE MediaProofs -----------------------------
(***************************************************************************)
(* The stream in memory, the sound archives, the blocks of samples and the *)
(* videos, for all contents, sizes and bounds.                             *)
(***************************************************************************)
EXTENDS Media, SequenceLemmas, SequenceTheorems, TLAPS

USE StreamAssumption

(* Overwrite gives a sequence, as long as needed, with t in its place and s
   everywhere else. *)
LEMMA OverwriteFacts ==
  ASSUME NEW s \in Seq(Bytes), NEW t \in Seq(Bytes), NEW n \in 0 .. Len(s)
  PROVE  /\ Overwrite(s, n, t) \in Seq(Bytes)
         /\ Len(Overwrite(s, n, t)) = (IF n + Len(t) > Len(s) THEN n + Len(t) ELSE Len(s))
         /\ \A k \in 1 .. Len(Overwrite(s, n, t)) :
              Overwrite(s, n, t)[k] = IF k \in n + 1 .. n + Len(t) THEN t[k - n] ELSE s[k]
<1> DEFINE m == IF n + Len(t) > Len(s) THEN n + Len(t) ELSE Len(s)
           r == Overwrite(s, n, t)
<1>1. m \in Nat /\ r = [k \in 1 .. m |-> IF k \in n + 1 .. n + Len(t) THEN t[k - n] ELSE s[k]]
  BY DEF Overwrite
<1>2. \A k \in 1 .. m : r[k] \in Bytes
  BY <1>1
<1> HIDE DEF m
<1>3. r \in Seq(Bytes) /\ Len(r) = m
  BY <1>1, <1>2
<1> QED BY <1>1, <1>3 DEF m

(* What Write builds: the old vector but for the bytes written in place, and
   at least as long as the end of the write. *)
LEMMA WrittenFacts ==
  ASSUME m_Stream \in Seq(Bytes), m_Offset \in 0 .. Len(m_Stream),
         NEW b \in Seq(Bytes)
  PROVE  /\ Written(b) \in Seq(Bytes)
         /\ Len(Written(b)) >= Len(m_Stream)
         /\ Len(Written(b)) >= m_Offset + Len(b)
         /\ \A k \in 1 .. Len(m_Stream) : k \notin m_Offset + 1 .. m_Offset + Len(b) =>
              Written(b)[k] = m_Stream[k]
         /\ \A k \in m_Offset + 1 .. m_Offset + Len(b) : Written(b)[k] = b[k - m_Offset]
<1> DEFINE short == m_Offset + Len(b) - Len(m_Stream)
           pad   == IF short > 0 THEN Zeros(short) ELSE <<>>
           grown == m_Stream \o pad
<1>1. pad \in Seq(Bytes)
  BY DEF Zeros
<1> HIDE DEF pad
<1>2. /\ grown \in Seq(Bytes) /\ Len(grown) >= Len(m_Stream)
      /\ \A k \in 1 .. Len(m_Stream) : grown[k] = m_Stream[k]
  BY <1>1
<1> HIDE DEF grown
<1>3. /\ grown \o b \in Seq(Bytes) /\ Len(grown \o b) >= Len(m_Stream)
      /\ \A k \in 1 .. Len(m_Stream) : (grown \o b)[k] = m_Stream[k]
  BY <1>2
<1> DEFINE all == grown \o b
<1>4. Written(b) = Overwrite(all, m_Offset, b)
  BY DEF Written, grown, pad
<1>5. /\ all \in Seq(Bytes) /\ m_Offset \in 0 .. Len(all) /\ Len(all) >= Len(m_Stream)
      /\ \A k \in 1 .. Len(m_Stream) : all[k] = m_Stream[k]
  BY <1>3
<1> HIDE DEF all
<1>6. /\ Written(b) \in Seq(Bytes)
      /\ Len(Written(b)) = (IF m_Offset + Len(b) > Len(all) THEN m_Offset + Len(b) ELSE Len(all))
      /\ \A k \in 1 .. Len(Written(b)) : Written(b)[k] =
           IF k \in m_Offset + 1 .. m_Offset + Len(b) THEN b[k - m_Offset] ELSE all[k]
  BY <1>4, <1>5, OverwriteFacts
<1>7. Len(Written(b)) >= Len(m_Stream) /\ Len(Written(b)) >= m_Offset + Len(b)
  BY <1>5, <1>6
<1>8. \A k \in 1 .. Len(m_Stream) : k \notin m_Offset + 1 .. m_Offset + Len(b) =>
        Written(b)[k] = m_Stream[k]
  <2> SUFFICES ASSUME NEW k \in 1 .. Len(m_Stream),
                      k \notin m_Offset + 1 .. m_Offset + Len(b)
               PROVE  Written(b)[k] = m_Stream[k]
    OBVIOUS
  <2>1. k \in 1 .. Len(Written(b))
    BY <1>6, <1>7
  <2> QED BY <2>1, <1>5, <1>6
<1>9. \A k \in m_Offset + 1 .. m_Offset + Len(b) : Written(b)[k] = b[k - m_Offset]
  <2> SUFFICES ASSUME NEW k \in m_Offset + 1 .. m_Offset + Len(b)
               PROVE  Written(b)[k] = b[k - m_Offset]
    OBVIOUS
  <2>1. k \in 1 .. Len(Written(b))
    BY <1>6, <1>7
  <2> QED BY <2>1, <1>6
<1> HIDE DEF short
<1> QED BY <1>6, <1>7, <1>8, <1>9

(* The offset never leaves the file the client meant to write. *)
OffsetInFile == m_Offset <= Len(file)

(* The members and the history keep their types and the offset stays in the
   file. *)
THEOREM StreamTypes == Spec => [](TypeOK /\ OffsetInFile /\ HeadIsFile)
<1> DEFINE Inv == TypeOK /\ OffsetInFile /\ HeadIsFile
<1>1. Init => Inv
  BY DEF Init, TypeOK, OffsetInFile, HeadIsFile
<1>2. Inv /\ [Next]_vars => Inv'
  <2> SUFFICES ASSUME Inv, [Next]_vars PROVE Inv'
    OBVIOUS
  <2> USE DEF TypeOK, OffsetInFile, HeadIsFile
  <2>1. ASSUME NEW b \in Buffers, Write(b) PROVE Inv'
    <3>1. b \in Seq(Bytes)
      BY DEF Buffers
    <3>2. m_Offset \in 0 .. Len(m_Stream) /\ m_Offset \in 0 .. Len(file)
      OBVIOUS
    <3>3. m_Stream' = Written(b) /\ m_Offset' = m_Offset + Len(b)
          /\ file' = Overwrite(file, m_Offset, b)
      BY <2>1 DEF Write
    <3>4. /\ Written(b) \in Seq(Bytes)
          /\ Len(Written(b)) >= Len(m_Stream)
          /\ Len(Written(b)) >= m_Offset + Len(b)
          /\ \A k \in 1 .. Len(m_Stream) : k \notin m_Offset + 1 .. m_Offset + Len(b) =>
               Written(b)[k] = m_Stream[k]
          /\ \A k \in m_Offset + 1 .. m_Offset + Len(b) : Written(b)[k] = b[k - m_Offset]
      BY <3>1, <3>2, WrittenFacts
    <3>5. /\ file' \in Seq(Bytes)
          /\ Len(file') = (IF m_Offset + Len(b) > Len(file) THEN m_Offset + Len(b) ELSE Len(file))
          /\ \A k \in 1 .. Len(file') : file'[k] =
               IF k \in m_Offset + 1 .. m_Offset + Len(b) THEN b[k - m_Offset] ELSE file[k]
      BY <3>1, <3>2, <3>3, OverwriteFacts
    <3>6. TypeOK' /\ OffsetInFile'
      BY <3>1, <3>2, <3>3, <3>4, <3>5
    <3>7. Len(file') <= Len(m_Stream')
      BY <3>2, <3>3, <3>4, <3>5
    <3>8. ASSUME NEW k \in 1 .. Len(file') PROVE m_Stream'[k] = file'[k]
      <4>1. CASE k \in m_Offset + 1 .. m_Offset + Len(b)
        BY <3>3, <3>4, <3>5, <4>1
      <4>2. CASE k \notin m_Offset + 1 .. m_Offset + Len(b)
        BY <3>1, <3>2, <3>3, <3>4, <3>5, <4>2
      <4> QED BY <4>1, <4>2
    <3> QED BY <3>6, <3>7, <3>8
  <2>2. ASSUME NEW p \in 0 .. Len(file), Seek(p) PROVE Inv'
    BY <2>2 DEF Seek
  <2>3. ASSUME NEW n \in 1 .. Len(file) - m_Offset, Read(n) PROVE Inv'
    BY <2>3 DEF Read
  <2>4. CASE UNCHANGED vars
    BY <2>4 DEF vars
  <2> QED BY <2>1, <2>2, <2>3, <2>4 DEF Next
<1> QED BY <1>1, <1>2, PTL DEF Spec

(* Whatever a client wrote and sought back, the head of the buffer is the file
   it meant to write. *)
THEOREM HeadCorrect == Spec => []HeadIsFile
BY StreamTypes, PTL

HIDE StreamAssumption

-----------------------------------------------------------------------------
(* ExtractOmvTypeUnk: the copy of a video.  What was copied and the next chunk
   are what was copied then. *)
LEMMA ContentGrows ==
  ASSUME NEW p \in Nat, NEW n \in Nat
  PROVE  Video!Content(0, p) \o Video!Content(p, n) = Video!Content(0, p + n)
<1> DEFINE At(u) == Video!Unit(1 + (u \div pagesize), 1 + (u % pagesize))
           S == {At(u) : u \in Int}
           a == Video!Content(0, p)
           b == Video!Content(p, n)
           c == Video!Content(0, p + n)
<1>1. /\ a = [k \in 1 .. p |-> At(k - 1)]
      /\ b = [k \in 1 .. n |-> At(p + k - 1)]
      /\ c = [k \in 1 .. p + n |-> At(k - 1)]
  BY DEF Video!Content
<1> HIDE DEF a, b, c, At
<1>2. \A u \in Int : At(u) \in S
  OBVIOUS
<1> HIDE DEF S
<1>3. /\ a \in Seq(S) /\ Len(a) = p
      /\ b \in Seq(S) /\ Len(b) = n
      /\ c \in Seq(S) /\ Len(c) = p + n
  BY <1>1, <1>2
<1>4. /\ a \o b \in Seq(S) /\ Len(a \o b) = p + n
      /\ \A k \in 1 .. p + n : (a \o b)[k] = IF k <= p THEN a[k] ELSE b[k - p]
  BY <1>3, ConcatProperties
<1>5. \A k \in 1 .. p + n : (a \o b)[k] = c[k]
  <2> TAKE k \in 1 .. p + n
  <2>1. CASE k <= p
    BY <1>1, <1>4, <2>1
  <2>2. CASE ~(k <= p)
    <3>1. k - p \in 1 .. n /\ p + (k - p) - 1 = k - 1
      BY <2>2
    <3>2. b[k - p] = At(k - 1)
      BY <1>1, <3>1
    <3> QED BY <1>1, <1>4, <2>2, <3>2
  <2> QED BY <2>1, <2>2
<1>6. a \o b = c
  BY <1>3, <1>4, <1>5, SeqEqual
<1> QED BY <1>6 DEF a, b, c

(* Where the copy is in the file. *)
CopyInv ==
  OGVFlag = "decode" =>
    /\ vphase \in {"copy", "done", "refused"}
    /\ filesize \in Nat /\ position \in 0 .. filesize
    /\ video = Video!Content(0, position)
    /\ vphase = "done" => position = filesize

(* The copy of a video is the video, as far as the file has it, for every size
   of the file and of what is read at a time. *)
THEOREM VideoIsCopied == MediaSpec => []CopyIsVideo
<1> DEFINE Inv == program = "video" => CopyInv
<1>1. MediaInit => Inv
  <2> SUFFICES ASSUME Video!Init, OGVFlag = "decode"
               PROVE  CopyInv
    BY DEF MediaInit, CopyInv
  <2>1. PICK head \in Video!Heads, n \in 0 .. MaxPages :
          \E kinds \in [1 .. n -> Video!PageKinds] : pages = head \o <<Video!Setup>> \o Video!Body(kinds)
    BY DEF Video!Init
  <2>2. PICK kinds \in [1 .. n -> Video!PageKinds] : pages = head \o <<Video!Setup>> \o Video!Body(kinds)
    BY <2>1
  <2>3. Len(pages) \in Nat /\ Len(pages) >= 1
    <3> DEFINE B == Video!Body(kinds)
               T == {B[k] : k \in 1 .. n}
    <3>1. n \in Nat /\ DOMAIN kinds = 1 .. n
      BY MediaAssumption DEF Video!VideoAssumption
    <3>2. B = [k \in 1 .. n |-> B[k]]
      <4>1. B = [k \in DOMAIN kinds |-> B[k]]
        BY DEF Video!Body
      <4> QED BY <3>1, <4>1
    <3>3. \E p, q : head = <<p>> \/ head = <<p, q>>
      BY DEF Video!Heads
    <3>4. PICK p, q : head = <<p>> \/ head = <<p, q>>
      BY <3>3
    <3> HIDE DEF B
    <3>5. B \in [1 .. n -> T]
      BY <3>2
    <3> DEFINE S == T \cup {p, q, Video!Setup}
    <3>6. T \subseteq S /\ p \in S /\ q \in S /\ Video!Setup \in S
      OBVIOUS
    <3>7. B \in [1 .. n -> S]
      BY <3>5, <3>6
    <3> HIDE DEF S, T
    <3>8. B \in Seq(S) /\ head \in Seq(S) /\ Len(head) \in {1, 2} /\ <<Video!Setup>> \in Seq(S)
      <4>1. B \in Seq(S)
        BY <3>1, <3>7
      <4>2. head \in Seq(S) /\ Len(head) \in {1, 2}
        <5>1. <<p>> \in Seq(S) /\ Len(<<p>>) = 1
          BY <3>6
        <5>2. <<p, q>> \in Seq(S) /\ Len(<<p, q>>) = 2
          BY <3>6
        <5>3. CASE head = <<p>>
          BY <5>1, <5>3
        <5>4. CASE head = <<p, q>>
          BY <5>2, <5>4
        <5> QED BY <3>4, <5>3, <5>4
      <4>3. <<Video!Setup>> \in Seq(S)
        BY <3>6
      <4> QED BY <4>1, <4>2, <4>3
    <3>9. head \o <<Video!Setup>> \in Seq(S) /\ Len(head \o <<Video!Setup>>) = Len(head) + 1
      BY <3>8
    <3> QED BY <2>2, <3>8, <3>9 DEF B
  <2>4. pagesize \in Nat \ {0} /\ Video!Whole \in Nat \ {0}
    BY <2>3, MediaAssumption DEF Video!Init, Video!VideoAssumption, Video!Whole
  <2>5. filesize \in Nat
    BY <2>4 DEF Video!Init
  <2>6. Video!Content(0, 0) = <<>>
    BY DEF Video!Content
  <2> QED BY <2>5, <2>6 DEF Video!Init, CopyInv
<1>2. Inv /\ [MediaNext]_mediavars => Inv'
  <2> SUFFICES ASSUME CopyInv, Video!Next \/ UNCHANGED Video!vvars, OGVFlag' = "decode"
               PROVE  CopyInv'
    BY DEF MediaNext, mediavars, videovars, CopyInv, Video!vvars, Video!film, Video!ogg
  <2>1. CASE Video!Copy
    <3>1. UNCHANGED <<OGVFlag, pages, pagesize, filesize>> /\ vphase = "copy"
      BY <2>1 DEF Video!Copy, Video!film
    <3>2. CASE position < filesize
      <4>1. /\ video' = video \o Video!Content(position, Video!NeedRead)
            /\ position' = position + Video!NeedRead /\ vphase' = vphase
        BY <2>1, <3>2 DEF Video!Copy
      <4>2. Video!NeedRead \in Nat /\ position + Video!NeedRead <= filesize
        BY <3>1, <3>2, MediaAssumption DEF CopyInv, Video!VideoAssumption, Video!NeedRead, Video!Least
      <4>3. video' = Video!Content(0, position')
        <5>1. position \in Nat /\ video = Video!Content(0, position)
          BY <3>1 DEF CopyInv
        <5> QED BY <4>1, <4>2, <5>1, ContentGrows
      <4>4. Video!Content(0, position)' = Video!Content(0, position')
        BY <3>1 DEF Video!Content, Video!Unit
      <4> QED BY <3>1, <4>1, <4>2, <4>3, <4>4 DEF CopyInv
    <3>3. CASE ~(position < filesize)
      BY <2>1, <3>1, <3>3 DEF CopyInv, Video!Copy, Video!Content, Video!Unit
    <3> QED BY <3>2, <3>3
  <2>2. CASE UNCHANGED Video!vvars
    BY <2>2 DEF CopyInv, Video!vvars, Video!film, Video!Content, Video!Unit
  <2>3. CASE Video!RefuseCopy
    BY <2>3 DEF CopyInv, Video!RefuseCopy, Video!film, Video!Content, Video!Unit
  <2>4. ~(Video!Next /\ ~Video!Copy /\ ~Video!RefuseCopy)
    BY DEF CopyInv, Video!Next, Video!BosRead, Video!BosPage, Video!HeaderPacket, Video!HeaderPage,
           Video!HeaderRead, Video!InitDecoder, Video!QueueRest, Video!DecodePacket, Video!EndOfVideo,
           Video!ReadMore, Video!QueuePages, Video!WriteFrame, Video!film
  <2> QED BY <2>1, <2>2, <2>3, <2>4
<1>3. Inv => CopyIsVideo
  BY DEF CopyInv, CopyIsVideo, Video!CopyIsVideo
<1> QED BY <1>1, <1>2, <1>3, PTL DEF MediaSpec

-----------------------------------------------------------------------------
(* The sound archives.  Sequel lays down the table, one unit, and the sounds in
   their order: as sequences one behind the other, the table is the first. *)
Parcel(s, order, n) ==
  IF n = 1 THEN <<Sound!Junk>>
  ELSE [k \in 1 .. s[order[n - 1]].parts + 1 |-> Sound!Unit(order[n - 1], k - 1)]

Parcels(s, order) == [n \in 1 .. Len(s) + 1 |-> Parcel(s, order, n)]

UnitSet == [of : Nat, part : Nat]

(* An order in which the sounds of an archive lie: its own inverse. *)
Involutive(order, n) ==
  /\ order \in [1 .. n -> 1 .. n]
  /\ \A k \in 1 .. n : order[order[k]] = k

LEMMA ParcelsTyped ==
  ASSUME NEW n \in Nat, NEW s \in [1 .. n -> Sound!Sounds], NEW order, Involutive(order, n)
  PROVE  /\ Len(s) = n
         /\ Pieces(UnitSet, Parcels(s, order), n + 1)
         /\ Parcels(s, order)[1] = <<Sound!Junk>>
         /\ \A k \in 1 .. n :
              /\ s[order[k]].parts \in Nat
              /\ Len(Parcels(s, order)[k + 1]) = s[order[k]].parts + 1
              /\ \A j \in 1 .. s[order[k]].parts + 1 :
                   Parcels(s, order)[k + 1][j] = Sound!Unit(order[k], j - 1)
<1>1. Len(s) = n
  OBVIOUS
<1>2. \A k \in 1 .. n + 1 : Parcels(s, order)[k] = Parcel(s, order, k)
  BY <1>1 DEF Parcels
<1>3. Parcel(s, order, 1) = <<Sound!Junk>> /\ <<Sound!Junk>> \in Seq(UnitSet)
  BY DEF Parcel, Sound!Junk, Sound!Unit, UnitSet
<1>4. ASSUME NEW k \in 1 .. n
      PROVE  /\ s[order[k]].parts \in Nat
             /\ Parcel(s, order, k + 1) \in Seq(UnitSet)
             /\ Len(Parcel(s, order, k + 1)) = s[order[k]].parts + 1
             /\ \A j \in 1 .. s[order[k]].parts + 1 :
                  Parcel(s, order, k + 1)[j] = Sound!Unit(order[k], j - 1)
  <2>1. order[k] \in 1 .. n
    BY DEF Involutive
  <2>2. s[order[k]] \in Sound!Sounds
    BY <2>1
  <2>3. PICK m \in Nat : m = s[order[k]].parts
    BY <2>2, MediaAssumption DEF Sound!Sounds, Sound!SoundAssumption
  <2>4. k + 1 # 1 /\ (k + 1) - 1 = k
    OBVIOUS
  <2>5. Parcel(s, order, k + 1) = [j \in 1 .. m + 1 |-> Sound!Unit(order[k], j - 1)]
    BY <2>3, <2>4 DEF Parcel
  <2>6. \A j \in 1 .. m + 1 : Sound!Unit(order[k], j - 1) \in UnitSet
    BY <2>1 DEF Sound!Unit, UnitSet
  <2>7. /\ Parcel(s, order, k + 1) \in Seq(UnitSet) /\ Len(Parcel(s, order, k + 1)) = m + 1
        /\ \A j \in 1 .. m + 1 : Parcel(s, order, k + 1)[j] = Sound!Unit(order[k], j - 1)
    BY <2>5, <2>6
  <2> QED BY <2>3, <2>7
<1>5. \A k \in 1 .. n + 1 : Parcels(s, order)[k] \in Seq(UnitSet)
  <2> TAKE k \in 1 .. n + 1
  <2>1. CASE k = 1
    BY <1>2, <1>3, <2>1
  <2>2. CASE k # 1
    <3>1. k - 1 \in 1 .. n /\ (k - 1) + 1 = k
      BY <2>2
    <3> QED BY <1>2, <1>4, <3>1
  <2> QED BY <2>1, <2>2
<1>6. 1 \in 1 .. n + 1 /\ \A k \in 1 .. n : k + 1 \in 1 .. n + 1
  OBVIOUS
<1> QED BY <1>1, <1>2, <1>3, <1>4, <1>5, <1>6 DEF Pieces

(* Sequel computes what Flat describes. *)
LEMMA SequelFlat ==
  ASSUME NEW n \in Nat, NEW s, Len(s) = n, NEW order
  PROVE  \E f : Flat(Parcels(s, order), f, n + 1) /\ Sound!Sequel(s, order) = f[n + 1]
<1> DEFINE Rec(h) == h = [m \in 0 .. n |->
                            IF m = 0 THEN <<Sound!Junk>>
                            ELSE h[m - 1] \o [k \in 1 .. s[order[m]].parts + 1 |-> Sound!Unit(order[m], k - 1)]]
           all == Parcels(s, order)
<1>1. PICK f : Flat(all, f, n + 1)
  <2>1. n + 1 \in Nat
    OBVIOUS
  <2> HIDE DEF all
  <2> QED BY <2>1, FlatExists
<1> DEFINE g == [m \in 0 .. n |-> f[m + 1]]
<1>2. \A k \in 1 .. n + 1 : f[k] = IF k = 1 THEN <<Sound!Junk>> ELSE f[k - 1] \o Parcel(s, order, k)
  <2> TAKE k \in 1 .. n + 1
  <2>1. f[k] = IF k = 1 THEN all[k] ELSE f[k - 1] \o all[k]
    <3> HIDE DEF all
    <3> QED BY <1>1 DEF Flat
  <2>2. all[k] = Parcel(s, order, k)
    BY DEF Parcels
  <2>3. Parcel(s, order, 1) = <<Sound!Junk>>
    BY DEF Parcel
  <2> HIDE DEF all
  <2> QED BY <2>1, <2>2, <2>3
<1>3. \E h : Rec(h)
  <2>1. \A m \in 0 .. n : g[m] = IF m = 0 THEN <<Sound!Junk>> ELSE g[m - 1]
          \o [k \in 1 .. s[order[m]].parts + 1 |-> Sound!Unit(order[m], k - 1)]
    <3> TAKE m \in 0 .. n
    <3>1. m + 1 \in 1 .. n + 1 /\ g[m] = f[m + 1] /\ (m = 0 <=> m + 1 = 1) /\ (m + 1) - 1 = m
      OBVIOUS
    <3>2. m # 0 => m - 1 \in 0 .. n /\ (m - 1) + 1 = m
      OBVIOUS
    <3>3. m # 0 => g[m - 1] = f[m]
      BY <3>2
    <3>4. m # 0 => Parcel(s, order, m + 1) = [k \in 1 .. s[order[m]].parts + 1 |-> Sound!Unit(order[m], k - 1)]
      BY <3>1 DEF Parcel
    <3> HIDE DEF g
    <3> QED BY <1>2, <3>1, <3>3, <3>4
  <2>2. g = [m \in 0 .. n |-> g[m]]
    OBVIOUS
  <2> HIDE DEF g
  <2>3. Rec(g)
    BY <2>1, <2>2
  <2> HIDE DEF Rec
  <2> QED BY <2>3
<1> DEFINE h == CHOOSE x : Rec(x)
           r == [k \in 1 .. n + 1 |-> h[k - 1]]
<1>4. Rec(h)
  <2> HIDE DEF Rec
  <2> QED BY <1>3
<1>5. Sound!Sequel(s, order) = h[n]
  BY DEF Sound!Sequel
<1> HIDE DEF h
<1>6. \A k \in 1 .. n + 1 : r[k] = IF k = 1 THEN all[k] ELSE r[k - 1] \o all[k]
  <2> TAKE k \in 1 .. n + 1
  <2>1. k - 1 \in 0 .. n /\ r[k] = h[k - 1] /\ (k = 1 <=> k - 1 = 0)
    OBVIOUS
  <2>2. h[k - 1] = IF k - 1 = 0 THEN <<Sound!Junk>> ELSE h[(k - 1) - 1]
          \o [i \in 1 .. s[order[k - 1]].parts + 1 |-> Sound!Unit(order[k - 1], i - 1)]
    BY <1>4, <2>1
  <2>3. k # 1 => k - 1 \in 1 .. n + 1 /\ r[k - 1] = h[(k - 1) - 1]
    OBVIOUS
  <2>4. all[k] = Parcel(s, order, k)
    BY DEF Parcels
  <2>5. Parcel(s, order, k) = IF k = 1 THEN <<Sound!Junk>>
          ELSE [i \in 1 .. s[order[k - 1]].parts + 1 |-> Sound!Unit(order[k - 1], i - 1)]
    BY DEF Parcel
  <2> HIDE DEF r, all
  <2> QED BY <2>1, <2>2, <2>3, <2>4, <2>5
<1>7. Flat(all, r, n + 1)
  <2>1. r = [k \in 1 .. n + 1 |-> r[k]]
    OBVIOUS
  <2> HIDE DEF r, all
  <2> QED BY <1>6, <2>1 DEF Flat
<1>8. r[n + 1] = h[n]
  <2>1. n + 1 \in 1 .. n + 1 /\ (n + 1) - 1 = n
    OBVIOUS
  <2> QED BY <2>1
<1> QED BY <1>5, <1>7, <1>8

(* Where the sounds lie in the file: each in one piece, behind the table, and
   no unit of it anywhere else. *)
Lies(u, e, off, parts) ==
  /\ off \in Nat \ {0}
  /\ off + parts + 1 <= Len(u)
  /\ \A k \in 0 .. parts : u[off + 1 + k] = Sound!Unit(e, k)
  /\ \A q \in 1 .. Len(u) : u[q].of = e => q = off + 1 + u[q].part

LEMMA PositionFound ==
  ASSUME NEW u \in Seq(UnitSet), NEW e, NEW off, NEW parts \in Nat, Lies(u, e, off, parts)
  PROVE  Sound!Position(u, e) = off
<1>1. off \in Nat /\ off + parts + 1 <= Len(u) /\ Len(u) \in Nat
  BY DEF Lies
<1>2. off + 1 \in 1 .. Len(u)
  BY <1>1
<1>3. u[off + 1] = Sound!Unit(e, 0)
  <2>1. 0 \in 0 .. parts /\ off + 1 + 0 = off + 1
    BY <1>1
  <2> QED BY <2>1 DEF Lies
<1>4. ASSUME NEW q \in 1 .. Len(u), u[q] = Sound!Unit(e, 0)
      PROVE  q = off + 1
  <2>1. u[q].of = e /\ u[q].part = 0
    BY <1>4 DEF Sound!Unit
  <2>2. q = off + 1 + u[q].part
    BY <2>1 DEF Lies
  <2> QED BY <1>1, <2>1, <2>2
<1> DEFINE p == CHOOSE q \in 1 .. Len(u) : u[q] = Sound!Unit(e, 0)
<1>5. p \in 1 .. Len(u) /\ u[p] = Sound!Unit(e, 0)
  BY <1>2, <1>3
<1>6. Sound!Position(u, e) = p - 1
  BY DEF Sound!Position
<1> HIDE DEF p
<1> QED BY <1>1, <1>4, <1>5, <1>6

LEMMA SoundsLie ==
  ASSUME NEW n \in Nat, NEW s \in [1 .. n -> Sound!Sounds], NEW order, Involutive(order, n)
  PROVE  /\ Sound!Sequel(s, order) \in Seq(UnitSet)
         /\ \A e \in 1 .. n :
              Lies(Sound!Sequel(s, order), e, Sound!Position(Sound!Sequel(s, order), e), s[e].parts)
<1> DEFINE all   == Parcels(s, order)
           whole == Sound!Sequel(s, order)
<1>1. /\ Len(s) = n
      /\ Pieces(UnitSet, all, n + 1)
      /\ all[1] = <<Sound!Junk>>
      /\ \A k \in 1 .. n :
           /\ s[order[k]].parts \in Nat
           /\ Len(all[k + 1]) = s[order[k]].parts + 1
           /\ \A j \in 1 .. s[order[k]].parts + 1 : all[k + 1][j] = Sound!Unit(order[k], j - 1)
  BY ParcelsTyped
<1>2. PICK f : Flat(all, f, n + 1) /\ whole = f[n + 1]
  BY <1>1, SequelFlat
<1> HIDE DEF all, whole
<1>3. n + 1 \in Nat /\ n + 1 > 0 /\ n + 1 \in 1 .. n + 1
  OBVIOUS
<1>4. whole \in Seq(UnitSet)
  BY <1>1, <1>2, <1>3, FlatType DEF Pieces
<1>5. ASSUME NEW k \in 1 .. n + 1
      PROVE  /\ Start(f, k) \in Nat
             /\ Start(f, k) + Len(all[k]) <= Len(whole)
             /\ \A j \in 1 .. Len(all[k]) : whole[Start(f, k) + j] = all[k][j]
             /\ k < n + 1 => Start(f, k + 1) = Start(f, k) + Len(all[k])
  BY <1>1, <1>2, <1>3, FlatPlaces
<1>6. ASSUME NEW q \in 1 .. Len(whole)
      PROVE  \E k \in 1 .. n + 1 : \E j \in 1 .. Len(all[k]) : q = Start(f, k) + j
  <2>1. q \in 1 .. Len(f[n + 1])
    BY <1>2
  <2>2. \A m \in Nat : Flat(all, f, m) /\ Pieces(UnitSet, all, m) /\ m > 0 /\ q \in 1 .. Len(f[m]) =>
          \E k \in 1 .. m : \E j \in 1 .. Len(all[k]) : q = Start(f, k) + j
    BY FlatLocates
  <2> QED BY <1>1, <1>2, <1>3, <2>1, <2>2
<1>7. Len(all[1]) = 1 /\ Start(f, 1) = 0 /\ all[1][1] = Sound!Junk
  BY <1>1 DEF Start
<1>8. \A k \in 2 .. n + 1 : Start(f, k) >= 1
  <2> DEFINE T == {k \in 2 .. n + 1 : ~(Start(f, k) >= 1)}
  <2> SUFFICES ASSUME T # {} PROVE FALSE
    OBVIOUS
  <2>1. T \subseteq Nat
    OBVIOUS
  <2>2. PICK k \in T : \A i \in T : k <= i
    BY <2>1, Least
  <2>3. k \in 2 .. n + 1 /\ ~(Start(f, k) >= 1)
    BY <2>2
  <2>4. PICK m \in Nat : m = k - 1
    BY <2>3
  <2>5. m \in 1 .. n + 1 /\ m < n + 1 /\ m + 1 = k
    BY <2>3, <2>4
  <2>6. Start(f, k) = Start(f, m) + Len(all[m]) /\ Start(f, m) \in Nat
    BY <1>5, <2>5
  <2>7. Len(all[m]) \in Nat
    BY <1>1, <2>5 DEF Pieces
  <2>8. CASE m = 1
    BY <1>7, <2>3, <2>6, <2>8
  <2>9. CASE m # 1
    <3>1. m \in 2 .. n + 1 /\ ~(k <= m)
      BY <2>3, <2>5, <2>9
    <3>2. Start(f, m) >= 1
      BY <2>2, <3>1
    <3> HIDE DEF T
    <3> QED BY <2>3, <2>6, <2>7, <3>2
  <2> QED BY <2>8, <2>9
<1>9. ASSUME NEW e \in 1 .. n
      PROVE  Lies(whole, e, Start(f, order[e] + 1), s[e].parts)
  <2>1. PICK k \in 1 .. n : k = order[e] /\ order[k] = e
    BY DEF Involutive
  <2>2. k + 1 \in 2 .. n + 1 /\ k + 1 \in 1 .. n + 1
    OBVIOUS
  <2>3. PICK p \in Nat, off \in Nat : p = s[e].parts /\ off = Start(f, k + 1)
    BY <1>1, <1>5, <2>1, <2>2
  <2>4. Len(all[k + 1]) = p + 1 /\ \A j \in 1 .. p + 1 : all[k + 1][j] = Sound!Unit(e, j - 1)
    BY <1>1, <2>1, <2>3
  <2>5. /\ off >= 1
        /\ off + (p + 1) <= Len(whole)
        /\ \A j \in 1 .. p + 1 : whole[off + j] = Sound!Unit(e, j - 1)
    BY <1>5, <1>8, <2>2, <2>3, <2>4
  <2>6. off + p + 1 <= Len(whole)
    BY <2>5, <1>4
  <2>7. ASSUME NEW i \in 0 .. p PROVE whole[off + 1 + i] = Sound!Unit(e, i)
    <3>1. i + 1 \in 1 .. p + 1 /\ off + (i + 1) = off + 1 + i /\ (i + 1) - 1 = i
      OBVIOUS
    <3> QED BY <2>5, <3>1
  <2>8. ASSUME NEW q \in 1 .. Len(whole), whole[q].of = e
        PROVE  q = off + 1 + whole[q].part
    <3>1. PICK l \in 1 .. n + 1 : \E j \in 1 .. Len(all[l]) : q = Start(f, l) + j
      BY <1>6
    <3>2. PICK j \in 1 .. Len(all[l]) : q = Start(f, l) + j
      BY <3>1
    <3>3. whole[q] = all[l][j]
      BY <1>5, <3>2
    <3>4. CASE l = 1
      <4>1. j = 1
        <5>1. Len(all[l]) = 1
          BY <1>7, <3>4
        <5>2. j \in 1 .. 1
          BY <5>1
        <5> QED BY <5>2
      <4>2. whole[q].of = 0
        BY <1>7, <3>3, <3>4, <4>1 DEF Sound!Junk, Sound!Unit
      <4> QED BY <2>8, <4>2
    <3>5. CASE l # 1
      <4>1. PICK m \in 1 .. n : m + 1 = l
        <5>1. l - 1 \in 1 .. n /\ (l - 1) + 1 = l
          BY <3>5
        <5> QED BY <5>1
      <4>2. Len(all[m + 1]) = s[order[m]].parts + 1
            /\ \A i \in 1 .. s[order[m]].parts + 1 : all[m + 1][i] = Sound!Unit(order[m], i - 1)
        BY <1>1
      <4>3. whole[q] = Sound!Unit(order[m], j - 1)
        BY <3>2, <3>3, <4>1, <4>2
      <4>4. order[m] = e /\ whole[q].part = j - 1
        BY <2>8, <4>3 DEF Sound!Unit
      <4>5. m = k
        BY <2>1, <4>4 DEF Involutive
      <4>6. j \in Nat
        <5>1. all[l] \in Seq(UnitSet)
          BY <1>1 DEF Pieces
        <5> QED BY <3>2, <5>1
      <4>7. q = off + j
        BY <2>3, <3>2, <4>1, <4>5
      <4> QED BY <4>4, <4>6, <4>7
    <3> QED BY <3>4, <3>5
  <2>9. Lies(whole, e, off, p)
    BY <2>3, <2>5, <2>6, <2>7, <2>8 DEF Lies
  <2> QED BY <2>1, <2>3, <2>9
<1>10. ASSUME NEW e \in 1 .. n
       PROVE  Lies(whole, e, Sound!Position(whole, e), s[e].parts)
  <2>1. s[e].parts \in Nat
    BY <1>1 DEF Involutive
  <2>2. Sound!Position(whole, e) = Start(f, order[e] + 1)
    BY <1>4, <1>9, <2>1, PositionFound
  <2> QED BY <1>9, <2>2
<1> QED BY <1>4, <1>10 DEF whole

-----------------------------------------------------------------------------
(* The archive, which no step changes: each sound lies where the table says, as
   far as the file goes, and no unit of it lies elsewhere. *)
ArchiveLies ==
  /\ Len(sounds) \in Nat /\ sounds \in [1 .. Len(sounds) -> Sound!Sounds]
  /\ Len(table) = Len(sounds)
  /\ units \in Seq(UnitSet)
  /\ kind \in {"ovk", "nwk", "nwa"} /\ (kind = "nwa" => Len(sounds) = 1)
  /\ format \in {"wav", "flac", "vorbis"}
  /\ \A e \in 1 .. Len(sounds) :
       /\ sounds[e].parts \in Nat \ {0}
       /\ table[e].off \in Nat \ {0} /\ table[e].siz = sounds[e].parts + 1
       /\ \A k \in 0 .. sounds[e].parts :
            table[e].off + 1 + k <= Len(units) => units[table[e].off + 1 + k] = Sound!Unit(e, k)
       /\ \A q \in 1 .. Len(units) :
            units[q].of = e => q = table[e].off + 1 + units[q].part

(* The entries passed are bad, saved, refused or not fit for FLAC; the one being
   unpacked is in the file. *)
Passed ==
  /\ entry \in Nat \ {0}
  /\ \A e \in 1 .. entry - 1 :
       e <= Len(sounds) /\ (Sound!Bad(e) \/ e \in DOMAIN saved \cup denied \/ Sound!Unfit(e))
  /\ DOMAIN saved \subseteq 1 .. Len(sounds)
  /\ phase # "next" => entry <= Len(sounds) /\ ~Sound!Bad(entry)

(* What was written is the head of the stream and nothing is written back. *)
Streaming ==
  /\ stream \in Seq(UnitSet) /\ sent \in Seq(UnitSet)
  /\ offset = Len(sent) /\ Len(sent) <= Len(stream)
  /\ \A k \in 1 .. Len(sent) : stream[k] = sent[k]

(* The first n units written are those of the file from an offset on. *)
Copied(off) == \A k \in 1 .. Len(sent) : off + k <= Len(units) /\ sent[k] = units[off + k]

(* A sequence starts with the sound of e. *)
Starts(s, e) ==
  /\ s \in Seq(UnitSet) /\ Len(s) >= sounds[e].parts + 1
  /\ \A k \in 1 .. sounds[e].parts + 1 : s[k] = Sound!Unit(e, k - 1)

(* OVK: what was written and what is left are the entry. *)
Copying ==
  kind = "ovk" =>
    /\ phase \in {"next", "copy"}
    /\ phase = "copy" =>
         /\ left \in Nat /\ at = table[entry].off + Len(sent)
         /\ Len(sent) + left = table[entry].siz
         /\ Copied(table[entry].off)

(* The stream has no earlier entry in it. *)
Fresh == \A n \in 1 .. entry - 1 : Sound!Bad(n)

(* The blocks of a raw sound are whole but for one at the end of the file, ... *)
RawBlocks ==
  /\ Len(sent) >= 1 /\ at = table[entry].off + Len(sent) /\ at <= Len(units)
  /\ Copied(table[entry].off)
  /\ Len(sent) >= 1 + BlockSize * curblock \/ at = Len(units)

(* ... those of a compressed one come one by one. *)
PackedBlocks ==
  /\ curblock <= sounds[entry].parts /\ Len(sent) = 1 + curblock
  /\ \A k \in 1 .. Len(sent) : sent[k] = Sound!Unit(entry, k - 1)
  /\ curblock < sounds[entry].parts => at = table[entry].off + 1 + curblock

Decoding ==
  /\ header = entry
  /\ curblock = -1 => sent = <<>> /\ at = table[entry].off + 1
  /\ curblock # -1 => /\ curblock \in Nat
                      /\ IF sounds[entry].raw THEN RawBlocks ELSE PackedBlocks

(* The conversion of an entry into a stream of its own. *)
FirstConversion ==
  /\ phase = "next" => sent = <<>>
  /\ phase = "header" /\ converting = 1 => sent = <<>> /\ at = table[entry].off
  /\ phase = "decode" /\ converting = 1 => Decoding
  /\ (phase # "next" /\ converting = 2) \/ phase = "ended" => Starts(sent, entry)

(* The header of the first sound stays at the head of the stream. *)
Headed == ~Fresh => Len(sent) >= 1 /\ \E n \in 1 .. entry - 1 : Sound!Leads(n) /\ sent[1].of = n

Converting ==
  kind # "ovk" =>
    /\ phase \in {"next", "header", "decode", "ended"}
    /\ phase # "next" => converting \in {1, 2}
    /\ at \in Nat /\ header \in Nat
    /\ Fresh => FirstConversion
    /\ Headed

Fit(e) == kind # "ovk" /\ format = "vorbis" => sounds[e].cd

SavedOwn ==
  \A e \in DOMAIN saved :
    (kind = "nwk" => \A n \in 1 .. e - 1 : Sound!Bad(n)) /\ Fit(e) => Starts(saved[e], e)

SoundInv == /\ ArchiveLies /\ Passed /\ Streaming
            /\ Copying /\ Converting /\ SavedOwn

(* A write puts the units behind what was written. *)
LEMMA WriteAppends ==
  ASSUME Streaming, NEW b \in Seq(UnitSet), Sound!W!Write(b)
  PROVE  /\ Streaming'
         /\ Len(sent') = Len(sent) + Len(b)
         /\ \A k \in 1 .. Len(sent) : sent'[k] = sent[k]
         /\ \A j \in 1 .. Len(b) : sent'[Len(sent) + j] = b[j]
<1> DEFINE short == offset + Len(b) - Len(stream)
           pad   == IF short > 0 THEN Sound!W!Zeros(short) ELSE <<>>
           grown == stream \o pad
           all   == grown \o b
<1>1. PICK m \in Nat, n \in Nat : m = Len(sent) /\ n = Len(b)
  BY DEF Streaming
<1>2. offset = m /\ m <= Len(stream) /\ Len(stream) \in Nat
  BY <1>1 DEF Streaming
<1>3. pad \in Seq(UnitSet)
  <2>1. Sound!Junk \in UnitSet
    BY DEF Sound!Junk, Sound!Unit, UnitSet
  <2>2. CASE short > 0
    <3>1. short \in Nat
      BY <1>1, <1>2, <2>2
    <3> HIDE DEF short
    <3>2. Sound!W!Zeros(short) = [k \in 1 .. short |-> Sound!Junk]
      BY DEF Sound!W!Zeros
    <3>3. Sound!W!Zeros(short) \in Seq(UnitSet)
      BY <2>1, <3>1, <3>2
    <3> QED BY <2>2, <3>3
  <2>3. CASE ~(short > 0)
    BY <2>3
  <2> QED BY <2>2, <2>3
<1> HIDE DEF pad
<1>4. /\ grown \in Seq(UnitSet) /\ Len(grown) >= Len(stream)
      /\ \A k \in 1 .. Len(stream) : grown[k] = stream[k]
  BY <1>3 DEF Streaming
<1> HIDE DEF grown
<1>5. /\ all \in Seq(UnitSet) /\ Len(all) = Len(grown) + n
      /\ \A k \in 1 .. Len(grown) : all[k] = grown[k]
  BY <1>1, <1>4
<1> HIDE DEF all
<1>6. Len(all) \in Nat /\ Len(grown) \in Nat
  BY <1>4, <1>5
<1>7. /\ stream' = Sound!W!Overwrite(all, m, b) /\ offset' = m + n
      /\ sent' = Sound!W!Overwrite(sent, m, b)
  <2>1. stream' = Sound!W!Overwrite(all, offset, b) /\ offset' = offset + Len(b)
        /\ sent' = Sound!W!Overwrite(sent, offset, b)
    BY DEF Sound!W!Write, Sound!W!Written, all, grown, pad
  <2> QED BY <1>1, <1>2, <2>1
<1>8. PICK l \in Nat : l = Len(all)
  BY <1>6
<1>9. l >= m + n
  BY <1>2, <1>4, <1>5, <1>6, <1>8
<1>10. stream' = [k \in 1 .. l |-> IF k \in m + 1 .. m + n THEN b[k - m] ELSE all[k]]
  BY <1>1, <1>7, <1>8, <1>9 DEF Sound!W!Overwrite
<1>11. sent' = [k \in 1 .. m + n |-> IF k \in m + 1 .. m + n THEN b[k - m] ELSE sent[k]]
  <2>1. (IF m + n > m THEN m + n ELSE m) = m + n
    OBVIOUS
  <2> QED BY <1>1, <1>7, <2>1 DEF Sound!W!Overwrite
<1>12. /\ \A k \in 1 .. m : sent[k] \in UnitSet /\ all[k] = sent[k]
       /\ \A j \in 1 .. n : b[j] \in UnitSet
  <2>1. \A k \in 1 .. m : k \in 1 .. Len(stream) /\ k \in 1 .. Len(grown)
    BY <1>2, <1>4, <1>6
  <2> QED BY <1>1, <1>4, <1>5, <2>1 DEF Streaming
<1>13. /\ \A k \in 1 .. m : sent'[k] = sent[k] /\ stream'[k] = sent[k]
       /\ \A j \in 1 .. n : sent'[m + j] = b[j] /\ stream'[m + j] = b[j]
  <2>1. ASSUME NEW k \in 1 .. m PROVE sent'[k] = sent[k] /\ stream'[k] = sent[k]
    <3>1. k \in 1 .. m + n /\ k \in 1 .. l /\ k \notin m + 1 .. m + n
      BY <1>9
    <3> QED BY <1>10, <1>11, <1>12, <3>1
  <2>2. ASSUME NEW j \in 1 .. n PROVE sent'[m + j] = b[j] /\ stream'[m + j] = b[j]
    <3>1. m + j \in m + 1 .. m + n /\ m + j \in 1 .. m + n /\ m + j \in 1 .. l /\ (m + j) - m = j
      BY <1>9
    <3> QED BY <1>10, <1>11, <3>1
  <2> QED BY <2>1, <2>2
<1>14. \A k \in 1 .. m + n : k \in 1 .. m \/ (k - m \in 1 .. n /\ m + (k - m) = k)
  OBVIOUS
<1>15. sent' \in Seq(UnitSet) /\ Len(sent') = m + n
  <2>1. \A k \in 1 .. m + n : sent'[k] \in UnitSet
    BY <1>12, <1>13, <1>14
  <2>2. sent' \in [1 .. m + n -> UnitSet]
    BY <1>11, <2>1
  <2>3. m + n \in Nat
    OBVIOUS
  <2> QED BY <2>2, <2>3
<1>16. stream' \in Seq(UnitSet) /\ Len(stream') = l
  <2>1. \A k \in 1 .. l : stream'[k] \in UnitSet
    <3> TAKE k \in 1 .. l
    <3>1. all[k] \in UnitSet
      BY <1>5, <1>8
    <3>2. CASE k \in m + 1 .. m + n
      <4>1. k - m \in 1 .. n
        BY <3>2
      <4> QED BY <1>10, <1>12, <3>2, <4>1
    <3>3. CASE k \notin m + 1 .. m + n
      BY <1>10, <3>1, <3>3
    <3> QED BY <3>2, <3>3
  <2>2. stream' \in [1 .. l -> UnitSet]
    BY <1>10, <2>1
  <2> QED BY <2>2
<1>17. \A k \in 1 .. m + n : stream'[k] = sent'[k]
  BY <1>13, <1>14
<1>18. Streaming'
  BY <1>7, <1>9, <1>15, <1>16, <1>17 DEF Streaming
<1> QED BY <1>1, <1>13, <1>15, <1>18

(* What Range reads. *)
LEMMA RangeRead ==
  ASSUME units \in Seq(UnitSet), NEW first \in Nat, first < Len(units), NEW n \in Nat
  PROVE  /\ Sound!Range(first, n) \in Seq(UnitSet)
         /\ Len(Sound!Range(first, n)) = IF first + n > Len(units) THEN Len(units) - first ELSE n
         /\ \A j \in 1 .. Len(Sound!Range(first, n)) : Sound!Range(first, n)[j] = units[first + j]
<1>1. PICK l \in Nat : l = Len(units)
  OBVIOUS
<1> DEFINE m == IF first + n > Len(units) THEN Len(units) ELSE first + n
           r == Sound!Range(first, n)
<1>2. m \in Nat /\ m <= l /\ first <= m
  BY <1>1
<1>3. r = SubSeq(units, first + 1, m)
  BY DEF Sound!Range
<1>4. m - first = IF first + n > Len(units) THEN Len(units) - first ELSE n
  BY <1>1
<1> HIDE DEF m
<1>5. \A j \in first + 1 .. m : j \in 1 .. l /\ units[j] \in UnitSet
  BY <1>1, <1>2
<1>6. PICK f \in Int : f = first + 1
  OBVIOUS
<1>7. /\ SubSeq(units, f, m) \in Seq(UnitSet)
      /\ Len(SubSeq(units, f, m)) = IF f <= m THEN m - f + 1 ELSE 0
      /\ \A j \in 1 .. m - f + 1 : SubSeq(units, f, m)[j] = units[f + j - 1]
  BY <1>2, <1>5, <1>6, SubSeqProperties
<1>8. (IF f <= m THEN m - f + 1 ELSE 0) = m - first /\ m - f + 1 = m - first
  BY <1>2, <1>6
<1>9. r \in Seq(UnitSet) /\ Len(r) = m - first
      /\ \A j \in 1 .. m - first : r[j] = units[first + j]
  <2>1. \A j \in 1 .. m - first : f + j - 1 = first + j
    BY <1>6
  <2> HIDE DEF r
  <2> QED BY <1>3, <1>6, <1>7, <1>8, <2>1
<1> QED BY <1>4, <1>9

(* A cut at the end leaves the sounds where they are. *)
LEMMA CutLies ==
  ASSUME NEW w \in Seq(UnitSet), NEW e, NEW off, NEW parts \in Nat, Lies(w, e, off, parts),
         NEW n \in 0 .. Len(w)
  PROVE  LET u == SubSeq(w, 1, n) IN
         /\ u \in Seq(UnitSet) /\ Len(u) = n
         /\ off \in Nat \ {0}
         /\ \A k \in 0 .. parts : off + 1 + k <= n => u[off + 1 + k] = Sound!Unit(e, k)
         /\ \A q \in 1 .. n : u[q].of = e => q = off + 1 + u[q].part
<1> DEFINE u == SubSeq(w, 1, n)
<1>1. \A i \in 1 .. n : i \in 1 .. Len(w) /\ w[i] \in UnitSet
  OBVIOUS
<1>2. /\ u \in Seq(UnitSet) /\ Len(u) = (IF 1 <= n THEN n - 1 + 1 ELSE 0)
      /\ \A i \in 1 .. n - 1 + 1 : u[i] = w[1 + i - 1]
  BY <1>1, SubSeqProperties
<1>3. /\ u \in Seq(UnitSet) /\ Len(u) = n
      /\ \A i \in 1 .. n : u[i] = w[i]
  BY <1>2
<1> HIDE DEF u
<1>4. off \in Nat \ {0}
  BY DEF Lies
<1>5. \A k \in 0 .. parts : off + 1 + k <= n => off + 1 + k \in 1 .. n
  BY <1>4
<1>6. \A k \in 0 .. parts : off + 1 + k <= n => u[off + 1 + k] = Sound!Unit(e, k)
  BY <1>3, <1>5 DEF Lies
<1>7. \A q \in 1 .. n : u[q].of = e => q = off + 1 + u[q].part
  BY <1>1, <1>3 DEF Lies
<1> QED BY <1>3, <1>4, <1>6, <1>7 DEF u

LEMMA SoundStarts ==
  ASSUME Sound!Init
  PROVE  SoundInv
<1>1. PICK n \in 1 .. MaxEntries : sounds \in [1 .. n -> Sound!Sounds]
  BY DEF Sound!Init
<1>2. n \in Nat /\ Len(sounds) = n /\ DOMAIN sounds = 1 .. n
  BY <1>1, MediaAssumption DEF Sound!SoundAssumption
<1>3. PICK order \in {[k \in DOMAIN sounds |-> k], [k \in DOMAIN sounds |-> Len(sounds) + 1 - k]} :
        /\ table = [e \in DOMAIN sounds |->
                      [off |-> Sound!Position(Sound!Sequel(sounds, order), e), siz |-> sounds[e].parts + 1]]
        /\ \E lost \in 0 .. 1 : units = SubSeq(Sound!Sequel(sounds, order), 1,
                                               Len(Sound!Sequel(sounds, order)) - lost)
  BY DEF Sound!Init
<1>4. Involutive(order, n)
  <2>1. CASE order = [k \in 1 .. n |-> k]
    BY <2>1 DEF Involutive
  <2>2. CASE order = [k \in 1 .. n |-> n + 1 - k]
    <3>1. \A k \in 1 .. n : n + 1 - k \in 1 .. n /\ n + 1 - (n + 1 - k) = k
      BY <1>2
    <3> QED BY <2>2, <3>1 DEF Involutive
  <2> QED BY <1>2, <1>3, <2>1, <2>2
<1> DEFINE whole == Sound!Sequel(sounds, order)
<1>5. /\ whole \in Seq(UnitSet)
      /\ \A e \in 1 .. n : Lies(whole, e, Sound!Position(whole, e), sounds[e].parts)
  BY <1>1, <1>2, <1>4, SoundsLie
<1>6. PICK lost \in 0 .. 1 : units = SubSeq(whole, 1, Len(whole) - lost)
  BY <1>3
<1>7. table = [e \in 1 .. n |-> [off |-> Sound!Position(whole, e), siz |-> sounds[e].parts + 1]]
  BY <1>2, <1>3
<1> HIDE DEF whole
<1>8. \A e \in 1 .. n : sounds[e].parts \in Nat \ {0}
  BY <1>1, MediaAssumption DEF Sound!Sounds, Sound!SoundAssumption
<1>9. PICK m : m = Len(whole) - lost
  OBVIOUS
<1>10. m \in 0 .. Len(whole)
  <2>1. 1 \in 1 .. n
    BY <1>2
  <2>2. Sound!Position(whole, 1) \in Nat \ {0} /\ Sound!Position(whole, 1) + sounds[1].parts + 1 <= Len(whole)
    BY <1>5, <2>1 DEF Lies
  <2>3. Len(whole) \in Nat /\ sounds[1].parts \in Nat
    BY <1>5, <1>8, <2>1
  <2>4. Len(whole) >= 1
    BY <2>2, <2>3
  <2> QED BY <1>9, <2>3, <2>4
<1>11. ASSUME NEW e \in 1 .. n
       PROVE  /\ units \in Seq(UnitSet)
              /\ table[e].off \in Nat \ {0} /\ table[e].siz = sounds[e].parts + 1
              /\ \A k \in 0 .. sounds[e].parts :
                   table[e].off + 1 + k <= Len(units) => units[table[e].off + 1 + k] = Sound!Unit(e, k)
              /\ \A q \in 1 .. Len(units) :
                   units[q].of = e => q = table[e].off + 1 + units[q].part
  <2>1. Lies(whole, e, Sound!Position(whole, e), sounds[e].parts) /\ sounds[e].parts \in Nat
    BY <1>5, <1>8
  <2>2. units = SubSeq(whole, 1, m)
    BY <1>6, <1>9
  <2>3. table[e].off = Sound!Position(whole, e) /\ table[e].siz = sounds[e].parts + 1
    BY <1>7
  <2>4. /\ SubSeq(whole, 1, m) \in Seq(UnitSet) /\ Len(SubSeq(whole, 1, m)) = m
        /\ table[e].off \in Nat \ {0}
        /\ \A k \in 0 .. sounds[e].parts : table[e].off + 1 + k <= m =>
             SubSeq(whole, 1, m)[table[e].off + 1 + k] = Sound!Unit(e, k)
        /\ \A q \in 1 .. m : SubSeq(whole, 1, m)[q].of = e =>
             q = table[e].off + 1 + SubSeq(whole, 1, m)[q].part
    <3>1. PICK off, p : off = table[e].off /\ p = sounds[e].parts
      OBVIOUS
    <3>2. p \in Nat /\ Lies(whole, e, off, p)
      BY <2>1, <2>3, <3>1
    <3>3. /\ SubSeq(whole, 1, m) \in Seq(UnitSet) /\ Len(SubSeq(whole, 1, m)) = m
          /\ off \in Nat \ {0}
          /\ \A k \in 0 .. p : off + 1 + k <= m => SubSeq(whole, 1, m)[off + 1 + k] = Sound!Unit(e, k)
          /\ \A q \in 1 .. m : SubSeq(whole, 1, m)[q].of = e => q = off + 1 + SubSeq(whole, 1, m)[q].part
      BY <1>5, <1>10, <3>2, CutLies
    <3> QED BY <3>1, <3>3
  <2> QED BY <2>2, <2>3, <2>4
<1>12. kind \in {"ovk", "nwk", "nwa"} /\ (kind = "nwa" => Len(sounds) = 1)
       /\ format \in {"wav", "flac", "vorbis"}
  BY MediaAssumption DEF Sound!Init, Sound!SoundAssumption
<1>13. Len(table) = n
  BY <1>2, <1>7
<1>14. ArchiveLies
  <2>1. 1 \in 1 .. n
    BY <1>2
  <2>2. units \in Seq(UnitSet)
    BY <1>11, <2>1
  <2> QED BY <1>1, <1>2, <1>8, <1>11, <1>12, <1>13, <2>2 DEF ArchiveLies
<1>15. entry = 1 /\ phase = "next" /\ at = 1 /\ header = 0 /\ saved = [e \in {} |-> <<>>]
       /\ stream = <<>> /\ offset = 0 /\ sent = <<>>
  BY DEF Sound!Init, Sound!W!Init
<1>16. Passed /\ Streaming
  BY <1>15 DEF Passed, Streaming
<1>17. Copying /\ Converting /\ SavedOwn
  BY <1>15 DEF Copying, Converting, FirstConversion, Headed, Fresh, SavedOwn
<1> QED BY <1>14, <1>16, <1>17 DEF SoundInv

-----------------------------------------------------------------------------
(* The steps.  None changes the archive. *)
LEMMA ArchiveStays ==
  ASSUME Sound!Next \/ UNCHANGED Sound!vars
  PROVE  UNCHANGED <<kind, format, sounds, units, table>>
BY DEF Sound!Next, Sound!Ovk, Sound!Nwk, Sound!SkipEntry, Sound!BeginCopy, Sound!CopyChunk,
       Sound!EndCopy, Sound!BeginConvert, Sound!ReadHeader, Sound!DecodeHeader, Sound!DecodeRaw,
       Sound!DecodeBlock, Sound!EndDecode, Sound!ConvertAgain, Sound!EndConvert, Sound!vars,
       Sound!archive

(* The steps inside an entry. *)
Inside == \/ Sound!CopyChunk \/ Sound!ReadHeader \/ Sound!DecodeHeader \/ Sound!DecodeRaw
          \/ Sound!DecodeBlock \/ Sound!EndDecode \/ Sound!ConvertAgain

LEMMA InsideStays ==
  ASSUME Inside
  PROVE  phase # "next" /\ UNCHANGED <<entry, saved, denied>>
BY DEF Inside, Sound!CopyChunk, Sound!ReadHeader, Sound!DecodeHeader, Sound!DecodeRaw,
       Sound!DecodeBlock, Sound!EndDecode, Sound!ConvertAgain

LEMMA EntryPasses ==
  ASSUME ArchiveLies, Passed, UNCHANGED <<kind, format, sounds, units, table>>, entry <= Len(sounds),
         entry' = entry + 1, phase' = "next",
         Sound!Bad(entry) \/ entry \in DOMAIN saved' \cup denied' \/ Sound!Unfit(entry),
         DOMAIN saved \subseteq DOMAIN saved', DOMAIN saved' \subseteq DOMAIN saved \cup {entry},
         denied \subseteq denied'
  PROVE  Passed'
<1>1. PICK m \in Nat, n \in Nat : m = entry /\ n = Len(sounds)
  BY DEF ArchiveLies, Passed
<1>2. m \in Nat \ {0} /\ m <= n /\ m \in 1 .. n
  BY <1>1 DEF Passed
<1>3. entry' = m + 1 /\ Len(sounds') = n
  BY <1>1
<1>4. entry' \in Nat \ {0}
  BY <1>3
<1>5. ASSUME NEW e \in 1 .. m
      PROVE  e <= n /\ (Sound!Bad(e)' \/ e \in DOMAIN saved' \cup denied' \/ Sound!Unfit(e)')
  <2>1. e <= n
    BY <1>2
  <2>2. (Sound!Bad(e)' <=> Sound!Bad(e)) /\ (Sound!Unfit(e)' <=> Sound!Unfit(e))
    BY DEF Sound!Bad, Sound!Unfit, Sound!Leads
  <2>3. CASE e = m
    BY <1>1, <2>1, <2>2, <2>3
  <2>4. CASE e # m
    <3>1. e \in 1 .. m - 1
      BY <2>4
    <3>2. Sound!Bad(e) \/ e \in DOMAIN saved \cup denied \/ Sound!Unfit(e)
      BY <1>1, <3>1 DEF Passed
    <3> QED BY <2>1, <2>2, <3>2
  <2> QED BY <2>3, <2>4
<1>6. (m + 1) - 1 = m
  OBVIOUS
<1>7. \A e \in 1 .. entry' - 1 :
        e <= n /\ (Sound!Bad(e)' \/ e \in DOMAIN saved' \cup denied' \/ Sound!Unfit(e)')
  BY <1>3, <1>5, <1>6
<1>8. DOMAIN saved' \subseteq 1 .. n
  BY <1>1, <1>2 DEF Passed
<1> QED BY <1>3, <1>4, <1>7, <1>8 DEF Passed

(* An entry that the FLAC encoder does not take has a header behind the first
   one that says no 16-bit stereo, or is the first. *)
LEMMA TurnedDown ==
  ASSUME ArchiveLies, Passed, Streaming, Copying, Converting, phase = "ended", ~Sound!Encodable
  PROVE  Sound!Unfit(entry)
<1>1. kind # "ovk"
  BY DEF Copying
<1>2. format = "flac" /\ ~sounds[stream[1].of].cd
  BY DEF Sound!Encodable, Sound!HeadSound
<1>3. entry \in 1 .. Len(sounds) /\ ~Sound!Bad(entry)
  BY DEF Passed, ArchiveLies
<1>4. ASSUME Len(sent) >= 1
      PROVE  stream[1] = sent[1]
  <2>1. 1 \in 1 .. Len(sent)
    BY <1>4 DEF Streaming
  <2> QED BY <2>1 DEF Streaming
<1>5. CASE Fresh
  <2>1. Starts(sent, entry)
    BY <1>1, <1>5 DEF Converting, FirstConversion
  <2>2. PICK p \in Nat, m \in Nat : p = sounds[entry].parts /\ m = Len(sent)
    <3>1. sounds[entry].parts \in Nat
      BY <1>3 DEF ArchiveLies
    <3>2. Len(sent) \in Nat
      BY DEF Streaming
    <3> QED BY <3>1, <3>2
  <2>3. m >= p + 1 /\ 1 \in 1 .. p + 1 /\ 1 - 1 = 0
    BY <2>1, <2>2 DEF Starts
  <2>4. m >= 1
    BY <2>3
  <2>5. sent[1] = Sound!Unit(entry, 1 - 1)
    BY <2>1, <2>2, <2>3 DEF Starts
  <2>6. stream[1].of = entry
    BY <1>4, <2>2, <2>4, <2>5 DEF Sound!Unit
  <2>7. Sound!Leads(entry) /\ entry \in 1 .. entry
    BY <1>3, <1>5 DEF Sound!Leads, Fresh
  <2> QED BY <1>1, <1>2, <2>6, <2>7 DEF Sound!Unfit
<1>6. CASE ~Fresh
  <2>1. PICK n \in 1 .. entry - 1 : Len(sent) >= 1 /\ Sound!Leads(n) /\ sent[1].of = n
    BY <1>1, <1>6 DEF Converting, Headed
  <2>2. n \in 1 .. entry
    BY <1>3
  <2> QED BY <1>1, <1>2, <1>4, <2>1, <2>2 DEF Sound!Unfit
<1> QED BY <1>5, <1>6

LEMMA SoundPasses ==
  ASSUME ArchiveLies, Passed, Streaming, Copying, Converting, Sound!Next \/ UNCHANGED Sound!vars
  PROVE  ArchiveLies' /\ Passed'
<1>1. UNCHANGED <<kind, format, sounds, units, table>>
  BY ArchiveStays
<1>2. ArchiveLies'
  BY <1>1 DEF ArchiveLies, Sound!Sounds
<1>3. \A e : (Sound!Bad(e)' <=> Sound!Bad(e)) /\ (Sound!Unfit(e)' <=> Sound!Unfit(e))
  BY <1>1 DEF Sound!Bad, Sound!Unfit, Sound!Leads
<1>4. Len(table) = Len(sounds)
  BY DEF ArchiveLies
<1>5. CASE Sound!SkipEntry
  <2>1. /\ entry <= Len(sounds) /\ Sound!Bad(entry) /\ entry' = entry + 1 /\ phase' = "next"
        /\ UNCHANGED <<saved, denied>>
    BY <1>4, <1>5 DEF Sound!SkipEntry
  <2> QED BY <1>1, <1>2, <2>1, EntryPasses
<1>6. CASE Sound!BeginCopy
  <2>1. entry <= Len(sounds) /\ ~Sound!Bad(entry) /\ saved' = saved
        /\ \/ phase' = "copy" /\ UNCHANGED <<entry, denied>>
           \/ entry' = entry + 1 /\ denied' = denied \cup {entry} /\ phase' = "next"
    BY <1>4, <1>6 DEF Sound!BeginCopy
  <2>2. CASE phase' = "copy" /\ UNCHANGED <<entry, denied>>
    BY <1>1, <1>2, <1>3, <2>1, <2>2 DEF Passed, Sound!Bad, Sound!Unfit, Sound!Leads
  <2>3. CASE entry' = entry + 1 /\ denied' = denied \cup {entry} /\ phase' = "next"
    <3>1. entry \in DOMAIN saved' \cup denied'
      BY <2>3
    <3> QED BY <1>1, <1>2, <2>1, <2>3, <3>1, EntryPasses
  <2> QED BY <2>1, <2>2, <2>3
<1>7. CASE Sound!BeginConvert
  <2>1. entry <= Len(sounds) /\ ~Sound!Bad(entry) /\ UNCHANGED <<entry, saved, denied>>
    BY <1>4, <1>7 DEF Sound!BeginConvert
  <2> QED BY <1>1, <1>2, <2>1 DEF Passed, Sound!Bad, Sound!Unfit, Sound!Leads
<1>8. CASE Sound!EndCopy \/ Sound!EndConvert
  <2>1. /\ phase # "next" /\ entry' = entry + 1 /\ phase' = "next"
        /\ \/ denied' = denied /\ DOMAIN saved' = DOMAIN saved \cup {entry}
           \/ denied' = denied \cup {entry} /\ saved' = saved
           \/ UNCHANGED <<saved, denied>> /\ phase = "ended" /\ ~Sound!Encodable
    BY <1>8 DEF Sound!EndCopy, Sound!EndConvert, Sound!Save
  <2>2. entry <= Len(sounds)
    BY <2>1 DEF Passed
  <2>3. /\ entry \in DOMAIN saved' \cup denied' \/ Sound!Unfit(entry)
        /\ DOMAIN saved \subseteq DOMAIN saved' /\ DOMAIN saved' \subseteq DOMAIN saved \cup {entry}
        /\ denied \subseteq denied'
    BY <2>1, TurnedDown
  <2> QED BY <1>1, <1>2, <2>1, <2>2, <2>3, EntryPasses
<1>9. CASE Inside
  BY <1>1, <1>2, <1>9, InsideStays DEF Passed, Sound!Bad, Sound!Unfit, Sound!Leads
<1>10. CASE UNCHANGED Sound!vars
  BY <1>1, <1>2, <1>10 DEF Passed, Sound!Bad, Sound!Unfit, Sound!Leads, Sound!vars
<1> QED BY <1>5, <1>6, <1>7, <1>8, <1>9, <1>10 DEF Sound!Next, Sound!Ovk, Sound!Nwk, Inside

(* An entry that is not bad lies in the file. *)
LEMMA EntryHeld ==
  ASSUME ArchiveLies, NEW e \in 1 .. Len(sounds), ~Sound!Bad(e)
  PROVE  /\ Len(units) \in Nat /\ table[e].off \in Nat \ {0}
         /\ sounds[e].parts \in Nat \ {0} /\ table[e].siz = sounds[e].parts + 1
         /\ table[e].off + sounds[e].parts + 1 <= Len(units)
         /\ \A k \in 0 .. sounds[e].parts : units[table[e].off + 1 + k] = Sound!Unit(e, k)
<1>1. PICK o \in Nat, p \in Nat, l \in Nat : o = table[e].off /\ p = sounds[e].parts /\ l = Len(units)
  BY DEF ArchiveLies
<1>2. o \in Nat \ {0} /\ p \in Nat \ {0} /\ table[e].siz = p + 1
      /\ \A k \in 0 .. p : o + 1 + k <= l => units[o + 1 + k] = Sound!Unit(e, k)
  BY <1>1 DEF ArchiveLies
<1>3. o + (p + 1) <= l
  BY <1>1, <1>2 DEF Sound!Bad
<1>4. \A k \in 0 .. p : o + 1 + k <= l
  BY <1>3
<1>5. \A k \in 0 .. p : units[o + 1 + k] = Sound!Unit(e, k)
  BY <1>2, <1>4
<1>6. o + p + 1 <= l
  BY <1>3
<1> QED BY <1>1, <1>2, <1>5, <1>6, SMTT(60)

(* The units of an entry as the file has them are its sound. *)
LEMMA HeldStarts ==
  ASSUME ArchiveLies, NEW e \in 1 .. Len(sounds), ~Sound!Bad(e),
         NEW s \in Seq(UnitSet), Len(s) >= sounds[e].parts + 1,
         \A k \in 1 .. sounds[e].parts + 1 : s[k] = units[table[e].off + k]
  PROVE  Starts(s, e)
<1>1. PICK o \in Nat, p \in Nat : o = table[e].off /\ p = sounds[e].parts
  BY EntryHeld
<1>2. \A k \in 0 .. p : units[o + 1 + k] = Sound!Unit(e, k)
  BY <1>1, EntryHeld
<1>3. \A k \in 1 .. p + 1 : s[k] = Sound!Unit(e, k - 1)
  <2> TAKE k \in 1 .. p + 1
  <2>1. k - 1 \in 0 .. p /\ o + 1 + (k - 1) = o + k
    OBVIOUS
  <2> QED BY <1>1, <1>2, <2>1
<1> QED BY <1>1, <1>3 DEF Starts

(* What is saved now, and what was. *)
LEMMA SaveKeeps ==
  ASSUME SavedOwn, UNCHANGED <<kind, format, sounds, units, table>>, NEW c, Sound!Save(entry, c),
         (kind = "nwk" => Fresh) /\ Fit(entry) => Starts(c, entry)
  PROVE  SavedOwn'
<1>1. /\ DOMAIN saved' = DOMAIN saved \cup {entry}
      /\ \A e \in DOMAIN saved' : saved'[e] = IF e = entry THEN c ELSE saved[e]
  BY DEF Sound!Save
<1>2. \A e, s : Starts(s, e)' <=> Starts(s, e)
  BY DEF Starts
<1>3. \A e : Sound!Bad(e)' <=> Sound!Bad(e)
  BY DEF Sound!Bad
<1> SUFFICES ASSUME NEW e \in DOMAIN saved',
                    kind = "nwk" => \A n \in 1 .. e - 1 : Sound!Bad(n), Fit(e)
             PROVE  Starts(saved'[e], e)
  BY <1>2, <1>3 DEF SavedOwn, Starts, Fit
<1>4. CASE e = entry
  BY <1>1, <1>4 DEF Fresh
<1>5. CASE e # entry
  BY <1>1, <1>5 DEF SavedOwn
<1> QED BY <1>4, <1>5

LEMMA SavedStays ==
  ASSUME SavedOwn, UNCHANGED <<kind, format, sounds, units, table, saved>>
  PROVE  SavedOwn'
BY DEF SavedOwn, Starts, Sound!Bad, Fit

(* The steps of OVK. *)
LEMMA OvkSteps ==
  ASSUME SoundInv, kind = "ovk", Sound!Next \/ UNCHANGED Sound!vars
  PROVE  Streaming' /\ Copying' /\ SavedOwn'
<1>0. ArchiveLies /\ Passed /\ Streaming /\ Copying /\ SavedOwn
  BY DEF SoundInv
<1>1. UNCHANGED <<kind, format, sounds, units, table>>
  BY ArchiveStays
<1>2. phase \in {"next", "copy"}
  BY <1>0 DEF Copying
<1>3. CASE Sound!SkipEntry \/ UNCHANGED Sound!vars
  <2>1. UNCHANGED <<stream, offset, sent, saved, left, at, phase>>
        /\ (phase = "next" \/ entry' = entry)
    BY <1>3 DEF Sound!SkipEntry, Sound!vars, Sound!writer
  <2>2. Streaming'
    BY <1>0, <2>1 DEF Streaming
  <2>3. Copying'
    BY <1>0, <1>1, <2>1 DEF Copying, Copied
  <2> QED BY <1>0, <1>1, <2>1, <2>2, <2>3, SavedStays
<1>4. CASE Sound!BeginCopy
  <2>1. /\ stream' = <<>> /\ offset' = 0 /\ sent' = <<>> /\ saved' = saved
        /\ entry \in 1 .. Len(sounds) /\ ~Sound!Bad(entry)
        /\ \/ /\ at' = table[entry].off /\ left' = table[entry].siz
              /\ phase' = "copy" /\ entry' = entry
           \/ phase' = "next"
    BY <1>0, <1>4 DEF Sound!BeginCopy, Sound!NewWriter, Passed, ArchiveLies
  <2>2. Streaming'
    BY <2>1 DEF Streaming
  <2>3. Copying'
    <3>1. CASE phase' = "next"
      BY <3>1 DEF Copying
    <3>2. CASE at' = table[entry].off /\ left' = table[entry].siz /\ phase' = "copy" /\ entry' = entry
      <4>1. PICK o \in Nat, s \in Nat : o = table[entry].off /\ s = table[entry].siz
        <5>1. table[entry].off \in Nat /\ sounds[entry].parts \in Nat
              /\ table[entry].siz = sounds[entry].parts + 1
          BY <1>0, <2>1, EntryHeld
        <5> QED BY <5>1
      <4>2. Len(sent') = 0 /\ at' = o + Len(sent') /\ Len(sent') + left' = s /\ left' \in Nat
        BY <2>1, <3>2, <4>1
      <4>3. Copied(o)'
        BY <2>1 DEF Copied
      <4>4. table'[entry'].off = o /\ table'[entry'].siz = s
        BY <1>1, <3>2, <4>1
      <4> QED BY <3>2, <4>1, <4>2, <4>3, <4>4 DEF Copying, Copied
    <3> QED BY <2>1, <3>1, <3>2
  <2> QED BY <1>0, <1>1, <2>1, <2>2, <2>3, SavedStays
<1>5. CASE Sound!CopyChunk
  <2>1. phase = "copy" /\ left > 0 /\ UNCHANGED <<entry, phase, saved>>
    BY <1>5 DEF Sound!CopyChunk
  <2>2. entry \in 1 .. Len(sounds) /\ ~Sound!Bad(entry)
    BY <1>0, <2>1 DEF Passed, ArchiveLies
  <2>3. PICK o \in Nat, p \in Nat, l \in Nat, m \in Nat, w \in Nat :
           o = table[entry].off /\ p = sounds[entry].parts /\ l = Len(units) /\ m = Len(sent) /\ w = left
    <3>1. /\ table[entry].off \in Nat /\ sounds[entry].parts \in Nat /\ Len(units) \in Nat
      BY <1>0, <2>2, EntryHeld
    <3>2. left \in Nat /\ Len(sent) \in Nat
      BY <1>0, <2>1 DEF Copying, Streaming
    <3> QED BY <3>1, <3>2
  <2>4. /\ o + p + 1 <= l /\ table[entry].siz = p + 1
    BY <1>0, <2>2, <2>3, EntryHeld
  <2>5. at = o + m /\ m + w = p + 1 /\ Copied(o)
    BY <1>0, <2>1, <2>3, <2>4 DEF Copying
  <2>6. PICK n \in Nat : n = IF w > Chunk THEN Chunk ELSE w
    BY MediaAssumption DEF Sound!SoundAssumption
  <2>7. n > 0 /\ n <= w
    BY <2>1, <2>3, <2>6, MediaAssumption DEF Sound!SoundAssumption
  <2>8. Sound!W!Write(Sound!Range(at, n)) /\ at' = at + n /\ left' = left - n
    BY <1>5, <2>3, <2>6 DEF Sound!CopyChunk
  <2>9. at \in Nat /\ at < Len(units) /\ ~(at + n > Len(units))
    <3>1. o + m \in Nat /\ o + m < l /\ ~((o + m) + n > l)
      BY <2>4, <2>5, <2>7
    <3> QED BY <2>3, <2>5, <3>1
  <2> DEFINE b == Sound!Range(at, n)
  <2>10. b \in Seq(UnitSet) /\ Len(b) = n /\ \A j \in 1 .. Len(b) : b[j] = units[at + j]
    <3>1. units \in Seq(UnitSet)
      BY <1>0 DEF ArchiveLies
    <3> QED BY <2>9, <3>1, RangeRead
  <2> HIDE DEF b
  <2>11. /\ Streaming' /\ Len(sent') = m + n
         /\ \A k \in 1 .. m : sent'[k] = sent[k]
         /\ \A j \in 1 .. n : sent'[m + j] = b[j]
    <3>1. Streaming /\ Sound!W!Write(b)
      BY <1>0, <2>8 DEF b
    <3>2. /\ Streaming' /\ Len(sent') = Len(sent) + Len(b)
          /\ \A k \in 1 .. Len(sent) : sent'[k] = sent[k]
          /\ \A j \in 1 .. Len(b) : sent'[Len(sent) + j] = b[j]
      BY <2>10, <3>1, WriteAppends
    <3> QED BY <2>3, <2>10, <3>2
  <2>12. \A k \in 1 .. m + n : o + k <= l /\ sent'[k] = units[o + k]
    <3> TAKE k \in 1 .. m + n
    <3>1. o + k <= l
      BY <2>4, <2>5, <2>7
    <3>2. CASE k \in 1 .. m
      BY <2>3, <2>5, <2>11, <3>1, <3>2 DEF Copied
    <3>3. CASE k \notin 1 .. m
      <4>1. k - m \in 1 .. n /\ m + (k - m) = k /\ at + (k - m) = o + k
        BY <2>5, <3>3
      <4> QED BY <2>10, <2>11, <3>1, <4>1
    <3> QED BY <3>2, <3>3
  <2>13. left' \in Nat /\ at' = o + (m + n) /\ (m + n) + left' = p + 1
    <3>1. w - n \in Nat /\ (o + m) + n = o + (m + n) /\ (m + n) + (w - n) = p + 1
      BY <2>5, <2>7
    <3> QED BY <2>3, <2>5, <2>8, <3>1
  <2>14. Copied(o)'
    BY <1>1, <2>3, <2>11, <2>12 DEF Copied
  <2>15. Copying'
    <3>1. table'[entry'].off = o /\ table'[entry'].siz = p + 1
      BY <1>1, <2>1, <2>3, <2>4
    <3> QED BY <2>1, <2>11, <2>13, <2>14, <3>1 DEF Copying, Copied
  <2> QED BY <1>0, <1>1, <2>1, <2>11, <2>15, SavedStays
<1>6. CASE Sound!EndCopy
  <2>1. /\ phase = "copy" /\ left = 0 /\ Sound!Save(entry, stream) /\ phase' = "next"
        /\ UNCHANGED <<stream, offset, sent>>
    BY <1>6 DEF Sound!EndCopy, Sound!writer
  <2>2. entry \in 1 .. Len(sounds) /\ ~Sound!Bad(entry)
    BY <1>0, <2>1 DEF Passed, ArchiveLies
  <2>3. PICK o \in Nat, p \in Nat, m \in Nat :
           o = table[entry].off /\ p = sounds[entry].parts /\ m = Len(sent)
    <3>1. /\ table[entry].off \in Nat /\ sounds[entry].parts \in Nat
      BY <1>0, <2>2, EntryHeld
    <3>2. Len(sent) \in Nat
      BY <1>0 DEF Streaming
    <3> QED BY <3>1, <3>2
  <2>4. m = p + 1 /\ Copied(o)
    <3>1. table[entry].siz = p + 1
      BY <1>0, <2>2, <2>3, EntryHeld
    <3> QED BY <1>0, <2>1, <2>3, <3>1 DEF Copying
  <2>5. Len(stream) >= p + 1 /\ \A k \in 1 .. p + 1 : stream[k] = units[o + k]
    BY <1>0, <2>3, <2>4 DEF Streaming, Copied
  <2>6. Starts(stream, entry)
    <3>1. stream \in Seq(UnitSet) /\ ArchiveLies
      BY <1>0 DEF Streaming
    <3> QED BY <2>2, <2>3, <2>5, <3>1, HeldStarts
  <2>7. Streaming' /\ Copying'
    BY <1>0, <1>1, <2>1 DEF Streaming, Copying
  <2>8. SavedOwn'
    BY <1>0, <1>1, <2>1, <2>6, SaveKeeps
  <2> QED BY <2>7, <2>8
<1>7. ~Sound!BeginConvert /\ ~Sound!ReadHeader /\ ~Sound!DecodeHeader /\ ~Sound!DecodeRaw
      /\ ~Sound!DecodeBlock /\ ~Sound!EndDecode /\ ~Sound!ConvertAgain /\ ~Sound!EndConvert
  BY <1>2 DEF Sound!BeginConvert, Sound!ReadHeader, Sound!DecodeHeader, Sound!DecodeRaw,
       Sound!DecodeBlock, Sound!EndDecode, Sound!ConvertAgain, Sound!EndConvert
<1> QED BY <1>3, <1>4, <1>5, <1>6, <1>7 DEF Sound!Next, Sound!Ovk, Sound!Nwk

(* As many blocks as a raw sound has hold all its samples. *)
LEMMA BlocksHold ==
  ASSUME NEW p \in Nat, NEW b \in Nat \ {0}
  PROVE  (p + b - 1) \div b \in Nat /\ b * ((p + b - 1) \div b) >= p
<1>1. PICK q \in Int, r \in Int, m \in Nat :
         m = p + b - 1 /\ q = m \div b /\ r = m % b
  <2>1. p + b - 1 \in Nat
    OBVIOUS
  <2>2. (p + b - 1) \div b \in Int /\ (p + b - 1) % b \in Int
    BY <2>1
  <2> QED BY <2>1, <2>2
<1>2. m = b * q + r /\ 0 <= r /\ r < b
  BY <1>1
<1>3. q >= 0
  BY <1>1
<1>4. b * q \in Int
  OBVIOUS
<1>5. b * q >= p
  BY <1>1, <1>2, <1>4
<1> QED BY <1>1, <1>3, <1>5

LEMMA OneBlockMore ==
  ASSUME NEW b \in Nat, NEW c \in Nat
  PROVE  b * (c + 1) = b * c + b /\ b * c \in Nat
OBVIOUS

(* The conversions of NWK and NWA.  A stream that starts with a sound goes on
   doing so. *)
LEMMA StartsGrows ==
  ASSUME NEW e, ArchiveLies, e \in 1 .. Len(sounds), Starts(sent, e), sounds' = sounds,
         Streaming', Len(sent) \in Nat, Len(sent') >= Len(sent),
         \A k \in 1 .. Len(sent) : sent'[k] = sent[k]
  PROVE  /\ sent' \in Seq(UnitSet) /\ Len(sent') >= sounds[e].parts + 1
         /\ \A k \in 1 .. sounds[e].parts + 1 : sent'[k] = Sound!Unit(e, k - 1)
<1>1. PICK p \in Nat, m \in Nat, n \in Nat : p = sounds[e].parts /\ m = Len(sent) /\ n = Len(sent')
  <2>1. sounds[e].parts \in Nat
    BY DEF ArchiveLies
  <2>2. Len(sent') \in Nat
    BY DEF Streaming
  <2> QED BY <2>1, <2>2
<1>2. m >= p + 1 /\ n >= m
  BY <1>1 DEF Starts
<1>3. \A k \in 1 .. p + 1 : k \in 1 .. m /\ sent[k] = Sound!Unit(e, k - 1)
  BY <1>1, <1>2 DEF Starts
<1>4. n >= p + 1
  BY <1>2
<1>5. sent' \in Seq(UnitSet)
  BY DEF Streaming
<1> QED BY <1>1, <1>3, <1>4, <1>5

LEMMA FreshStays ==
  ASSUME UNCHANGED <<units, table, entry>>
  PROVE  Fresh' <=> Fresh
BY DEF Fresh, Sound!Bad

(* So does one that starts with a header. *)
LEMMA HeadedGrows ==
  ASSUME Headed, UNCHANGED <<units, table, entry>>, Len(sent) \in Nat, Len(sent') \in Nat,
         Len(sent') >= Len(sent), \A k \in 1 .. Len(sent) : sent'[k] = sent[k]
  PROVE  Headed'
<1>1. \A n : Sound!Leads(n)' <=> Sound!Leads(n)
  BY DEF Sound!Leads, Sound!Bad
<1> SUFFICES ASSUME ~Fresh
             PROVE  Len(sent') >= 1 /\ \E n \in 1 .. entry - 1 : Sound!Leads(n) /\ sent'[1].of = n
  BY <1>1, FreshStays DEF Headed
<1>2. Len(sent) >= 1 /\ \E n \in 1 .. entry - 1 : Sound!Leads(n) /\ sent[1].of = n
  BY DEF Headed
<1>3. 1 \in 1 .. Len(sent) /\ Len(sent') >= 1
  BY <1>2
<1> QED BY <1>2, <1>3

LEMMA HeadedPasses ==
  ASSUME Headed, UNCHANGED <<units, table, sent>>, entry \in Nat \ {0}, entry' = entry + 1,
         Sound!Bad(entry) \/ (Fresh => Len(sent) >= 1 /\ sent[1].of = entry)
  PROVE  Headed'
<1>1. \A n : (Sound!Leads(n)' <=> Sound!Leads(n)) /\ (Sound!Bad(n)' <=> Sound!Bad(n))
  BY DEF Sound!Leads, Sound!Bad
<1>2. entry' - 1 = entry
  OBVIOUS
<1> SUFFICES ASSUME ~Fresh'
             PROVE  Len(sent) >= 1 /\ \E n \in 1 .. entry : Sound!Leads(n) /\ sent[1].of = n
  BY <1>1, <1>2 DEF Headed
<1>3. ~(\A n \in 1 .. entry : Sound!Bad(n))
  BY <1>1, <1>2 DEF Fresh
<1>4. CASE Fresh
  <2>1. \A n \in 1 .. entry : n = entry \/ n \in 1 .. entry - 1
    OBVIOUS
  <2>2. ~Sound!Bad(entry) /\ entry \in 1 .. entry
    BY <1>3, <1>4, <2>1 DEF Fresh
  <2>3. Sound!Leads(entry)
    BY <1>4, <2>2 DEF Sound!Leads, Fresh
  <2> QED BY <1>4, <2>2, <2>3
<1>5. CASE ~Fresh
  <2>1. \A n \in 1 .. entry - 1 : n \in 1 .. entry
    OBVIOUS
  <2> QED BY <1>5, <2>1 DEF Headed
<1> QED BY <1>4, <1>5

LEMMA HeadedStays ==
  ASSUME Headed, UNCHANGED <<units, table, entry, sent>>
  PROVE  Headed'
BY DEF Headed, Fresh, Sound!Leads, Sound!Bad

LEMMA ConvertMoves ==
  ASSUME ArchiveLies, Passed, Streaming, Converting, kind # "ovk",
         UNCHANGED <<kind, format, sounds, units, table>>,
         Sound!SkipEntry \/ Sound!BeginConvert \/ Sound!ConvertAgain \/ UNCHANGED Sound!vars
  PROVE  Streaming' /\ Converting' /\ saved' = saved
<1>1. UNCHANGED <<stream, offset, sent, saved, header>>
  BY DEF Sound!SkipEntry, Sound!BeginConvert, Sound!ConvertAgain, Sound!vars, Sound!writer
<1>2. Streaming'
  BY <1>1 DEF Streaming
<1>3. CASE Sound!SkipEntry
  <2>1. phase = "next" /\ phase' = "next" /\ entry' = entry + 1 /\ at' = at
    BY <1>3 DEF Sound!SkipEntry
  <2>2. ASSUME Fresh' PROVE Fresh
    <3>1. \A n \in 1 .. entry - 1 : n \in 1 .. entry' - 1
      BY <2>1 DEF Passed
    <3> QED BY <2>2, <3>1 DEF Fresh, Sound!Bad
  <2>3. Fresh' => sent' = <<>>
    BY <1>1, <2>1, <2>2 DEF Converting, FirstConversion
  <2>4. at' \in Nat /\ header' \in Nat
    BY <1>1, <2>1 DEF Converting
  <2>5. Fresh' => FirstConversion'
    BY <2>1, <2>3 DEF FirstConversion
  <2>7. Headed'
    <3>1. Sound!Bad(entry) /\ entry \in Nat \ {0}
      BY <1>3 DEF Sound!SkipEntry, Passed
    <3> QED BY <1>1, <2>1, <3>1, HeadedPasses DEF Converting
  <2>6. Converting'
    BY <2>1, <2>4, <2>5, <2>7 DEF Converting
  <2> QED BY <1>1, <1>2, <2>6
<1>4. CASE Sound!BeginConvert
  <2>1. /\ phase = "next" /\ phase' = "header" /\ converting' = 1 /\ entry' = entry
        /\ at' = table[entry].off /\ entry <= Len(table)
    BY <1>4 DEF Sound!BeginConvert
  <2>2. table[entry].off \in Nat
    BY <2>1 DEF ArchiveLies, Passed
  <2>3. Fresh' => sent' = <<>>
    BY <1>1, <2>1, FreshStays DEF Converting, FirstConversion
  <2>4. at' = table'[entry'].off
    BY <2>1
  <2>5. Fresh' => FirstConversion'
    BY <2>1, <2>3, <2>4 DEF FirstConversion
  <2>6. at' \in Nat /\ header' \in Nat
    BY <1>1, <2>1, <2>2 DEF Converting
  <2>8. Headed'
    BY <1>1, <2>1, HeadedStays DEF Converting
  <2>7. Converting'
    BY <2>1, <2>5, <2>6, <2>8 DEF Converting
  <2> QED BY <1>1, <1>2, <2>7
<1>5. CASE Sound!ConvertAgain
  <2>1. phase = "ended" /\ phase' = "header" /\ converting' = 2 /\ UNCHANGED <<entry, at>>
    BY <1>5 DEF Sound!ConvertAgain
  <2>2. Fresh' => Starts(sent, entry)
    BY <2>1, FreshStays DEF Converting, FirstConversion
  <2>3. Starts(sent, entry) => Starts(sent, entry)'
    BY <1>1, <2>1 DEF Starts
  <2>4. Fresh' => FirstConversion'
    BY <2>1, <2>2, <2>3 DEF FirstConversion
  <2>6. Headed'
    BY <1>1, <2>1, HeadedStays DEF Converting
  <2>5. Converting'
    BY <1>1, <2>1, <2>4, <2>6 DEF Converting
  <2> QED BY <1>1, <1>2, <2>5
<1>6. CASE UNCHANGED Sound!vars
  <2>1. UNCHANGED <<phase, converting, entry, at, curblock>>
    BY <1>6 DEF Sound!vars
  <2>3. Headed'
    BY <1>1, <2>1, HeadedStays DEF Converting
  <2>2. Converting'
    BY <1>1, <2>1, <2>3 DEF Converting, Fresh, Sound!Bad, FirstConversion, Decoding, RawBlocks, PackedBlocks,
         Copied, Starts
  <2> QED BY <1>1, <1>2, <2>2
<1> QED BY <1>3, <1>4, <1>5, <1>6

LEMMA ConvertReads ==
  ASSUME ArchiveLies, Passed, Streaming, Converting, kind # "ovk",
         UNCHANGED <<kind, format, sounds, units, table>>,
         Sound!ReadHeader
  PROVE  Streaming' /\ Converting' /\ saved' = saved
<1>1. /\ UNCHANGED <<stream, offset, sent, saved, entry, converting>>
      /\ phase = "header" /\ at' = at + 1 /\ curblock' = -1
      /\ phase' \in {"decode", "ended"}
  BY DEF Sound!ReadHeader, Sound!writer
<1>2. Streaming'
  BY <1>1 DEF Streaming
<1>3. PICK a \in Nat : a = at
  BY DEF Converting
<1>4. converting \in {1, 2} /\ header' \in Nat
  <2>1. converting \in {1, 2}
    BY <1>1 DEF Converting
  <2>2. CASE Sound!AtHeader
    <3>1. a + 1 \in 1 .. Len(units) /\ units \in Seq(UnitSet)
      BY <1>3, <2>2 DEF Sound!AtHeader, ArchiveLies
    <3>2. units[a + 1] \in UnitSet
      BY <3>1
    <3>3. header' = units[a + 1].of
      BY <1>3, <2>2 DEF Sound!ReadHeader
    <3> QED BY <2>1, <3>2, <3>3 DEF UnitSet
  <2>3. CASE ~Sound!AtHeader
    BY <2>1, <2>3 DEF Sound!ReadHeader
  <2> QED BY <2>2, <2>3
<1>5. ASSUME Fresh, converting = 1
      PROVE  phase' = "decode" /\ header' = entry /\ sent = <<>> /\ at' = table[entry].off + 1
  <2>1. sent = <<>> /\ at = table[entry].off
    BY <1>1, <1>5 DEF Converting, FirstConversion
  <2>2. entry \in 1 .. Len(sounds) /\ ~Sound!Bad(entry)
    BY <1>1 DEF Passed, ArchiveLies
  <2>3. PICK p \in Nat : p = sounds[entry].parts
    BY <2>2, EntryHeld
  <2>4. a + p + 1 <= Len(units) /\ Len(units) \in Nat /\ \A k \in 0 .. p : units[a + 1 + k] = Sound!Unit(entry, k)
    BY <1>3, <2>1, <2>2, <2>3, EntryHeld
  <2>5. a < Len(units)
    BY <2>4
  <2>6. units[a + 1] = Sound!Unit(entry, 0)
    <3>1. 0 \in 0 .. p /\ a + 1 + 0 = a + 1
      OBVIOUS
    <3> QED BY <2>4, <3>1
  <2>7. units[a + 1].of = entry /\ units[a + 1].part = 0
    BY <2>6 DEF Sound!Unit
  <2>8. Sound!AtHeader
    BY <1>3, <2>5, <2>7 DEF Sound!AtHeader
  <2>9. header' = entry /\ phase' = "decode"
    BY <1>3, <1>5, <2>7, <2>8 DEF Sound!ReadHeader
  <2> QED BY <1>1, <2>1, <2>9
<1>6. ASSUME Fresh, converting = 2
      PROVE  Starts(sent, entry)'
  BY <1>1, <1>6 DEF Converting, FirstConversion, Starts
<1>7. Fresh => FirstConversion'
  BY <1>1, <1>4, <1>5, <1>6 DEF FirstConversion, Decoding
<1>8. at' \in Nat
  BY <1>1, <1>3
<1>10. Headed'
  BY <1>1, HeadedStays DEF Converting
<1>9. Converting'
  BY <1>1, <1>4, <1>7, <1>8, <1>10, FreshStays DEF Converting
<1> QED BY <1>1, <1>2, <1>9

(* The end of a conversion: all blocks, or all of the file. *)
LEMMA ConvertEnds ==
  ASSUME ArchiveLies, Passed, Streaming, Converting, kind # "ovk",
         UNCHANGED <<kind, format, sounds, units, table>>,
         Sound!EndDecode \/ (Sound!DecodeRaw /\ at >= Len(units))
  PROVE  Streaming' /\ Converting' /\ saved' = saved
<1>1. /\ UNCHANGED <<stream, offset, sent, saved, entry, converting, header, at>>
      /\ phase = "decode" /\ phase' = "ended"
      /\ \/ curblock = Sound!Blocks
         \/ curblock # -1 /\ at >= Len(units) /\ (header # 0 => sounds[header].raw)
  BY DEF Sound!EndDecode, Sound!DecodeRaw, Sound!writer
<1>2. Streaming'
  BY <1>1 DEF Streaming
<1>3. entry \in 1 .. Len(sounds) /\ ~Sound!Bad(entry)
  BY <1>1 DEF Passed, ArchiveLies
<1>4. /\ Len(units) \in Nat /\ table[entry].off \in Nat /\ sounds[entry].parts \in Nat
      /\ table[entry].off + sounds[entry].parts + 1 <= Len(units)
  BY <1>3, EntryHeld
<1>5. PICK o \in Nat, p \in Nat, l \in Nat, m \in Nat :
         o = table[entry].off /\ p = sounds[entry].parts /\ l = Len(units) /\ m = Len(sent)
  BY <1>4 DEF Streaming
<1>6. o + p + 1 <= l
  BY <1>4, <1>5
<1>7. ASSUME Fresh, converting = 1
      PROVE  Starts(sent, entry)
  <2>1. Decoding
    BY <1>1, <1>7 DEF Converting, FirstConversion
  <2>2. header = entry /\ header # 0
    BY <1>3, <2>1 DEF Decoding
  <2>3. Sound!Blocks = IF sounds[entry].raw THEN (p + BlockSize - 1) \div BlockSize ELSE p
    BY <1>5, <2>2 DEF Sound!Blocks
  <2>4. BlockSize \in Nat \ {0}
    BY MediaAssumption DEF Sound!SoundAssumption
  <2>5. (p + BlockSize - 1) \div BlockSize \in Nat /\ BlockSize * ((p + BlockSize - 1) \div BlockSize) >= p
    BY <2>4, BlocksHold
  <2>6. Sound!Blocks \in Nat
    BY <2>3, <2>5
  <2>7. curblock # -1
    BY <1>1, <2>6
  <2>8. CASE sounds[entry].raw
    <3>1. RawBlocks
      BY <2>1, <2>7, <2>8 DEF Decoding
    <3>2. at = o + m /\ at <= l /\ (m >= 1 + BlockSize * curblock \/ at = l)
      BY <1>5, <3>1 DEF RawBlocks
    <3>3. m >= p + 1
      <4>1. CASE at >= l
        <5>1. o + m >= l
          BY <3>2, <4>1
        <5> QED BY <1>6, <5>1
      <4>2. CASE ~(at >= l)
        <5>1. curblock = (p + BlockSize - 1) \div BlockSize
          BY <1>1, <1>5, <2>3, <2>8, <4>2
        <5>2. at # l
          BY <1>5, <3>2, <4>2
        <5>3. m >= 1 + BlockSize * ((p + BlockSize - 1) \div BlockSize)
          BY <3>2, <5>1, <5>2
        <5>4. PICK x \in Int : x = BlockSize * ((p + BlockSize - 1) \div BlockSize)
          BY <2>4, <2>5
        <5>5. m >= 1 + x /\ x >= p
          BY <2>5, <5>3, <5>4
        <5> QED BY <5>5
      <4> QED BY <4>1, <4>2
    <3>4. \A k \in 1 .. p + 1 : k \in 1 .. m
      BY <3>3
    <3>5. \A k \in 1 .. p + 1 : sent[k] = units[o + k]
      BY <1>5, <3>1, <3>4 DEF RawBlocks, Copied
    <3>6. sent \in Seq(UnitSet)
      BY DEF Streaming
    <3> QED BY <1>3, <1>5, <3>3, <3>5, <3>6, HeldStarts
  <2>9. CASE ~sounds[entry].raw
    <3>1. PackedBlocks /\ curblock = p
      BY <1>1, <2>1, <2>2, <2>3, <2>7, <2>9 DEF Decoding
    <3>2. m = p + 1 /\ \A k \in 1 .. m : sent[k] = Sound!Unit(entry, k - 1)
      BY <1>5, <3>1 DEF PackedBlocks
    <3> QED BY <1>5, <3>2 DEF Starts, Streaming
  <2> QED BY <2>8, <2>9
<1>8. ASSUME Fresh, converting = 2
      PROVE  Starts(sent, entry)
  BY <1>1, <1>8 DEF Converting, FirstConversion
<1>9. converting \in {1, 2} /\ at \in Nat /\ header \in Nat
  BY <1>1 DEF Converting
<1>10. Fresh => Starts(sent, entry)'
  BY <1>1, <1>7, <1>8, <1>9 DEF Starts
<1>11. Fresh => FirstConversion'
  BY <1>1, <1>10 DEF FirstConversion
<1>13. Headed'
  BY <1>1, HeadedStays DEF Converting
<1>12. Converting'
  BY <1>1, <1>9, <1>11, <1>13, FreshStays DEF Converting
<1> QED BY <1>1, <1>2, <1>12

(* A write after the first conversion leaves the head as it is. *)
LEMMA SecondWrites ==
  ASSUME ArchiveLies, Passed, Converting, kind # "ovk",
         UNCHANGED <<kind, format, sounds, units, table>>,
         UNCHANGED <<entry, converting, header>>, phase = "decode", phase' = "decode",
         Streaming, Streaming', Len(sent') >= Len(sent),
         \A k \in 1 .. Len(sent) : sent'[k] = sent[k],
         at' \in Nat, Fresh /\ converting = 1 => Decoding'
  PROVE  Converting'
<1>1. converting \in {1, 2} /\ header \in Nat
  BY DEF Converting
<1>2. entry \in 1 .. Len(sounds)
  BY DEF Passed, ArchiveLies
<1>3. ASSUME Fresh, converting = 2
      PROVE  Starts(sent, entry)'
  <2>1. Starts(sent, entry)
    BY <1>3 DEF Converting, FirstConversion
  <2>2. PICK e : e = entry
    OBVIOUS
  <2>3. Len(sent) \in Nat
    BY DEF Streaming
  <2>4. /\ sent' \in Seq(UnitSet) /\ Len(sent') >= sounds[e].parts + 1
        /\ \A k \in 1 .. sounds[e].parts + 1 : sent'[k] = Sound!Unit(e, k - 1)
    BY <1>2, <2>1, <2>2, <2>3, StartsGrows
  <2> QED BY <2>2, <2>4 DEF Starts
<1>4. Fresh => FirstConversion'
  BY <1>1, <1>3 DEF FirstConversion
<1>5. Headed'
  BY HeadedGrows DEF Converting, Streaming
<1> QED BY <1>1, <1>4, <1>5, FreshStays DEF Converting

(* The header of the sound. *)
LEMMA HeaderWrites ==
  ASSUME ArchiveLies, Passed, Streaming, Converting, kind # "ovk",
         UNCHANGED <<kind, format, sounds, units, table>>,
         Sound!DecodeHeader
  PROVE  Streaming' /\ Converting' /\ saved' = saved
<1>1. /\ UNCHANGED <<saved, entry, converting, header, at, phase>>
      /\ phase = "decode" /\ curblock = -1 /\ curblock' = 0
  BY DEF Sound!DecodeHeader
<1> DEFINE x == IF header = 0 THEN Sound!Junk ELSE Sound!Unit(header, 0)
           b == <<x>>
<1>2. b \in Seq(UnitSet) /\ Len(b) = 1 /\ b[1] = x
  <2>1. header \in Nat
    BY DEF Converting
  <2>2. x \in UnitSet
    BY <2>1 DEF Sound!Junk, Sound!Unit, UnitSet
  <2> HIDE DEF x
  <2> QED BY <2>2
<1>3. Sound!W!Write(b)
  BY DEF Sound!DecodeHeader
<1> HIDE DEF b
<1>4. /\ Streaming' /\ Len(sent') = Len(sent) + 1
      /\ \A k \in 1 .. Len(sent) : sent'[k] = sent[k]
      /\ sent'[Len(sent) + 1] = x
  BY <1>2, <1>3, WriteAppends
<1>5. Len(sent) \in Nat
  BY DEF Streaming
<1>6. Len(sent') >= Len(sent)
  BY <1>4, <1>5
<1>7. ASSUME Fresh, converting = 1
      PROVE  Decoding'
  <2>1. Decoding
    BY <1>1, <1>7 DEF Converting, FirstConversion
  <2>2. header = entry /\ sent = <<>> /\ at = table[entry].off + 1
    BY <1>1, <2>1 DEF Decoding
  <2>3. entry \in 1 .. Len(sounds) /\ ~Sound!Bad(entry)
    BY <1>1 DEF Passed, ArchiveLies
  <2>4. PICK o \in Nat, p \in Nat : o = table[entry].off /\ p = sounds[entry].parts
    <3>1. table[entry].off \in Nat /\ sounds[entry].parts \in Nat
      BY <2>3, EntryHeld
    <3> QED BY <3>1
  <2>5. /\ o + p + 1 <= Len(units) /\ Len(units) \in Nat
        /\ \A k \in 0 .. p : units[o + 1 + k] = Sound!Unit(entry, k)
    BY <2>3, <2>4, EntryHeld
  <2>6. units[o + 1] = Sound!Unit(entry, 0) /\ o + 1 <= Len(units)
    <3>1. 0 \in 0 .. p /\ o + 1 + 0 = o + 1
      OBVIOUS
    <3> QED BY <2>5, <3>1
  <2>7. Len(sent) = 0 /\ Len(sent') = 1
    BY <1>4, <2>2
  <2>8. sent'[1] = Sound!Unit(entry, 0)
    <3>1. x = Sound!Unit(entry, 0)
      BY <2>2, <2>3
    <3> HIDE DEF x
    <3> QED BY <1>4, <2>7, <3>1
  <2>9. \A k \in 1 .. Len(sent') : k = 1
    BY <2>7
  <2>10. RawBlocks'
    <3>1. Copied(o)'
      BY <2>6, <2>8, <2>9 DEF Copied
    <3>2. BlockSize * 0 = 0
      BY MediaAssumption DEF Sound!SoundAssumption
    <3>3. Len(sent') >= 1 + BlockSize * curblock'
      BY <1>1, <2>7, <3>2
    <3>4. at' = table'[entry'].off + Len(sent') /\ at' <= Len(units')
      BY <1>1, <2>2, <2>4, <2>6, <2>7
    <3>5. table'[entry'].off = o
      BY <1>1, <2>4
    <3> QED BY <2>7, <3>1, <3>3, <3>4, <3>5 DEF RawBlocks, Copied
  <2>11. PackedBlocks'
    <3>1. Len(sent') = 1 + curblock' /\ curblock' <= sounds'[entry'].parts
      BY <1>1, <2>4, <2>7
    <3>2. \A k \in 1 .. Len(sent') : sent'[k] = Sound!Unit(entry', k - 1)
      BY <1>1, <2>8, <2>9
    <3>3. at' = table'[entry'].off + 1 + curblock'
      BY <1>1, <2>2, <2>4
    <3> QED BY <3>1, <3>2, <3>3 DEF PackedBlocks
  <2> QED BY <1>1, <2>2, <2>10, <2>11 DEF Decoding
<1>8. at' \in Nat
  BY <1>1 DEF Converting
<1>9. phase' = "decode"
  BY <1>1
<1>10. Converting'
  BY <1>1, <1>4, <1>6, <1>7, <1>8, <1>9, SecondWrites
<1> QED BY <1>1, <1>4, <1>10

(* A raw block. *)
LEMMA RawWrites ==
  ASSUME ArchiveLies, Passed, Streaming, Converting, kind # "ovk",
         UNCHANGED <<kind, format, sounds, units, table>>,
         Sound!DecodeRaw, ~(at >= Len(units))
  PROVE  Streaming' /\ Converting' /\ saved' = saved
<1> DEFINE b == IF header = 0 THEN <<Sound!Junk>> ELSE Sound!Range(at, BlockSize)
<1>1. /\ UNCHANGED <<saved, entry, converting, header, phase>>
      /\ phase = "decode" /\ curblock \in 0 .. Sound!Blocks - 1 /\ curblock' = curblock + 1
      /\ Sound!W!Write(b) /\ at' = at + Len(b)
      /\ header # 0 => sounds[header].raw
  BY DEF Sound!DecodeRaw
<1>2. BlockSize \in Nat \ {0}
  BY MediaAssumption DEF Sound!SoundAssumption
<1>3. units \in Seq(UnitSet) /\ at \in Nat /\ at < Len(units) /\ Len(units) \in Nat
  BY DEF ArchiveLies, Converting
<1>4. /\ b \in Seq(UnitSet)
      /\ header # 0 => /\ Len(b) = IF at + BlockSize > Len(units) THEN Len(units) - at ELSE BlockSize
                       /\ \A j \in 1 .. Len(b) : b[j] = units[at + j]
  <2>1. CASE header = 0
    <3>1. Sound!Junk \in UnitSet
      BY DEF Sound!Junk, Sound!Unit, UnitSet
    <3> QED BY <2>1, <3>1
  <2>2. CASE header # 0
    <3>1. b = Sound!Range(at, BlockSize)
      BY <2>2
    <3> HIDE DEF b
    <3> QED BY <1>2, <1>3, <3>1, RangeRead
  <2> QED BY <2>1, <2>2
<1> HIDE DEF b
<1>5. /\ Streaming' /\ Len(sent') = Len(sent) + Len(b)
      /\ \A k \in 1 .. Len(sent) : sent'[k] = sent[k]
      /\ \A j \in 1 .. Len(b) : sent'[Len(sent) + j] = b[j]
  BY <1>1, <1>4, WriteAppends
<1>6. Len(sent) \in Nat /\ Len(b) \in Nat
  BY <1>4 DEF Streaming
<1>7. Len(sent') >= Len(sent) /\ at' \in Nat
  BY <1>1, <1>3, <1>5, <1>6
<1>8. ASSUME Fresh, converting = 1
      PROVE  Decoding'
  <2>1. Decoding
    BY <1>1, <1>8 DEF Converting, FirstConversion
  <2>2. entry \in 1 .. Len(sounds) /\ ~Sound!Bad(entry)
    BY <1>1 DEF Passed, ArchiveLies
  <2>3. header = entry /\ header # 0 /\ sounds[entry].raw
    BY <1>1, <2>1, <2>2 DEF Decoding
  <2>4. curblock # -1 /\ curblock \in Nat
    <3>1. curblock # -1
      BY <1>1
    <3> QED BY <2>1, <3>1 DEF Decoding
  <2>5. RawBlocks
    BY <2>1, <2>3, <2>4 DEF Decoding
  <2>6. PICK o \in Nat, l \in Nat, m \in Nat, n \in Nat, c \in Nat, a \in Nat :
           o = table[entry].off /\ l = Len(units) /\ m = Len(sent) /\ n = Len(b) /\ c = curblock /\ a = at
    <3>1. table[entry].off \in Nat
      BY <2>2, EntryHeld
    <3> QED BY <1>3, <1>6, <2>4, <3>1
  <2>7. a = o + m /\ a < l /\ m >= 1 /\ (m >= 1 + BlockSize * c \/ a = l)
    BY <1>3, <2>5, <2>6 DEF RawBlocks
  <2>8. n = IF a + BlockSize > l THEN l - a ELSE BlockSize
    BY <1>4, <2>3, <2>6
  <2>9. a + n <= l /\ o + (m + n) = a + n
    BY <1>2, <2>7, <2>8
  <2>10. m + n >= 1 + BlockSize * (c + 1) \/ a + n = l
    <3>1. CASE a + BlockSize > l
      BY <2>7, <2>8, <3>1
    <3>2. CASE ~(a + BlockSize > l)
      <4>1. n = BlockSize
        BY <2>8, <3>2
      <4>2. m >= 1 + BlockSize * c
        BY <2>7
      <4>3. BlockSize * (c + 1) = BlockSize * c + BlockSize /\ BlockSize * c \in Nat
        BY <1>2, OneBlockMore
      <4>4. PICK y \in Nat, z \in Nat : y = BlockSize * c /\ z = BlockSize
        BY <1>2, <4>3
      <4>5. m + z >= 1 + (y + z)
        BY <4>2, <4>4
      <4> QED BY <4>1, <4>3, <4>4, <4>5
    <3> QED BY <3>1, <3>2
  <2>11. \A k \in 1 .. m + n : o + k <= l /\ sent'[k] = units[o + k]
    <3> TAKE k \in 1 .. m + n
    <3>1. o + k <= l
      BY <2>9
    <3>2. CASE k \in 1 .. m
      BY <1>5, <2>5, <2>6, <3>1, <3>2 DEF RawBlocks, Copied
    <3>3. CASE k \notin 1 .. m
      <4>1. PICK j \in 1 .. n : m + j = k /\ a + j = o + k
        <5>1. k - m \in 1 .. n /\ m + (k - m) = k /\ a + (k - m) = o + k
          BY <2>7, <3>3
        <5> QED BY <5>1
      <4>2. sent'[m + j] = b[j]
        BY <1>5, <2>6
      <4>3. b[j] = units[a + j]
        BY <1>4, <2>3, <2>6
      <4> QED BY <3>1, <4>1, <4>2, <4>3
    <3> QED BY <3>2, <3>3
  <2>12. Len(sent') = m + n /\ at' = a + n /\ curblock' = c + 1
    BY <1>1, <1>5, <2>6
  <2>13. table'[entry'].off = o /\ Len(units') = l
    BY <1>1, <2>6
  <2>14. Copied(o)'
    BY <2>6, <2>11, <2>12 DEF Copied
  <2>15. RawBlocks'
    <3>1. m + n >= 1
      BY <2>7
    <3> QED BY <2>9, <2>10, <2>12, <2>13, <2>14, <3>1 DEF RawBlocks, Copied
  <2>16. curblock' \in Nat
    BY <2>12
  <2> QED BY <1>1, <2>3, <2>15, <2>16 DEF Decoding
<1>9. phase' = "decode"
  BY <1>1
<1>10. Converting'
  BY <1>1, <1>5, <1>7, <1>8, <1>9, SecondWrites
<1> QED BY <1>1, <1>5, <1>10

(* A compressed block. *)
LEMMA PackedWrites ==
  ASSUME ArchiveLies, Passed, Streaming, Converting, kind # "ovk",
         UNCHANGED <<kind, format, sounds, units, table>>,
         Sound!DecodeBlock
  PROVE  Streaming' /\ Converting' /\ saved' = saved
<1> DEFINE x == IF at < Len(units) THEN units[at + 1] ELSE Sound!Junk
           b == <<x>>
<1>1. /\ UNCHANGED <<saved, entry, converting, header, phase>>
      /\ phase = "decode" /\ curblock \in 0 .. Sound!Blocks - 1 /\ curblock' = curblock + 1
      /\ header # 0 /\ ~sounds[header].raw
      /\ Sound!W!Write(b)
  BY DEF Sound!DecodeBlock
<1>2. PICK n \in Sound!Advances : at' = IF at + n > Len(units) THEN Len(units) ELSE at + n
  BY DEF Sound!DecodeBlock
<1>3. units \in Seq(UnitSet) /\ at \in Nat /\ Len(units) \in Nat
  BY DEF ArchiveLies, Converting
<1>4. b \in Seq(UnitSet) /\ Len(b) = 1 /\ b[1] = x
  <2>1. CASE at < Len(units)
    <3>1. at + 1 \in 1 .. Len(units)
      BY <1>3, <2>1
    <3>2. x \in UnitSet
      BY <1>3, <2>1, <3>1
    <3> HIDE DEF x
    <3> QED BY <3>2
  <2>2. CASE ~(at < Len(units))
    <3>1. x \in UnitSet
      BY <2>2 DEF Sound!Junk, Sound!Unit, UnitSet
    <3> HIDE DEF x
    <3> QED BY <3>1
  <2> QED BY <2>1, <2>2
<1> HIDE DEF b
<1>5. /\ Streaming' /\ Len(sent') = Len(sent) + 1
      /\ \A k \in 1 .. Len(sent) : sent'[k] = sent[k]
      /\ sent'[Len(sent) + 1] = x
  <2> HIDE DEF x
  <2>1. /\ Streaming' /\ Len(sent') = Len(sent) + Len(b)
        /\ \A k \in 1 .. Len(sent) : sent'[k] = sent[k]
        /\ \A j \in 1 .. Len(b) : sent'[Len(sent) + j] = b[j]
    BY <1>1, <1>4, WriteAppends
  <2> QED BY <1>4, <2>1
<1>6. Len(sent) \in Nat
  BY DEF Streaming
<1>7. Len(sent') >= Len(sent)
  BY <1>5, <1>6
<1>8. at' \in Nat
  <2>1. n \in Nat
    BY DEF Sound!Advances
  <2> QED BY <1>2, <1>3, <2>1
<1>9. ASSUME Fresh, converting = 1
      PROVE  Decoding'
  <2>1. Decoding
    BY <1>1, <1>9 DEF Converting, FirstConversion
  <2>2. entry \in 1 .. Len(sounds) /\ ~Sound!Bad(entry)
    BY <1>1 DEF Passed, ArchiveLies
  <2>3. header = entry /\ ~sounds[entry].raw
    BY <1>1, <2>1 DEF Decoding
  <2>4. curblock # -1 /\ curblock \in Nat
    <3>1. curblock # -1
      BY <1>1
    <3> QED BY <2>1, <3>1 DEF Decoding
  <2>5. PackedBlocks
    BY <2>1, <2>3, <2>4 DEF Decoding
  <2>6. PICK o \in Nat, p \in Nat, l \in Nat, c \in Nat :
           o = table[entry].off /\ p = sounds[entry].parts /\ l = Len(units) /\ c = curblock
    <3>1. table[entry].off \in Nat /\ sounds[entry].parts \in Nat
      BY <2>2, EntryHeld
    <3> QED BY <1>3, <2>4, <3>1
  <2>7. Sound!Blocks = p
    BY <1>1, <2>3, <2>6 DEF Sound!Blocks
  <2>8. c < p /\ c + 1 <= p
    BY <1>1, <2>6, <2>7
  <2>9. at = o + 1 + c /\ Len(sent) = 1 + c
    BY <2>5, <2>6, <2>8 DEF PackedBlocks
  <2>10. o + p + 1 <= l /\ \A k \in 0 .. p : units[o + 1 + k] = Sound!Unit(entry, k)
    BY <2>2, <2>6, EntryHeld
  <2>11. x = Sound!Unit(entry, c + 1)
    <3>1. at < Len(units) /\ at + 1 = o + 1 + (c + 1) /\ c + 1 \in 0 .. p
      <4> HIDE DEF x
      <4>1. o + 1 + c < l /\ (o + 1 + c) + 1 = o + 1 + (c + 1) /\ c + 1 \in 0 .. p
        BY <2>8, <2>10
      <4> QED BY <2>6, <2>9, <4>1
    <3>2. units[o + 1 + (c + 1)] = Sound!Unit(entry, c + 1)
      BY <2>10, <3>1
    <3> QED BY <3>1, <3>2
  <2>12. Len(sent') = 1 + (c + 1) /\ curblock' = c + 1
    BY <1>1, <1>5, <2>6, <2>9
  <2>13. \A k \in 1 .. 1 + (c + 1) : sent'[k] = Sound!Unit(entry, k - 1)
    <3> TAKE k \in 1 .. 1 + (c + 1)
    <3>1. CASE k \in 1 .. 1 + c
      <4>1. k \in 1 .. Len(sent)
        BY <2>9, <3>1
      <4> QED BY <1>5, <2>5, <4>1 DEF PackedBlocks
    <3>2. CASE k \notin 1 .. 1 + c
      <4>1. k = 1 + (c + 1) /\ k = Len(sent) + 1 /\ k - 1 = c + 1
        BY <2>9, <3>2
      <4>2. sent'[k] = x
        BY <1>5, <4>1
      <4> HIDE DEF x
      <4> QED BY <2>11, <4>1, <4>2
    <3> QED BY <3>1, <3>2
  <2>14. c + 1 < p => at' = o + 1 + (c + 1)
    <3> SUFFICES ASSUME c + 1 < p PROVE at' = o + 1 + (c + 1)
      OBVIOUS
    <3>1. curblock # Sound!Blocks - 1
      BY <2>6, <2>7
    <3>2. n = 1
      BY <3>1 DEF Sound!Advances
    <3>3. at' = IF (o + 1 + c) + 1 > l THEN l ELSE (o + 1 + c) + 1
      BY <1>2, <2>6, <2>9, <3>2
    <3>4. ~((o + 1 + c) + 1 > l)
      BY <2>10
    <3> QED BY <3>3, <3>4
  <2>15. table'[entry'].off = o /\ sounds'[entry'].parts = p /\ entry' = entry
    BY <1>1, <2>6
  <2>16. PackedBlocks'
    BY <2>8, <2>12, <2>13, <2>14, <2>15 DEF PackedBlocks
  <2>17. curblock' \in Nat
    BY <2>12
  <2> QED BY <1>1, <2>3, <2>16, <2>17 DEF Decoding
<1>10. phase' = "decode"
  BY <1>1
<1>11. Converting'
  BY <1>1, <1>5, <1>7, <1>8, <1>9, <1>10, SecondWrites
<1> QED BY <1>1, <1>5, <1>11

(* The sound is saved as it is in the stream, or as the header in the stream
   tells the encoder. *)
LEMMA ConvertSaves ==
  ASSUME ArchiveLies, Passed, Streaming, Converting, SavedOwn, kind # "ovk",
         UNCHANGED <<kind, format, sounds, units, table>>,
         Sound!EndConvert
  PROVE  Streaming' /\ Converting' /\ SavedOwn'
<1>1. /\ phase = "ended" /\ phase' = "next" /\ entry' = entry + 1
      /\ UNCHANGED <<at, header, stream, offset, sent>>
      /\ \/ \E c \in Sound!Output : Sound!Save(entry, c)
         \/ saved' = saved
  BY DEF Sound!EndConvert, Sound!writer
<1>2. Streaming'
  BY <1>1 DEF Streaming
<1>3. entry \in 1 .. Len(sounds) /\ ~Sound!Bad(entry)
  BY <1>1 DEF Passed, ArchiveLies
<1>4. ~Fresh'
  <2>1. entry \in 1 .. entry' - 1
    BY <1>1, <1>3
  <2>2. ~Sound!Bad(entry)
    BY <1>3
  <2>3. \A n : Sound!Bad(n)' <=> Sound!Bad(n)
    BY DEF Sound!Bad
  <2> QED BY <2>1, <2>2, <2>3 DEF Fresh
<1>6. ASSUME kind = "nwk" => Fresh
      PROVE  /\ Starts(stream, entry)
             /\ Starts(Sound!Flac, entry)
             /\ sounds[entry].cd => \A shifted \in BOOLEAN : Starts(Sound!Vorbis(shifted), entry)
  <2>1. Fresh
    <3>1. CASE kind = "nwa"
      <4>1. entry = 1
        BY <1>3, <3>1 DEF ArchiveLies
      <4> QED BY <4>1 DEF Fresh
    <3> QED BY <1>6, <3>1 DEF ArchiveLies
  <2>2. Starts(sent, entry)
    BY <1>1, <2>1 DEF Converting, FirstConversion
  <2>3. PICK p \in Nat, m \in Nat, l \in Nat : p = sounds[entry].parts /\ m = Len(sent) /\ l = Len(stream)
    <3>1. sounds[entry].parts \in Nat
      BY <1>3, EntryHeld
    <3> QED BY <3>1 DEF Streaming
  <2>4. m >= p + 1 /\ m <= l
    BY <2>2, <2>3 DEF Starts, Streaming
  <2>5. \A k \in 1 .. p + 1 : k \in 1 .. m /\ k \in 1 .. l
    BY <2>4
  <2>6. \A k \in 1 .. p + 1 : stream[k] = Sound!Unit(entry, k - 1)
    BY <2>2, <2>3, <2>5 DEF Starts, Streaming
  <2>7. l >= p + 1
    BY <2>4
  <2>8. Starts(stream, entry)
    BY <2>3, <2>6, <2>7 DEF Starts, Streaming
  <2>9. Sound!Flac = SubSeq(stream, 1, p + 1)
    <3>1. 1 \in 1 .. p + 1
      OBVIOUS
    <3>2. stream[1] = Sound!Unit(entry, 1 - 1)
      BY <2>6, <3>1
    <3>3. stream[1].of = entry
      BY <3>2 DEF Sound!Unit
    <3> QED BY <2>3, <3>3 DEF Sound!Flac, Sound!HeadSound
  <2>10. /\ SubSeq(stream, 1, p + 1) \in Seq(UnitSet)
         /\ Len(SubSeq(stream, 1, p + 1)) = p + 1
         /\ \A k \in 1 .. p + 1 : SubSeq(stream, 1, p + 1)[k] = stream[k]
    <3>1. \A i \in 1 .. p + 1 : stream[i] \in UnitSet
      BY <2>3, <2>5 DEF Streaming
    <3>2. PICK z \in Int : z = p + 1
      OBVIOUS
    <3>3. /\ SubSeq(stream, 1, z) \in Seq(UnitSet)
          /\ Len(SubSeq(stream, 1, z)) = (IF 1 <= z THEN z - 1 + 1 ELSE 0)
          /\ \A i \in 1 .. z - 1 + 1 : SubSeq(stream, 1, z)[i] = stream[1 + i - 1]
      BY <3>1, <3>2, SubSeqProperties
    <3>4. (IF 1 <= z THEN z - 1 + 1 ELSE 0) = p + 1 /\ z - 1 + 1 = p + 1
          /\ \A i \in 1 .. p + 1 : 1 + i - 1 = i
      BY <3>2
    <3> QED BY <3>2, <3>3, <3>4
  <2>11. Starts(Sound!Flac, entry)
    <3> DEFINE c == SubSeq(stream, 1, p + 1)
    <3>1. c \in Seq(UnitSet) /\ Len(c) >= p + 1 /\ \A k \in 1 .. p + 1 : c[k] = Sound!Unit(entry, k - 1)
      BY <2>6, <2>10
    <3>2. Sound!Flac = c
      BY <2>9
    <3> HIDE DEF c
    <3> QED BY <2>3, <3>1, <3>2 DEF Starts
  <2>12. ASSUME sounds[entry].cd, NEW shifted \in BOOLEAN
         PROVE  Starts(Sound!Vorbis(shifted), entry)
    <3>1. DOMAIN stream = 1 .. l /\ \A k \in 1 .. l : stream[k] \in UnitSet
      BY <2>3 DEF Streaming
    <3>2. \A k \in 1 .. p + 1 : ~Sound!Garbled(k)
      <4> TAKE k \in 1 .. p + 1
      <4>2. stream[k] = Sound!Unit(entry, k - 1)
        BY <2>6
      <4>1. stream[k].of = entry
        BY <4>2 DEF Sound!Unit
      <4> QED BY <2>12, <4>1 DEF Sound!Garbled
    <3>3. \A k \in 1 .. p + 1 : \A i \in 1 .. k - 1 : i \in 1 .. p + 1
      OBVIOUS
    <3> DEFINE v == Sound!Vorbis(shifted)
               g(k) == Sound!Garbled(k) \/ (shifted /\ \E i \in 1 .. k - 1 : Sound!Garbled(i))
    <3>4. v = [k \in 1 .. l |-> IF g(k) THEN Sound!Junk ELSE stream[k]]
      BY <3>1 DEF Sound!Vorbis
    <3>5. \A k \in 1 .. p + 1 : ~g(k)
      BY <3>2, <3>3
    <3>6. Sound!Junk \in UnitSet
      BY DEF Sound!Junk, Sound!Unit, UnitSet
    <3> HIDE DEF v, g
    <3>7. v \in Seq(UnitSet) /\ Len(v) = l
      <4>1. v \in [1 .. l -> UnitSet]
        BY <3>1, <3>4, <3>6
      <4> QED BY <4>1
    <3>8. \A k \in 1 .. p + 1 : v[k] = Sound!Unit(entry, k - 1)
      BY <2>5, <2>6, <3>4, <3>5
    <3>9. Starts(v, entry)
      BY <2>3, <2>7, <3>7, <3>8 DEF Starts
    <3> QED BY <3>9 DEF v
  <2> QED BY <2>8, <2>11, <2>12
<1>7. SavedOwn'
  <2>1. CASE \E c \in Sound!Output : Sound!Save(entry, c)
    <3>1. PICK c \in Sound!Output : Sound!Save(entry, c)
      BY <2>1
    <3>2. ASSUME kind = "nwk" => Fresh, Fit(entry)
          PROVE  Starts(c, entry)
      <4>1. format \in {"wav", "flac", "vorbis"}
        BY DEF ArchiveLies
      <4>2. CASE format = "wav"
        BY <1>6, <3>1, <3>2, <4>2 DEF Sound!Output
      <4>3. CASE format = "flac"
        BY <1>6, <3>1, <3>2, <4>3 DEF Sound!Output
      <4>4. CASE format = "vorbis"
        <5>1. sounds[entry].cd
          BY <3>2, <4>4 DEF Fit
        <5>2. PICK shifted \in BOOLEAN : c = Sound!Vorbis(shifted)
          BY <3>1, <4>4 DEF Sound!Output
        <5> QED BY <1>6, <3>2, <5>1, <5>2
      <4> QED BY <4>1, <4>2, <4>3, <4>4
    <3> QED BY <3>1, <3>2, SaveKeeps
  <2>2. CASE saved' = saved
    BY <2>2, SavedStays
  <2> QED BY <1>1, <2>1, <2>2
<1>8. Headed'
  <2>1. ASSUME Fresh
        PROVE  Len(sent) >= 1 /\ sent[1].of = entry
    <3>1. Starts(sent, entry)
      BY <1>1, <2>1 DEF Converting, FirstConversion
    <3>2. PICK p \in Nat, m \in Nat : p = sounds[entry].parts /\ m = Len(sent)
      <4>1. sounds[entry].parts \in Nat
        BY <1>3 DEF ArchiveLies
      <4>2. Len(sent) \in Nat
        BY DEF Streaming
      <4> QED BY <4>1, <4>2
    <3>3. m >= p + 1 /\ 1 \in 1 .. p + 1
      BY <3>1, <3>2 DEF Starts
    <3>4. sent[1] = Sound!Unit(entry, 1 - 1)
      BY <3>1, <3>2, <3>3 DEF Starts
    <3>5. m >= 1
      BY <3>3
    <3> QED BY <3>2, <3>4, <3>5 DEF Sound!Unit
  <2>2. entry \in Nat \ {0}
    BY DEF Passed
  <2> QED BY <1>1, <2>1, <2>2, HeadedPasses DEF Converting
<1>5. Converting'
  BY <1>1, <1>4, <1>8 DEF Converting
<1> QED BY <1>2, <1>5, <1>7

(* Every step of the archives keeps the invariant. *)
LEMMA SoundSteps ==
  ASSUME SoundInv, Sound!Next \/ UNCHANGED Sound!vars
  PROVE  SoundInv'
<1>1. ArchiveLies /\ Passed /\ Streaming /\ Copying /\ Converting /\ SavedOwn
  BY DEF SoundInv
<1>2. UNCHANGED <<kind, format, sounds, units, table>>
  BY ArchiveStays
<1>3. ArchiveLies' /\ Passed'
  BY <1>1, SoundPasses
<1>4. CASE kind = "ovk"
  <2>1. Streaming' /\ Copying' /\ SavedOwn'
    BY <1>4, OvkSteps
  <2>2. Converting'
    BY <1>2, <1>4 DEF Converting
  <2> QED BY <1>3, <2>1, <2>2 DEF SoundInv
<1>5. CASE kind # "ovk"
  <2>1. Copying'
    BY <1>2, <1>5 DEF Copying
  <2>2. Streaming' /\ Converting' /\ (saved' = saved \/ SavedOwn')
    <3>1. CASE Sound!SkipEntry \/ Sound!BeginConvert \/ Sound!ConvertAgain \/ UNCHANGED Sound!vars
      BY <1>1, <1>2, <1>5, <3>1, ConvertMoves
    <3>2. CASE Sound!ReadHeader
      BY <1>1, <1>2, <1>5, <3>2, ConvertReads
    <3>3. CASE Sound!DecodeHeader
      BY <1>1, <1>2, <1>5, <3>3, HeaderWrites
    <3>4. CASE Sound!DecodeRaw /\ ~(at >= Len(units))
      BY <1>1, <1>2, <1>5, <3>4, RawWrites
    <3>5. CASE Sound!DecodeBlock
      BY <1>1, <1>2, <1>5, <3>5, PackedWrites
    <3>6. CASE Sound!EndDecode \/ (Sound!DecodeRaw /\ at >= Len(units))
      BY <1>1, <1>2, <1>5, <3>6, ConvertEnds
    <3>7. CASE Sound!EndConvert
      BY <1>1, <1>2, <1>5, <3>7, ConvertSaves
    <3>8. ~Sound!BeginCopy /\ ~Sound!CopyChunk /\ ~Sound!EndCopy
      BY <1>1, <1>5 DEF Converting, Sound!BeginCopy, Sound!CopyChunk, Sound!EndCopy
    <3> QED BY <3>1, <3>2, <3>3, <3>4, <3>5, <3>6, <3>7, <3>8 DEF Sound!Next, Sound!Ovk, Sound!Nwk
  <2>3. SavedOwn'
    BY <1>1, <1>2, <2>2, SavedStays
  <2> QED BY <1>3, <2>1, <2>2, <2>3 DEF SoundInv
<1> QED BY <1>4, <1>5

LEMMA SoundInvariant == MediaSpec => [](program = "sound" => SoundInv)
<1> DEFINE Inv == program = "sound" => SoundInv
<1>1. MediaInit => Inv
  BY SoundStarts DEF MediaInit
<1>2. Inv /\ [MediaNext]_mediavars => Inv'
  <2> SUFFICES ASSUME Inv, [MediaNext]_mediavars, program' = "sound"
               PROVE  SoundInv'
    OBVIOUS
  <2>1. program = "sound" /\ (Sound!Next \/ UNCHANGED soundvars)
    BY DEF MediaNext, mediavars
  <2>2. UNCHANGED soundvars => UNCHANGED Sound!vars
    BY DEF soundvars, Sound!vars, Sound!archive, Sound!writer
  <2> QED BY <2>1, <2>2, SoundSteps
<1> QED BY <1>1, <1>2, PTL DEF MediaSpec

(* Every file with a stream of its own starts with the sound of its entry: an
   OVK entry is copied whole, and an NWA sound, of 16-bit stereo if it becomes a
   Vorbis file, is converted from where it is, whatever the number, the order and the lengths of the sounds, the block, the
   chunk and the end of the file. *)
THEOREM SoundsAreOwn == MediaSpec => []OwnSoundInOwnStream
<1>1. ASSUME program = "sound" => SoundInv
      PROVE  OwnSoundInOwnStream
  <2> SUFFICES ASSUME SoundInv, NEW e \in DOMAIN saved,
                      kind = "nwk" => \A n \in 1 .. e - 1 : Sound!Bad(n), Fit(e)
               PROVE  Sound!StartsWith(saved[e], Sound!Own(e))
    BY <1>1 DEF OwnSoundInOwnStream, Sound!OwnSoundInOwnStream, Fit
  <2>1. Starts(saved[e], e)
    BY DEF SoundInv, SavedOwn
  <2>2. PICK p \in Nat : p = sounds[e].parts
    <3>1. e \in 1 .. Len(sounds)
      BY DEF SoundInv, Passed
    <3> QED BY <3>1 DEF SoundInv, ArchiveLies
  <2> DEFINE s == saved[e]
             o == Sound!Own(e)
  <2>3. s \in Seq(UnitSet) /\ Len(s) >= p + 1 /\ \A k \in 1 .. p + 1 : s[k] = Sound!Unit(e, k - 1)
    BY <2>1, <2>2 DEF Starts
  <2>4. o = [k \in 1 .. p + 1 |-> Sound!Unit(e, k - 1)]
    BY <2>2 DEF Sound!Own
  <2> HIDE DEF s, o
  <2>5. PICK z \in Int : z = p + 1
    OBVIOUS
  <2>6. \A i \in 1 .. z : s[i] \in UnitSet
    BY <2>3, <2>5
  <2>7. /\ SubSeq(s, 1, z) \in Seq(UnitSet)
        /\ Len(SubSeq(s, 1, z)) = (IF 1 <= z THEN z - 1 + 1 ELSE 0)
        /\ \A i \in 1 .. z - 1 + 1 : SubSeq(s, 1, z)[i] = s[1 + i - 1]
    BY <2>6, SubSeqProperties
  <2>8. (IF 1 <= z THEN z - 1 + 1 ELSE 0) = p + 1 /\ z - 1 + 1 = p + 1
        /\ \A i \in 1 .. p + 1 : 1 + i - 1 = i
    BY <2>5
  <2>9. Len(SubSeq(s, 1, z)) = p + 1 /\ \A i \in 1 .. p + 1 : SubSeq(s, 1, z)[i] = s[i]
    BY <2>7, <2>8
  <2>10. o \in Seq(UnitSet) /\ Len(o) = p + 1
    <3>1. \A k \in 1 .. p + 1 : o[k] \in UnitSet
      BY <2>3, <2>4, <2>5, <2>6
    <3> QED BY <2>4, <3>1
  <2>11. SubSeq(s, 1, z) = o
    <3>1. \A i \in 1 .. p + 1 : SubSeq(s, 1, z)[i] = o[i]
      BY <2>3, <2>4, <2>9
    <3> QED BY <2>7, <2>9, <2>10, <3>1, SeqEqual
  <2>12. Sound!StartsWith(s, o)
    BY <2>3, <2>5, <2>10, <2>11 DEF Sound!StartsWith
  <2> QED BY <2>12 DEF s, o
<1> QED BY <1>1, SoundInvariant, PTL

(* No entry that the file holds whole is passed over, whatever the others are:
   it was saved, its output file was refused, or the first sound of the archive
   is not 16-bit stereo and the entries become FLAC files. *)
THEOREM SoundsAreReached == MediaSpec => []NoneSkipped
<1>1. ASSUME program = "sound" => SoundInv
      PROVE  NoneSkipped
  <2> SUFFICES ASSUME SoundInv, NEW e \in 1 .. entry - 1, Sound!Whole(e), ~Sound!Unfit(e)
               PROVE  e \in DOMAIN saved \cup denied
    BY <1>1 DEF NoneSkipped, Sound!NoneSkipped
  <2>1. /\ e \in 1 .. Len(sounds) /\ units \in Seq(UnitSet) /\ sounds[e].parts \in Nat
        /\ table[e].off \in Nat \ {0} /\ table[e].siz = sounds[e].parts + 1
        /\ \A q \in 1 .. Len(units) : units[q].of = e => q = table[e].off + 1 + units[q].part
        /\ Sound!Bad(e) \/ e \in DOMAIN saved \cup denied
    BY DEF SoundInv, Passed, ArchiveLies
  <2>2. PICK o \in Nat, p \in Nat, l \in Nat : o = table[e].off /\ p = sounds[e].parts /\ l = Len(units)
    BY <2>1
  <2>3. Sound!Own(e) = [k \in 1 .. p + 1 |-> Sound!Unit(e, k - 1)]
    BY <2>2 DEF Sound!Own
  <2>4. p + 1 \in DOMAIN Sound!Own(e) /\ Sound!Own(e)[p + 1] = Sound!Unit(e, p)
    BY <2>3
  <2>5. PICK q \in DOMAIN units : units[q] = Sound!Unit(e, p)
    BY <2>4 DEF Sound!Whole
  <2>6. q \in 1 .. l /\ units[q].of = e /\ units[q].part = p
    BY <2>1, <2>2, <2>5 DEF Sound!Unit
  <2>7. q = o + 1 + p
    BY <2>1, <2>2, <2>6
  <2>8. o + (p + 1) <= l
    BY <2>6, <2>7
  <2>9. ~Sound!Bad(e)
    BY <2>1, <2>2, <2>8 DEF Sound!Bad
  <2> QED BY <2>1, <2>9
<1> QED BY <1>1, SoundInvariant, PTL

-----------------------------------------------------------------------------
(* The blocks of samples.  First the cursor: a field that lies where the cursor
   is comes out of getbits as it was put in. *)
LEMMA Powers ==
  /\ Block!Pow(0) = 1  /\ Block!Pow(1) = 2  /\ Block!Pow(2) = 4   /\ Block!Pow(3) = 8
  /\ Block!Pow(4) = 16 /\ Block!Pow(5) = 32 /\ Block!Pow(6) = 64 /\ Block!Pow(7) = 128
  /\ Block!Pow(8) = 256 /\ Block!Pow(16) = 65536
  BY DEF Block!Pow

LEMMA PowerIsNat ==
  ASSUME NEW n \in 0 .. 11
  PROVE  Block!Pow(n) \in Nat
<1>1. Block!Pow(9) = 512 /\ Block!Pow(10) = 1024 /\ Block!Pow(11) = 2048
  BY DEF Block!Pow
<1>2. n \in {0, 1, 2, 3, 4, 5, 6, 7, 8, 9, 10, 11}
  OBVIOUS
<1> QED BY <1>1, <1>2, Powers

(* The cursor stands behind p bits. *)
Cursor(cur, p) == cur.data \in Nat /\ cur.shift \in 0 .. 16 /\ 8 * cur.data + cur.shift = p

(* The bits of s follow the first p. *)
Here(p, s) == \A j \in 1 .. Len(s) : tmpdata[p + j] = s[j]

LEMMA CursorMoves ==
  ASSUME NEW cur, NEW p, Cursor(cur, p), NEW n \in 1 .. 8
  PROVE  /\ Cursor(Block!Moved(cur, n), p + n) /\ Block!Moved(cur, n).shift > 0
         /\ Cursor(Block!At(cur), p) /\ Block!At(cur).shift <= 8
<1>1. PICK x \in Nat, y \in 0 .. 16 : x = cur.data /\ y = cur.shift /\ 8 * x + y = p
  BY DEF Cursor
<1>2. PICK u \in Nat, w \in 0 .. 8 : u = Block!At(cur).data /\ w = Block!At(cur).shift /\ 8 * u + w = p
  <2>1. CASE y > 8
    BY <1>1, <2>1 DEF Block!At
  <2>2. CASE ~(y > 8)
    BY <1>1, <2>2 DEF Block!At
  <2> QED BY <2>1, <2>2
<1>3. Block!Moved(cur, n) = [data |-> u, shift |-> w + n]
  BY <1>2 DEF Block!Moved
<1>4. w + n \in 1 .. 16 /\ 8 * u + (w + n) = p + n
  BY <1>2
<1>5. Block!Moved(cur, n).data = u /\ Block!Moved(cur, n).shift = w + n
  BY <1>3
<1>6. Cursor(Block!Moved(cur, n), p + n) /\ Block!Moved(cur, n).shift > 0
  BY <1>4, <1>5 DEF Cursor
<1>7. Cursor(Block!At(cur), p) /\ Block!At(cur).shift <= 8
  BY <1>2 DEF Cursor
<1> QED BY <1>6, <1>7

(* The sum that getbits makes of the bits b. *)
Summed(v, b, n) == v = [k \in 0 .. n |-> IF k = 0 THEN 0 ELSE v[k - 1] + b[k - 1] * Block!Pow(k - 1)]

LEMMA SumExists ==
  ASSUME NEW n \in 1 .. 8, NEW b \in [0 .. n - 1 -> Int]
  PROVE  \E v : Summed(v, b, n)
<1> DEFINE F == [k \in 1 .. n |-> [x \in Int |-> x + b[k - 1] * Block!Pow(k - 1)]]
<1>1. F \in [1 .. n -> [Int -> Int]]
  <2>1. ASSUME NEW k \in 1 .. n, NEW x \in Int
        PROVE  x + b[k - 1] * Block!Pow(k - 1) \in Int
    <3>1. k - 1 \in 0 .. 11 /\ k - 1 \in 0 .. n - 1
      OBVIOUS
    <3>2. Block!Pow(k - 1) \in Nat
      <4> HIDE DEF F, Block!Pow
      <4> QED BY <3>1, PowerIsNat
    <3>3. b[k - 1] \in Int
      BY <3>1
    <3> QED BY <3>2, <3>3
  <2> QED BY <2>1
<1>2. \A k \in 1 .. n : \A x \in Int : F[k][x] = x + b[k - 1] * Block!Pow(k - 1)
  OBVIOUS
<1> HIDE DEF F
<1>3. PICK v \in [0 .. n -> Int] : Steps(v, 0, F, n)
  <2>1. n \in Nat /\ 0 \in Int
    OBVIOUS
  <2> QED BY <1>1, <2>1, StepsExist
<1>4. \A k \in 0 .. n : v[k] = IF k = 0 THEN 0 ELSE v[k - 1] + b[k - 1] * Block!Pow(k - 1)
  <2> TAKE k \in 0 .. n
  <2>1. CASE k = 0
    BY <1>3, <2>1 DEF Steps
  <2>2. CASE k # 0
    <3>1. k \in 1 .. n /\ v[k - 1] \in Int
      BY <2>2
    <3> QED BY <1>2, <1>3, <2>2, <3>1 DEF Steps
  <2> QED BY <2>1, <2>2
<1>5. Summed(v, b, n)
  BY <1>4 DEF Summed
<1> QED BY <1>5

LEMMA SumIs ==
  ASSUME NEW n \in 1 .. 8, NEW v, NEW b, Summed(v, b, n), NEW x \in Nat, x < Block!Pow(n),
         \A k \in 0 .. n - 1 : b[k] = (x \div Block!Pow(k)) % 2
  PROVE  v[n] = x
<1> DEFINE S(k) == k <= n => v[k] = x % Block!Pow(k)
<1>1. /\ v[0] = 0
      /\ \A k \in 1 .. n : v[k] = v[k - 1] + ((x \div Block!Pow(k - 1)) % 2) * Block!Pow(k - 1)
  BY DEF Summed
<1>2. x % 1 = 0 /\ (x \div 1) = x /\ \A k \in 1 .. 8 : k <= n => k \in 1 .. n
  OBVIOUS
<1> HIDE DEF Block!Pow
<1>3. S(0)
  BY <1>1, <1>2, Powers
<1>4. S(1)
  <2>1. (x % 1) + ((x \div 1) % 2) * 1 = x % 2
    OBVIOUS
  <2>2. 1 <= n => v[1] = v[0] + ((x \div 1) % 2) * 1
    <3>1. 1 <= n => 1 \in 1 .. n /\ 1 - 1 = 0
      OBVIOUS
    <3>2. 1 <= n => v[1] = v[0] + ((x \div Block!Pow(0)) % 2) * Block!Pow(0)
      BY <1>1, <3>1
    <3> QED BY <3>2, Powers
  <2>3. 1 <= n => 0 <= n
    OBVIOUS
  <2>4. Block!Pow(0) = 1 /\ Block!Pow(1) = 2
    BY Powers
  <2> QED BY <1>3, <2>1, <2>2, <2>3, <2>4
<1>5. S(2)
  <2>1. (x % 2) + ((x \div 2) % 2) * 2 = x % 4
    OBVIOUS
  <2>2. 2 <= n => v[2] = v[1] + ((x \div 2) % 2) * 2
    <3>1. 2 <= n => 2 \in 1 .. n /\ 2 - 1 = 1
      OBVIOUS
    <3>2. 2 <= n => v[2] = v[1] + ((x \div Block!Pow(1)) % 2) * Block!Pow(1)
      BY <1>1, <3>1
    <3> QED BY <3>2, Powers
  <2>3. 2 <= n => 1 <= n
    OBVIOUS
  <2>4. Block!Pow(1) = 2 /\ Block!Pow(2) = 4
    BY Powers
  <2> QED BY <1>4, <2>1, <2>2, <2>3, <2>4
<1>6. S(3)
  <2>1. (x % 4) + ((x \div 4) % 2) * 4 = x % 8
    OBVIOUS
  <2>2. 3 <= n => v[3] = v[2] + ((x \div 4) % 2) * 4
    <3>1. 3 <= n => 3 \in 1 .. n /\ 3 - 1 = 2
      OBVIOUS
    <3>2. 3 <= n => v[3] = v[2] + ((x \div Block!Pow(2)) % 2) * Block!Pow(2)
      BY <1>1, <3>1
    <3> QED BY <3>2, Powers
  <2>3. 3 <= n => 2 <= n
    OBVIOUS
  <2>4. Block!Pow(2) = 4 /\ Block!Pow(3) = 8
    BY Powers
  <2> QED BY <1>5, <2>1, <2>2, <2>3, <2>4
<1>7. S(4)
  <2>1. (x % 8) + ((x \div 8) % 2) * 8 = x % 16
    OBVIOUS
  <2>2. 4 <= n => v[4] = v[3] + ((x \div 8) % 2) * 8
    <3>1. 4 <= n => 4 \in 1 .. n /\ 4 - 1 = 3
      OBVIOUS
    <3>2. 4 <= n => v[4] = v[3] + ((x \div Block!Pow(3)) % 2) * Block!Pow(3)
      BY <1>1, <3>1
    <3> QED BY <3>2, Powers
  <2>3. 4 <= n => 3 <= n
    OBVIOUS
  <2>4. Block!Pow(3) = 8 /\ Block!Pow(4) = 16
    BY Powers
  <2> QED BY <1>6, <2>1, <2>2, <2>3, <2>4
<1>8. S(5)
  <2>1. (x % 16) + ((x \div 16) % 2) * 16 = x % 32
    OBVIOUS
  <2>2. 5 <= n => v[5] = v[4] + ((x \div 16) % 2) * 16
    <3>1. 5 <= n => 5 \in 1 .. n /\ 5 - 1 = 4
      OBVIOUS
    <3>2. 5 <= n => v[5] = v[4] + ((x \div Block!Pow(4)) % 2) * Block!Pow(4)
      BY <1>1, <3>1
    <3> QED BY <3>2, Powers
  <2>3. 5 <= n => 4 <= n
    OBVIOUS
  <2>4. Block!Pow(4) = 16 /\ Block!Pow(5) = 32
    BY Powers
  <2> QED BY <1>7, <2>1, <2>2, <2>3, <2>4
<1>9. S(6)
  <2>1. (x % 32) + ((x \div 32) % 2) * 32 = x % 64
    OBVIOUS
  <2>2. 6 <= n => v[6] = v[5] + ((x \div 32) % 2) * 32
    <3>1. 6 <= n => 6 \in 1 .. n /\ 6 - 1 = 5
      OBVIOUS
    <3>2. 6 <= n => v[6] = v[5] + ((x \div Block!Pow(5)) % 2) * Block!Pow(5)
      BY <1>1, <3>1
    <3> QED BY <3>2, Powers
  <2>3. 6 <= n => 5 <= n
    OBVIOUS
  <2>4. Block!Pow(5) = 32 /\ Block!Pow(6) = 64
    BY Powers
  <2> QED BY <1>8, <2>1, <2>2, <2>3, <2>4
<1>10. S(7)
  <2>1. (x % 64) + ((x \div 64) % 2) * 64 = x % 128
    OBVIOUS
  <2>2. 7 <= n => v[7] = v[6] + ((x \div 64) % 2) * 64
    <3>1. 7 <= n => 7 \in 1 .. n /\ 7 - 1 = 6
      OBVIOUS
    <3>2. 7 <= n => v[7] = v[6] + ((x \div Block!Pow(6)) % 2) * Block!Pow(6)
      BY <1>1, <3>1
    <3> QED BY <3>2, Powers
  <2>3. 7 <= n => 6 <= n
    OBVIOUS
  <2>4. Block!Pow(6) = 64 /\ Block!Pow(7) = 128
    BY Powers
  <2> QED BY <1>9, <2>1, <2>2, <2>3, <2>4
<1>11. S(8)
  <2>1. (x % 128) + ((x \div 128) % 2) * 128 = x % 256
    OBVIOUS
  <2>2. 8 <= n => v[8] = v[7] + ((x \div 128) % 2) * 128
    <3>1. 8 <= n => 8 \in 1 .. n /\ 8 - 1 = 7
      OBVIOUS
    <3>2. 8 <= n => v[8] = v[7] + ((x \div Block!Pow(7)) % 2) * Block!Pow(7)
      BY <1>1, <3>1
    <3> QED BY <3>2, Powers
  <2>3. 8 <= n => 7 <= n
    OBVIOUS
  <2>4. Block!Pow(7) = 128 /\ Block!Pow(8) = 256
    BY Powers
  <2> QED BY <1>10, <2>1, <2>2, <2>3, <2>4
<1>12. v[n] = x % Block!Pow(n)
  <2>1. n \in {1, 2, 3, 4, 5, 6, 7, 8}
    OBVIOUS
  <2> QED BY <1>4, <1>5, <1>6, <1>7, <1>8, <1>9, <1>10, <1>11, <2>1
<1>13. x % Block!Pow(n) = x
  <2>1. PICK q \in Nat : q = Block!Pow(n)
    <3>1. n \in 0 .. 11
      OBVIOUS
    <3> QED BY <3>1, PowerIsNat
  <2>2. x < q /\ x % q = x
    BY <2>1
  <2> QED BY <2>1, <2>2
<1> QED BY <1>12, <1>13

LEMMA FieldIsRead ==
  ASSUME NEW cur, NEW p, Cursor(cur, p), NEW n \in 1 .. 8, NEW x \in Nat, x < Block!Pow(n),
         Here(p, Block!Field(x, n))
  PROVE  Block!getbits(cur, n) = x
<1>1. PICK u \in Nat, w \in 0 .. 8 : u = Block!At(cur).data /\ w = Block!At(cur).shift /\ 8 * u + w = p
  BY CursorMoves DEF Cursor
<1> DEFINE b == [k \in 0 .. n - 1 |-> IF w + k < 16 THEN tmpdata[8 * u + w + k + 1] ELSE 0]
<1>2. \A k \in 0 .. n - 1 : b[k] = (x \div Block!Pow(k)) % 2 /\ b[k] \in Int
  <2> TAKE k \in 0 .. n - 1
  <2>1. w + k < 16 /\ 8 * u + w + k + 1 = p + (k + 1) /\ k + 1 \in 1 .. n /\ (k + 1) - 1 = k
    BY <1>1
  <2>2. Block!Field(x, n) = [i \in 1 .. n |-> (x \div Block!Pow(i - 1)) % 2]
    BY DEF Block!Field
  <2>3. Len(Block!Field(x, n)) = n
    BY <2>2
  <2>4. tmpdata[p + (k + 1)] = (x \div Block!Pow(k)) % 2
    BY <2>1, <2>2, <2>3 DEF Here
  <2>5. b[k] = (x \div Block!Pow(k)) % 2
    BY <2>1, <2>4
  <2>6. PICK q \in Nat \ {0} : q = Block!Pow(k)
    <3>1. k \in {0, 1, 2, 3, 4, 5, 6, 7}
      OBVIOUS
    <3> QED BY <3>1, Powers
  <2>7. (x \div q) % 2 \in Int
    OBVIOUS
  <2> QED BY <2>5, <2>6, <2>7
<1>3. b \in [0 .. n - 1 -> Int]
  BY <1>2
<1>4. Block!getbits(cur, n) = (CHOOSE v : Summed(v, b, n))[n]
  BY <1>1 DEF Block!getbits, Summed
<1> HIDE DEF b
<1>5. Summed(CHOOSE v : Summed(v, b, n), b, n)
  BY <1>3, SumExists
<1> QED BY <1>2, <1>4, <1>5, SumIs

(* What follows p bits, in two pieces. *)
LEMMA HereInPieces ==
  ASSUME NEW p \in Nat, NEW s \in Seq(Int), NEW t \in Seq(Int), Here(p, s \o t)
  PROVE  Here(p, s) /\ Here(p + Len(s), t)
<1>1. /\ Len(s \o t) = Len(s) + Len(t)
      /\ \A i \in 1 .. Len(s) + Len(t) : (s \o t)[i] = IF i <= Len(s) THEN s[i] ELSE t[i - Len(s)]
  BY ConcatProperties
<1>2. PICK m \in Nat, n \in Nat : m = Len(s) /\ n = Len(t)
  OBVIOUS
<1>3. \A i \in 1 .. m + n : tmpdata[p + i] = IF i <= m THEN s[i] ELSE t[i - m]
  BY <1>1, <1>2 DEF Here
<1>4. \A i \in 1 .. m : tmpdata[p + i] = s[i]
  BY <1>3
<1>5. \A i \in 1 .. n : tmpdata[(p + m) + i] = t[i]
  <2> TAKE i \in 1 .. n
  <2>1. m + i \in 1 .. m + n /\ ~(m + i <= m) /\ (m + i) - m = i /\ p + (m + i) = (p + m) + i
    OBVIOUS
  <2> QED BY <1>3, <2>1
<1> QED BY <1>2, <1>4, <1>5 DEF Here

LEMMA Glued ==
  ASSUME NEW s \in Seq(Int), NEW t \in Seq(Int)
  PROVE  s \o t \in Seq(Int) /\ Len(s \o t) = Len(s) + Len(t)
  BY ConcatProperties

LEMMA FieldTyped ==
  ASSUME NEW n \in 1 .. 8, NEW x \in Nat
  PROVE  Block!Field(x, n) \in Seq(Int) /\ Len(Block!Field(x, n)) = n
<1>1. Block!Field(x, n) = [k \in 1 .. n |-> (x \div Block!Pow(k - 1)) % 2]
  BY DEF Block!Field
<1>2. \A k \in 1 .. n : (x \div Block!Pow(k - 1)) % 2 \in Int
  <2> TAKE k \in 1 .. n
  <2>1. PICK q \in Nat \ {0} : q = Block!Pow(k - 1)
    <3>1. k - 1 \in {0, 1, 2, 3, 4, 5, 6, 7}
      OBVIOUS
    <3> HIDE DEF Block!Pow
    <3> QED BY <3>1, Powers
  <2>2. (x \div q) % 2 \in Int
    OBVIOUS
  <2> QED BY <2>1, <2>2
<1> HIDE DEF Block!Pow
<1> QED BY <1>1, <1>2

LEMMA BitIsField ==
  ASSUME NEW y \in {0, 1}, NEW p \in Nat
  PROVE  /\ Here(p, <<y>>) => Here(p, Block!Field(y, 1))
         /\ <<y>> \in Seq(Int) /\ Len(<<y>>) = 1
<1>1. Block!Field(y, 1) = [k \in 1 .. 1 |-> (y \div Block!Pow(k - 1)) % 2]
  BY DEF Block!Field
<1>2. (y \div 1) % 2 = y
  OBVIOUS
<1>3. Block!Field(y, 1)[1] = y /\ Len(Block!Field(y, 1)) = 1
  BY <1>1, <1>2, Powers
<1> QED BY <1>3 DEF Here

-----------------------------------------------------------------------------
(* One code. *)
InfoTyped ==
  /\ info.channels \in 1 .. 2 /\ info.bps \in {8, 16}
  /\ info.complevel \in 0 .. 5 /\ info.runs \in BOOLEAN

(* The arithmetic of the decoder and the widths of the format. *)
LEMMA Widths ==
  ASSUME InfoTyped
  PROVE  LET f == Block!Format[info.complevel]
         IN  /\ f.bits \in 1 .. 8 /\ f.bigbits \in 1 .. 8 /\ f.bigshift \in 0 .. 11
             /\ Block!BITS(7) = f.bigbits /\ Block!SHIFT(7) = f.bigshift
             /\ \A a \in 1 .. 6 : /\ f.shift + a \in 0 .. 11
                                  /\ Block!BITS(a) = f.bits /\ Block!SHIFT(a) = f.shift + a
<1>1. info.complevel \in {0, 1, 2, 3, 4, 5}
  BY DEF InfoTyped
<1>2. CASE info.complevel = 0
  <2>1. Block!Format[0] = [bits |-> 5, shift |-> 2, bigbits |-> 8, bigshift |-> 9]
    BY DEF Block!Format, Block!Width
  <2> QED BY <1>2, <2>1 DEF Block!BITS, Block!SHIFT
<1>3. CASE info.complevel = 1
  <2>1. Block!Format[1] = [bits |-> 4, shift |-> 3, bigbits |-> 7, bigshift |-> 10]
    BY DEF Block!Format, Block!Width
  <2> QED BY <1>3, <2>1 DEF Block!BITS, Block!SHIFT
<1>4. CASE info.complevel = 2
  <2>1. Block!Format[2] = [bits |-> 3, shift |-> 4, bigbits |-> 6, bigshift |-> 11]
    BY DEF Block!Format, Block!Width
  <2> QED BY <1>4, <2>1 DEF Block!BITS, Block!SHIFT
<1>5. CASE info.complevel = 3
  <2>1. Block!Format[3] = [bits |-> 6, shift |-> 1, bigbits |-> 8, bigshift |-> 9]
    BY DEF Block!Format, Block!Width
  <2> QED BY <1>5, <2>1 DEF Block!BITS, Block!SHIFT
<1>6. CASE info.complevel = 4
  <2>1. Block!Format[4] = [bits |-> 7, shift |-> 1, bigbits |-> 8, bigshift |-> 9]
    BY DEF Block!Format, Block!Width
  <2> QED BY <1>6, <2>1 DEF Block!BITS, Block!SHIFT
<1>7. CASE info.complevel = 5
  <2>1. Block!Format[5] = [bits |-> 8, shift |-> 1, bigbits |-> 8, bigshift |-> 9]
    BY DEF Block!Format, Block!Width
  <2> QED BY <1>7, <2>1 DEF Block!BITS, Block!SHIFT
<1> QED BY <1>1, <1>2, <1>3, <1>4, <1>5, <1>6, <1>7

LEMMA SignIsHighest ==
  ASSUME NEW n \in 1 .. 8, NEW x \in Nat, x < Block!Pow(n), NEW s \in Nat, NEW v \in Int
  PROVE  /\ Block!Signed(x, n) * s \in Int
         /\ v + Block!Signed(x, n) * s =
              IF x \div Block!Pow(n - 1) = 1 THEN v - (x % Block!Pow(n - 1)) * s
                                             ELSE v + (x % Block!Pow(n - 1)) * s
<1>1. PICK q \in Nat \ {0} : q = Block!Pow(n - 1) /\ Block!Pow(n) = 2 * q
  <2>1. n \in {1, 2, 3, 4, 5, 6, 7, 8}
    OBVIOUS
  <2> HIDE DEF Block!Pow
  <2> QED BY <2>1, Powers
<1>2. x < 2 * q
  BY <1>1
<1>3. CASE x >= q
  <2>1. x \div q = 1 /\ x % q = x - q
    <3>1. x = 1 * q + (x - q) /\ x - q \in 0 .. q - 1
      BY <1>2, <1>3
    <3>2. PICK r \in 0 .. q - 1 : r = x - q
      BY <3>1
    <3>3. x = q + r
      BY <3>2
    <3> QED BY <3>2, <3>3
  <2>2. Block!Signed(x, n) = -(x - q)
    BY <1>1, <1>3 DEF Block!Signed
  <2>3. PICK r \in Int : r = x - q
    OBVIOUS
  <2>4. (-r) * s = -(r * s) /\ r * s \in Int
    OBVIOUS
  <2> QED BY <1>1, <2>1, <2>2, <2>3, <2>4
<1>4. CASE x < q
  <2>1. x \div q = 0 /\ x % q = x
    BY <1>4
  <2>2. Block!Signed(x, n) = x
    BY <1>1, <1>4 DEF Block!Signed
  <2>3. x * s \in Int
    OBVIOUS
  <2> QED BY <1>1, <2>1, <2>2, <2>3
<1> QED BY <1>3, <1>4

LEMMA ChangeIsRead ==
  ASSUME NEW cur, NEW p, Cursor(cur, p), NEW type \in 1 .. 7, NEW n \in 1 .. 8, n = Block!BITS(type),
         NEW w \in 0 .. 11, w = Block!SHIFT(type), NEW x \in Nat, x < Block!Pow(n),
         Here(p, Block!Field(x, n)), d[flip_flag] \in Int
  PROVE  /\ Block!Changed(type, cur) = d[flip_flag] + Block!Signed(x, n) * Block!Pow(w)
         /\ Block!Signed(x, n) * Block!Pow(w) \in Int
<1>1. Block!getbits(cur, n) = x
  BY FieldIsRead
<1>2. PICK s \in Nat : s = Block!Pow(w)
  BY PowerIsNat
<1>3. Block!Changed(type, cur) =
        IF x \div Block!Pow(n - 1) = 1 THEN d[flip_flag] - (x % Block!Pow(n - 1)) * s
                                       ELSE d[flip_flag] + (x % Block!Pow(n - 1)) * s
  BY <1>1, <1>2 DEF Block!Changed
<1>4. PICK v \in Int : v = d[flip_flag]
  OBVIOUS
<1>5. /\ Block!Signed(x, n) * s \in Int
      /\ v + Block!Signed(x, n) * s = IF x \div Block!Pow(n - 1) = 1 THEN v - (x % Block!Pow(n - 1)) * s
                                                                    ELSE v + (x % Block!Pow(n - 1)) * s
  <2> HIDE DEF Block!Pow, Block!Signed
  <2> QED BY SignIsHighest
<1> QED BY <1>2, <1>3, <1>4, <1>5

(* What a code says of one sample: nothing of it changes if it stands for more. *)
CodeTyped(e) ==
  /\ e.bits \in Seq(Int) /\ Len(e.bits) >= 3
  /\ e.change \in Int /\ e.more \in Nat
  /\ e.more > 0 => e.change = 0 /\ ~e.zero

(* The decoder, p bits from the front, takes a code for what it is. *)
TakenFor(e, p) ==
  /\ Block!Decoded.sample = (IF e.zero THEN 0 ELSE d[flip_flag] + e.change)
  /\ Block!Decoded.run = e.more
  /\ Cursor(Block!Decoded.cur, p + Len(e.bits)) /\ Block!Decoded.cur.shift > 0

Now == [data |-> data, shift |-> shift]

LEMMA SmallIsRead ==
  ASSUME InfoTyped, NEW a \in 1 .. 6, NEW x \in Nat, x < Block!Pow(Block!Format[info.complevel].bits)
  PROVE  LET e == Block!Small(info.complevel, a, x)
         IN  /\ CodeTyped(e)
             /\ \A p \in Nat : Cursor(Now, p) /\ Here(p, e.bits) /\ d[flip_flag] \in Int => TakenFor(e, p)
<1> DEFINE f == Block!Format[info.complevel]
           e == Block!Small(info.complevel, a, x)
           A == Block!Field(a, 3)
           B == Block!Field(x, f.bits)
<1>1. /\ f.bits \in 1 .. 8 /\ f.shift + a \in 0 .. 11
      /\ Block!BITS(a) = f.bits /\ Block!SHIFT(a) = f.shift + a
  <2> HIDE DEF Block!Format
  <2> QED BY Widths
<1>2. PICK n \in 1 .. 8, w \in 0 .. 11 : n = f.bits /\ w = f.shift + a
  BY <1>1
<1>3. /\ e.bits = A \o B /\ e.change = Block!Signed(x, n) * Block!Pow(w)
      /\ e.zero = FALSE /\ e.more = 0
  BY <1>2 DEF Block!Small, Block!Code
<1>4. /\ A \in Seq(Int) /\ Len(A) = 3 /\ B \in Seq(Int) /\ Len(B) = n
  <2>1. 3 \in 1 .. 8 /\ a \in Nat
    OBVIOUS
  <2>2. A \in Seq(Int) /\ Len(A) = 3
    BY <2>1, FieldTyped
  <2> QED BY <1>2, <2>2, FieldTyped
<1> HIDE DEF A, B, e, f, Block!Signed, Block!Pow
<1>5. e.bits \in Seq(Int) /\ Len(e.bits) = 3 + n
  <2>1. /\ A \o B \in Seq(Int) /\ Len(A \o B) = Len(A) + Len(B)
    BY <1>4, ConcatProperties
  <2> QED BY <1>3, <1>4, <2>1
<1>6. ASSUME NEW p \in Nat, Cursor(Now, p), Here(p, e.bits), d[flip_flag] \in Int
      PROVE  TakenFor(e, p)
  <2>1. Here(p, A) /\ Here(p + 3, B)
    <3>1. Here(p, A \o B)
      BY <1>3, <1>6
    <3>2. Here(p, A) /\ Here(p + Len(A), B)
      BY <1>4, <3>1, HereInPieces
    <3> QED BY <1>4, <3>2
  <2>2. Block!getbits(Now, 3) = a
    <3>1. a < Block!Pow(3) /\ 3 \in 1 .. 8 /\ a \in Nat
      BY Powers
    <3> QED BY <1>6, <2>1, <3>1, FieldIsRead DEF A
  <2>3. Cursor(Block!Moved(Now, 3), p + 3)
    BY <1>6, CursorMoves
  <2>4. Block!Changed(a, Block!Moved(Now, 3)) = d[flip_flag] + Block!Signed(x, n) * Block!Pow(w)
    <3>1. a \in 1 .. 7 /\ x < Block!Pow(n) /\ Here(p + 3, Block!Field(x, n))
      BY <1>2, <2>1 DEF B, f
    <3> QED BY <1>1, <1>2, <1>6, <2>3, <3>1, ChangeIsRead
  <2>5. Cursor(Block!Moved(Block!Moved(Now, 3), n), (p + 3) + n)
        /\ Block!Moved(Block!Moved(Now, 3), n).shift > 0
    BY <2>3, CursorMoves
  <2>6. Block!Decoded = Block!Result(Block!Changed(a, Block!Moved(Now, 3)), 0, Block!Moved(Block!Moved(Now, 3), n))
    BY <1>1, <1>2, <2>2 DEF Block!Decoded, Now
  <2>7. (p + 3) + n = p + Len(e.bits)
    BY <1>5
  <2> QED BY <1>3, <2>4, <2>5, <2>6, <2>7 DEF TakenFor, Block!Result
<1>7. CodeTyped(e)
  <2>1. Block!Signed(x, n) * Block!Pow(w) \in Int
    <3>1. PICK s \in Nat : s = Block!Pow(w)
      BY PowerIsNat
    <3>2. x < Block!Pow(n) /\ 0 \in Int
      BY <1>2 DEF f
    <3> QED BY <3>1, <3>2, SignIsHighest
  <2>2. Len(e.bits) >= 3
    BY <1>5
  <2>3. e.more \in Nat /\ ~(e.more > 0)
    BY <1>3
  <2>4. e.change \in Int
    BY <1>3, <2>1
  <2> QED BY <1>5, <2>2, <2>3, <2>4 DEF CodeTyped
<1> QED BY <1>6, <1>7 DEF e

LEMMA BigIsRead ==
  ASSUME InfoTyped, NEW x \in Nat, x < Block!Pow(Block!Format[info.complevel].bigbits)
  PROVE  LET e == Block!Big(info.complevel, x)
         IN  /\ CodeTyped(e)
             /\ \A p \in Nat : Cursor(Now, p) /\ Here(p, e.bits) /\ d[flip_flag] \in Int => TakenFor(e, p)
<1> DEFINE f == Block!Format[info.complevel]
           e == Block!Big(info.complevel, x)
           A == Block!Field(7, 3)
           B == Block!Field(x, f.bigbits)
<1>1. /\ f.bigbits \in 1 .. 8 /\ f.bigshift \in 0 .. 11
      /\ Block!BITS(7) = f.bigbits /\ Block!SHIFT(7) = f.bigshift
  <2> HIDE DEF Block!Format
  <2> QED BY Widths
<1>2. PICK n \in 1 .. 8, w \in 0 .. 11 : n = f.bigbits /\ w = f.bigshift
  BY <1>1
<1>3. /\ e.bits = (A \o <<0>>) \o B /\ e.change = Block!Signed(x, n) * Block!Pow(w)
      /\ e.zero = FALSE /\ e.more = 0
  BY <1>2 DEF Block!Big, Block!Code
<1>4. /\ A \in Seq(Int) /\ Len(A) = 3 /\ B \in Seq(Int) /\ Len(B) = n
  <2>1. 3 \in 1 .. 8 /\ 7 \in Nat
    OBVIOUS
  <2>2. A \in Seq(Int) /\ Len(A) = 3
    BY <2>1, FieldTyped
  <2> QED BY <1>2, <2>2, FieldTyped
<1> HIDE DEF A, B, e, f, Block!Signed, Block!Pow
<1>5. A \o <<0>> \in Seq(Int) /\ Len(A \o <<0>>) = 4 /\ <<0>> \in Seq(Int)
  <2>1. <<0>> \in Seq(Int) /\ Len(<<0>>) = 1
    OBVIOUS
  <2>2. A \o <<0>> \in Seq(Int) /\ Len(A \o <<0>>) = Len(A) + Len(<<0>>)
    BY <1>4, <2>1, Glued
  <2> QED BY <1>4, <2>1, <2>2
<1>6. e.bits \in Seq(Int) /\ Len(e.bits) = 4 + n
  <2> DEFINE C == A \o <<0>>
  <2>1. C \in Seq(Int) /\ Len(C) = 4 /\ e.bits = C \o B
    BY <1>3, <1>5
  <2> HIDE DEF C
  <2>2. C \o B \in Seq(Int) /\ Len(C \o B) = Len(C) + Len(B)
    BY <1>4, <2>1, Glued
  <2> QED BY <1>4, <2>1, <2>2
<1>7. ASSUME NEW p \in Nat, Cursor(Now, p), Here(p, e.bits), d[flip_flag] \in Int
      PROVE  TakenFor(e, p)
  <2>1. Here(p, A) /\ Here(p + 3, <<0>>) /\ Here(p + 4, B)
    <3> DEFINE C == A \o <<0>>
    <3>1. C \in Seq(Int) /\ Len(C) = 4 /\ Here(p, C \o B)
      BY <1>3, <1>5, <1>7
    <3>2. Here(p, C) /\ Here(p + 4, B)
      <4> HIDE DEF C
      <4> QED BY <1>4, <3>1, HereInPieces
    <3>3. Here(p, A \o <<0>>)
      BY <3>2
    <3>4. Here(p, A) /\ Here(p + Len(A), <<0>>)
      BY <1>4, <1>5, <3>3, HereInPieces
    <3> QED BY <1>4, <3>2, <3>4
  <2>2. Block!getbits(Now, 3) = 7
    <3>1. 7 < Block!Pow(3) /\ 3 \in 1 .. 8 /\ 7 \in Nat
      BY Powers
    <3> QED BY <1>7, <2>1, <3>1, FieldIsRead DEF A
  <2>3. Cursor(Block!Moved(Now, 3), p + 3)
    BY <1>7, CursorMoves
  <2>4. Block!getbits(Block!Moved(Now, 3), 1) = 0
    <3>1. 0 < Block!Pow(1) /\ 1 \in 1 .. 8 /\ 0 \in Nat /\ p + 3 \in Nat /\ 0 \in {0, 1}
      BY Powers
    <3>2. Here(p + 3, Block!Field(0, 1))
      BY <2>1, <3>1, BitIsField
    <3> QED BY <2>3, <3>1, <3>2, FieldIsRead
  <2>5. Cursor(Block!Moved(Block!Moved(Now, 3), 1), p + 4)
    <3>1. Cursor(Block!Moved(Block!Moved(Now, 3), 1), (p + 3) + 1) /\ (p + 3) + 1 = p + 4
      BY <2>3, CursorMoves
    <3> QED BY <3>1
  <2> DEFINE c == Block!Moved(Block!Moved(Now, 3), 1)
  <2>6. Block!Decoded = Block!Result(Block!Changed(7, c), 0, Block!Moved(c, n))
    BY <1>1, <1>2, <2>2, <2>4 DEF Block!Decoded, Now
  <2> HIDE DEF c
  <2>7. Block!Changed(7, c) = d[flip_flag] + Block!Signed(x, n) * Block!Pow(w)
    <3>1. 7 \in 1 .. 7 /\ x < Block!Pow(n) /\ Here(p + 4, Block!Field(x, n))
      BY <1>2, <2>1 DEF B, f
    <3>2. Cursor(c, p + 4)
      BY <2>5 DEF c
    <3> QED BY <1>1, <1>2, <1>7, <3>1, <3>2, ChangeIsRead
  <2>8. Cursor(Block!Moved(c, n), (p + 4) + n) /\ Block!Moved(c, n).shift > 0
    <3>1. Cursor(c, p + 4)
      BY <2>5 DEF c
    <3> QED BY <3>1, CursorMoves
  <2>9. (p + 4) + n = p + Len(e.bits)
    BY <1>6
  <2> QED BY <1>3, <2>6, <2>7, <2>8, <2>9 DEF TakenFor, Block!Result
<1>8. CodeTyped(e)
  <2>1. Block!Signed(x, n) * Block!Pow(w) \in Int
    <3>1. PICK s \in Nat : s = Block!Pow(w)
      BY PowerIsNat
    <3>2. x < Block!Pow(n) /\ 0 \in Int
      BY <1>2 DEF f
    <3> QED BY <3>1, <3>2, SignIsHighest
  <2>2. Len(e.bits) >= 3
    BY <1>6
  <2>3. e.more \in Nat /\ ~(e.more > 0)
    BY <1>3
  <2>4. e.change \in Int
    BY <1>3, <2>1
  <2> QED BY <1>6, <2>2, <2>3, <2>4 DEF CodeTyped
<1> QED BY <1>7, <1>8 DEF e

LEMMA UnusedIsRead ==
  LET e == Block!Unused
  IN  /\ CodeTyped(e)
      /\ \A p \in Nat : Cursor(Now, p) /\ Here(p, e.bits) => TakenFor(e, p)
<1> DEFINE e == Block!Unused
           A == Block!Field(7, 3)
<1>1. /\ e.bits = A \o <<1>> /\ e.change = 0 /\ e.more = 0
  BY DEF Block!Unused, Block!Code
<1>2. e.zero = TRUE
  BY DEF Block!Unused, Block!Code
<1>3. A \in Seq(Int) /\ Len(A) = 3 /\ <<1>> \in Seq(Int) /\ Len(<<1>>) = 1
  <2>1. 3 \in 1 .. 8 /\ 7 \in Nat
    OBVIOUS
  <2>2. A \in Seq(Int) /\ Len(A) = 3
    BY <2>1, FieldTyped
  <2>3. <<1>> \in Seq(Int) /\ Len(<<1>>) = 1
    OBVIOUS
  <2> QED BY <2>2, <2>3
<1> HIDE DEF A, e
<1>4. e.bits \in Seq(Int) /\ Len(e.bits) = 4
  <2>1. A \o <<1>> \in Seq(Int) /\ Len(A \o <<1>>) = Len(A) + Len(<<1>>)
    BY <1>3, Glued
  <2> QED BY <1>1, <1>3, <2>1
<1>5. ASSUME NEW p \in Nat, Cursor(Now, p), Here(p, e.bits)
      PROVE  TakenFor(e, p)
  <2>1. Here(p, A) /\ Here(p + 3, <<1>>)
    <3>1. Here(p, A \o <<1>>)
      BY <1>1, <1>5
    <3>2. Here(p, A) /\ Here(p + Len(A), <<1>>)
      BY <1>3, <3>1, HereInPieces
    <3> QED BY <1>3, <3>2
  <2>2. Block!getbits(Now, 3) = 7
    <3>1. 7 < Block!Pow(3) /\ 3 \in 1 .. 8 /\ 7 \in Nat
      BY Powers
    <3> QED BY <1>5, <2>1, <3>1, FieldIsRead DEF A
  <2>3. Cursor(Block!Moved(Now, 3), p + 3)
    BY <1>5, CursorMoves
  <2>4. Block!getbits(Block!Moved(Now, 3), 1) = 1
    <3>1. 1 < Block!Pow(1) /\ 1 \in 1 .. 8 /\ 1 \in Nat /\ p + 3 \in Nat /\ 1 \in {0, 1}
      BY Powers
    <3>2. Here(p + 3, Block!Field(1, 1))
      BY <2>1, <3>1, BitIsField
    <3> QED BY <2>3, <3>1, <3>2, FieldIsRead
  <2>5. /\ Cursor(Block!Moved(Block!Moved(Now, 3), 1), (p + 3) + 1)
        /\ Block!Moved(Block!Moved(Now, 3), 1).shift > 0
    BY <2>3, CursorMoves
  <2>6. Block!Decoded = Block!Result(0, 0, Block!Moved(Block!Moved(Now, 3), 1))
    BY <2>2, <2>4 DEF Block!Decoded, Now
  <2>7. (p + 3) + 1 = p + Len(e.bits)
    BY <1>4
  <2> QED BY <1>1, <1>2, <2>5, <2>6, <2>7 DEF TakenFor, Block!Result
<1>6. CodeTyped(e)
  BY <1>1, <1>4 DEF CodeTyped
<1> QED BY <1>5, <1>6 DEF e

Runs == info.runs

LEMMA SameIsRead ==
  ASSUME ~Runs
  PROVE  LET e == Block!Same
         IN  /\ CodeTyped(e)
             /\ \A p \in Nat : Cursor(Now, p) /\ Here(p, e.bits) /\ d[flip_flag] \in Int => TakenFor(e, p)
<1> DEFINE e == Block!Same
<1>1. e.bits = Block!Field(0, 3) /\ e.change = 0 /\ e.more = 0
  BY DEF Block!Same, Block!Code
<1>5. ~e.zero
  BY DEF Block!Same, Block!Code
<1>2. e.bits \in Seq(Int) /\ Len(e.bits) = 3
  <2>1. 3 \in 1 .. 8 /\ 0 \in Nat
    OBVIOUS
  <2> QED BY <1>1, <2>1, FieldTyped
<1> HIDE DEF e
<1>3. ASSUME NEW p \in Nat, Cursor(Now, p), Here(p, e.bits), d[flip_flag] \in Int
      PROVE  TakenFor(e, p)
  <2>1. Block!getbits(Now, 3) = 0
    <3>1. 0 < Block!Pow(3) /\ 3 \in 1 .. 8 /\ 0 \in Nat
      BY Powers
    <3> QED BY <1>1, <1>3, <3>1, FieldIsRead
  <2>2. Cursor(Block!Moved(Now, 3), p + 3) /\ Block!Moved(Now, 3).shift > 0
    BY <1>3, CursorMoves
  <2>3. Block!Decoded = Block!Result(d[flip_flag], 0, Block!Moved(Now, 3))
    BY <2>1 DEF Block!Decoded, Now, Block!Run, Runs
  <2>4. d[flip_flag] = d[flip_flag] + 0
    BY <1>3
  <2> QED BY <1>1, <1>2, <1>5, <2>2, <2>3, <2>4 DEF TakenFor, Block!Result
<1>4. CodeTyped(e)
  <2>1. Len(e.bits) >= 3
    BY <1>2
  <2>2. e.change \in Int /\ e.more \in Nat /\ ~(e.more > 0)
    <3>1. e.change = 0 /\ e.more = 0
      BY <1>1
    <3> QED BY <3>1
  <2> QED BY <1>2, <1>5, <2>1, <2>2 DEF CodeTyped
<1> QED BY <1>3, <1>4 DEF e

(* The bits of a run behind its type. *)
RunBits(r) == IF r = 0 THEN <<0>>
              ELSE IF r < 3 THEN <<1>> \o Block!Field(r, 2)
              ELSE <<1, 1, 1>> \o Block!Field(r, 8)

LEMMA RunIsRead ==
  ASSUME Runs, NEW r \in 0 .. 255, NEW cur, NEW q \in Nat, Cursor(cur, q), Here(q, RunBits(r))
  PROVE  /\ RunBits(r) \in Seq(Int) /\ Len(RunBits(r)) > 0
         /\ \E c : /\ Block!Run(cur) = Block!Result(d[flip_flag], r, c)
                   /\ Cursor(c, q + Len(RunBits(r))) /\ c.shift > 0
<1>1. /\ Cursor(Block!Moved(cur, 1), q + 1) /\ Block!Moved(cur, 1).shift > 0
  BY CursorMoves
<1>2. /\ Cursor(Block!Moved(Block!Moved(cur, 1), 2), q + 3)
      /\ Block!Moved(Block!Moved(cur, 1), 2).shift > 0
  <2>1. (q + 1) + 2 = q + 3 /\ 2 \in 1 .. 8
    OBVIOUS
  <2> QED BY <1>1, <2>1, CursorMoves
<1>3. /\ Cursor(Block!Moved(Block!Moved(Block!Moved(cur, 1), 2), 8), q + 11)
      /\ Block!Moved(Block!Moved(Block!Moved(cur, 1), 2), 8).shift > 0
  <2>1. (q + 3) + 8 = q + 11 /\ 8 \in 1 .. 8
    OBVIOUS
  <2> QED BY <1>2, <2>1, CursorMoves
<1>4. \A y \in {0, 1} : Here(q, <<y>>) => Block!getbits(cur, 1) = y
  <2> TAKE y \in {0, 1}
  <2>1. y < Block!Pow(1) /\ 1 \in 1 .. 8 /\ y \in Nat
    BY Powers
  <2>2. Here(q, <<y>>) => Here(q, Block!Field(y, 1))
    BY BitIsField
  <2> QED BY <2>1, <2>2, FieldIsRead
<1>5. CASE r = 0
  <2>1. RunBits(r) = <<0>>
    BY <1>5 DEF RunBits
  <2>2. Block!getbits(cur, 1) = 0
    BY <1>4, <2>1
  <2>3. Block!Run(cur) = Block!Result(d[flip_flag], r, Block!Moved(cur, 1))
    BY <1>5, <2>2 DEF Block!Run, Runs
  <2>4. RunBits(r) \in Seq(Int) /\ Len(RunBits(r)) = 1
    BY <2>1
  <2> QED BY <1>1, <2>3, <2>4
<1>6. CASE r # 0 /\ r < 3
  <2> DEFINE B == Block!Field(r, 2)
  <2>1. RunBits(r) = <<1>> \o B
    BY <1>6 DEF RunBits
  <2>2. B \in Seq(Int) /\ Len(B) = 2 /\ <<1>> \in Seq(Int) /\ Len(<<1>>) = 1
    <3>1. 2 \in 1 .. 8 /\ r \in Nat
      OBVIOUS
    <3>2. B \in Seq(Int) /\ Len(B) = 2
      BY <3>1, FieldTyped
    <3> QED BY <3>2
  <2> HIDE DEF B
  <2>3. RunBits(r) \in Seq(Int) /\ Len(RunBits(r)) = 3
    <3>1. <<1>> \o B \in Seq(Int) /\ Len(<<1>> \o B) = Len(<<1>>) + Len(B)
      BY <2>2, Glued
    <3> QED BY <2>1, <2>2, <3>1
  <2>4. Here(q, <<1>>) /\ Here(q + 1, B)
    <3>1. Here(q, <<1>> \o B)
      BY <2>1
    <3>2. Here(q, <<1>>) /\ Here(q + Len(<<1>>), B)
      BY <2>2, <3>1, HereInPieces
    <3> QED BY <2>2, <3>2
  <2>5. Block!getbits(cur, 1) = 1
    BY <1>4, <2>4
  <2>6. Block!getbits(Block!Moved(cur, 1), 2) = r
    <3>1. r < Block!Pow(2) /\ 2 \in 1 .. 8 /\ r \in Nat
      BY <1>6, Powers
    <3> QED BY <1>1, <2>4, <3>1, FieldIsRead DEF B
  <2>7. Block!Run(cur) = Block!Result(d[flip_flag], r, Block!Moved(Block!Moved(cur, 1), 2))
    BY <1>6, <2>5, <2>6 DEF Block!Run, Runs
  <2> QED BY <1>2, <2>3, <2>7
<1>7. CASE ~(r < 3)
  <2> DEFINE B == Block!Field(r, 8)
  <2>1. RunBits(r) = <<1, 1, 1>> \o B
    BY <1>7 DEF RunBits
  <2>2. B \in Seq(Int) /\ Len(B) = 8 /\ <<1, 1, 1>> \in Seq(Int) /\ Len(<<1, 1, 1>>) = 3
    <3>1. 8 \in 1 .. 8 /\ r \in Nat
      OBVIOUS
    <3>2. B \in Seq(Int) /\ Len(B) = 8
      BY <3>1, FieldTyped
    <3> QED BY <3>2
  <2> HIDE DEF B
  <2>3. RunBits(r) \in Seq(Int) /\ Len(RunBits(r)) = 11
    <3>1. <<1, 1, 1>> \o B \in Seq(Int) /\ Len(<<1, 1, 1>> \o B) = Len(<<1, 1, 1>>) + Len(B)
      BY <2>2, Glued
    <3> QED BY <2>1, <2>2, <3>1
  <2>4. Here(q, <<1, 1, 1>>) /\ Here(q + 3, B)
    <3>1. Here(q, <<1, 1, 1>> \o B)
      BY <2>1
    <3>2. Here(q, <<1, 1, 1>>) /\ Here(q + Len(<<1, 1, 1>>), B)
      BY <2>2, <3>1, HereInPieces
    <3> QED BY <2>2, <3>2
  <2>5. Here(q, <<1>>) /\ Here(q + 1, Block!Field(3, 2))
    <3>1. tmpdata[q + 1] = 1 /\ tmpdata[q + 2] = 1 /\ tmpdata[q + 3] = 1
      BY <2>4 DEF Here
    <3>2. Here(q, <<1>>)
      BY <3>1 DEF Here
    <3>3. Block!Field(3, 2) = [k \in 1 .. 2 |-> (3 \div Block!Pow(k - 1)) % 2]
      BY DEF Block!Field
    <3>4. Len(Block!Field(3, 2)) = 2
      BY <3>3
    <3>5. Block!Field(3, 2)[1] = 1 /\ Block!Field(3, 2)[2] = 1
      BY <3>3, Powers
    <3>6. (q + 1) + 1 = q + 2 /\ (q + 1) + 2 = q + 3
      OBVIOUS
    <3>7. Here(q + 1, Block!Field(3, 2))
      <4>1. \A j \in 1 .. 2 : tmpdata[(q + 1) + j] = Block!Field(3, 2)[j]
        <5> HIDE DEF Block!Field
        <5> QED BY <3>1, <3>5, <3>6
      <4> QED BY <3>4, <4>1 DEF Here
    <3> QED BY <3>2, <3>7
  <2>6. Block!getbits(cur, 1) = 1
    BY <1>4, <2>5
  <2>7. Block!getbits(Block!Moved(cur, 1), 2) = 3
    <3>1. 3 < Block!Pow(2) /\ 2 \in 1 .. 8 /\ 3 \in Nat
      BY Powers
    <3> QED BY <1>1, <2>5, <3>1, FieldIsRead
  <2>8. Block!getbits(Block!Moved(Block!Moved(cur, 1), 2), 8) = r
    <3>1. r < Block!Pow(8) /\ 8 \in 1 .. 8 /\ r \in Nat
      BY Powers
    <3> QED BY <1>2, <2>4, <3>1, FieldIsRead DEF B
  <2>9. Block!Run(cur) = Block!Result(d[flip_flag], r, Block!Moved(Block!Moved(Block!Moved(cur, 1), 2), 8))
    BY <2>6, <2>7, <2>8 DEF Block!Run, Runs
  <2> QED BY <1>3, <2>3, <2>9
<1> QED BY <1>5, <1>6, <1>7

LEMMA HoldIsRead ==
  ASSUME Runs, NEW r \in 0 .. 255
  PROVE  LET e == Block!Hold(r)
         IN  /\ CodeTyped(e)
             /\ \A p \in Nat : Cursor(Now, p) /\ Here(p, e.bits) /\ d[flip_flag] \in Int => TakenFor(e, p)
<1> DEFINE e == Block!Hold(r)
           A == Block!Field(0, 3)
           B == RunBits(r)
<1>1. e.bits = A \o B /\ e.change = 0 /\ e.more = r /\ ~e.zero
  BY DEF Block!Hold, Block!Code, RunBits
<1>2. /\ A \in Seq(Int) /\ Len(A) = 3 /\ B \in Seq(Int) /\ Len(B) > 0
  <2>1. 3 \in 1 .. 8 /\ 0 \in Nat /\ 2 \in 1 .. 8 /\ 8 \in 1 .. 8 /\ r \in Nat
    OBVIOUS
  <2>2. A \in Seq(Int) /\ Len(A) = 3
    BY <2>1, FieldTyped
  <2>3. Block!Field(r, 2) \in Seq(Int) /\ Len(Block!Field(r, 2)) = 2
        /\ Block!Field(r, 8) \in Seq(Int) /\ Len(Block!Field(r, 8)) = 8
    BY <2>1, FieldTyped
  <2> DEFINE u == Block!Field(r, 2)
             v == Block!Field(r, 8)
             y == <<1>>
             z == <<1, 1, 1>>
  <2>4. y \in Seq(Int) /\ z \in Seq(Int) /\ Len(y) = 1 /\ Len(z) = 3 /\ <<0>> \in Seq(Int) /\ Len(<<0>>) = 1
    <3> HIDE DEF A, B, e, u, v
    <3> QED OBVIOUS
  <2>5. B = <<0>> \/ B = y \o u \/ B = z \o v
    BY DEF RunBits
  <2> HIDE DEF u, v, y, z, B
  <2>6. y \o u \in Seq(Int) /\ Len(y \o u) = 3 /\ z \o v \in Seq(Int) /\ Len(z \o v) = 11
    <3>1. u \in Seq(Int) /\ Len(u) = 2 /\ v \in Seq(Int) /\ Len(v) = 8
      BY <2>3 DEF u, v
    <3>2. y \o u \in Seq(Int) /\ Len(y \o u) = Len(y) + Len(u)
      BY <2>4, <3>1, Glued
    <3>3. z \o v \in Seq(Int) /\ Len(z \o v) = Len(z) + Len(v)
      BY <2>4, <3>1, Glued
    <3> QED BY <2>4, <3>1, <3>2, <3>3
  <2>7. B \in Seq(Int) /\ Len(B) > 0
    <3> HIDE DEF A, e
    <3>1. CASE B = <<0>>
      BY <2>4, <3>1
    <3>2. CASE B = y \o u
      BY <2>6, <3>2
    <3>3. CASE B = z \o v
      BY <2>6, <3>3
    <3> QED BY <2>5, <3>1, <3>2, <3>3
  <2> QED BY <2>2, <2>7
<1> HIDE DEF A, B, e
<1>3. e.bits \in Seq(Int) /\ Len(e.bits) = 3 + Len(B) /\ Len(B) \in Nat
  <2>1. A \o B \in Seq(Int) /\ Len(A \o B) = Len(A) + Len(B)
    BY <1>2, Glued
  <2> QED BY <1>1, <1>2, <2>1
<1>4. ASSUME NEW p \in Nat, Cursor(Now, p), Here(p, e.bits), d[flip_flag] \in Int
      PROVE  TakenFor(e, p)
  <2>1. Here(p, A) /\ Here(p + 3, B)
    <3>1. Here(p, A \o B)
      BY <1>1, <1>4
    <3>2. Here(p, A) /\ Here(p + Len(A), B)
      BY <1>2, <3>1, HereInPieces
    <3> QED BY <1>2, <3>2
  <2>2. Block!getbits(Now, 3) = 0
    <3>1. 0 < Block!Pow(3) /\ 3 \in 1 .. 8 /\ 0 \in Nat
      BY Powers
    <3> QED BY <1>4, <2>1, <3>1, FieldIsRead DEF A
  <2>3. Cursor(Block!Moved(Now, 3), p + 3)
    BY <1>4, CursorMoves
  <2>4. PICK c : /\ Block!Run(Block!Moved(Now, 3)) = Block!Result(d[flip_flag], r, c)
                 /\ Cursor(c, (p + 3) + Len(B)) /\ c.shift > 0
    <3>1. p + 3 \in Nat
      OBVIOUS
    <3>2. Here(p + 3, RunBits(r))
      BY <2>1 DEF B
    <3> QED BY <2>3, <3>1, <3>2, RunIsRead DEF B
  <2>5. Block!Decoded = Block!Run(Block!Moved(Now, 3))
    BY <2>2 DEF Block!Decoded, Now
  <2>6. d[flip_flag] = d[flip_flag] + 0
    BY <1>4
  <2>7. (p + 3) + Len(B) = p + Len(e.bits)
    BY <1>3
  <2> QED BY <1>1, <2>4, <2>5, <2>6, <2>7 DEF TakenFor, Block!Result
<1>5. CodeTyped(e)
  <2>1. Len(e.bits) >= 3
    BY <1>3
  <2> QED BY <1>1, <1>3, <2>1 DEF CodeTyped
<1> QED BY <1>4, <1>5 DEF e

LEMMA CodeIsRead ==
  ASSUME InfoTyped, NEW e \in Block!Codes(info.complevel, info.runs)
  PROVE  /\ CodeTyped(e)
         /\ \A p \in Nat : Cursor(Now, p) /\ Here(p, e.bits) /\ d[flip_flag] \in Int => TakenFor(e, p)
<1> DEFINE f == Block!Format[info.complevel]
<1>1. f.bits \in 1 .. 8 /\ f.bigbits \in 1 .. 8
  <2> HIDE DEF Block!Format
  <2> QED BY Widths
<1>2. \A n \in 1 .. 8 : \A x \in Block!Differences(n) : x \in Nat /\ x < Block!Pow(n)
  <2> TAKE n \in 1 .. 8
  <2> TAKE x \in Block!Differences(n)
  <2>1. PICK y \in Nat : x = y % Block!Pow(n)
    BY MediaAssumption DEF Block!BlockAssumption, Block!Differences
  <2>2. PICK q \in Nat \ {0} : q = Block!Pow(n)
    <3>1. n \in {1, 2, 3, 4, 5, 6, 7, 8}
      OBVIOUS
    <3> HIDE DEF Block!Pow
    <3> QED BY <3>1, Powers
  <2>3. y % q \in Nat /\ y % q < q
    BY <2>2
  <2> QED BY <2>1, <2>2, <2>3
<1>3. \/ \E a \in Exponents : \E x \in Block!Differences(f.bits) : e = Block!Small(info.complevel, a, x)
      \/ \E x \in Block!Differences(f.bigbits) : e = Block!Big(info.complevel, x)
      \/ e = Block!Unused
      \/ Runs /\ \E r \in Holds : e = Block!Hold(r)
      \/ ~Runs /\ e = Block!Same
  BY DEF Block!Codes, Runs
<1> HIDE DEF f, Block!Differences, Block!Small, Block!Big, Block!Unused, Block!Hold, Block!Same
<1>4. CASE \E a \in Exponents : \E x \in Block!Differences(f.bits) : e = Block!Small(info.complevel, a, x)
  <2>1. PICK a \in Exponents, x \in Block!Differences(f.bits) : e = Block!Small(info.complevel, a, x)
    BY <1>4
  <2>2. a \in 1 .. 6
    BY MediaAssumption DEF Block!BlockAssumption
  <2>3. x \in Nat /\ x < Block!Pow(f.bits)
    BY <1>1, <1>2
  <2> QED BY <2>1, <2>2, <2>3, SmallIsRead DEF f
<1>5. CASE \E x \in Block!Differences(f.bigbits) : e = Block!Big(info.complevel, x)
  <2>1. PICK x \in Block!Differences(f.bigbits) : e = Block!Big(info.complevel, x)
    BY <1>5
  <2>2. x \in Nat /\ x < Block!Pow(f.bigbits)
    BY <1>1, <1>2
  <2> QED BY <2>1, <2>2, BigIsRead DEF f
<1>6. CASE e = Block!Unused
  BY <1>6, UnusedIsRead
<1>7. CASE Runs /\ \E r \in Holds : e = Block!Hold(r)
  <2>1. PICK r \in Holds : e = Block!Hold(r)
    BY <1>7
  <2>2. r \in 0 .. 255
    BY MediaAssumption DEF Block!BlockAssumption
  <2> QED BY <1>7, <2>1, <2>2, HoldIsRead
<1>8. CASE ~Runs /\ e = Block!Same
  BY <1>8, SameIsRead
<1> QED BY <1>3, <1>4, <1>5, <1>6, <1>7, <1>8

-----------------------------------------------------------------------------
(* The block. *)
BlockShape ==
  /\ InfoTyped
  /\ Len(codes) \in Nat \ {0} /\ codes = [k \in 1 .. Len(codes) |-> codes[k]]
  /\ \A k \in 1 .. Len(codes) : codes[k] \in Block!Codes(info.complevel, info.runs)
  /\ \A k \in 1 .. Len(Block!Stream(codes)) : tmpdata[k] = Block!Stream(codes)[k]

(* A run may go on behind the block. *)
Sized == dsize \in Nat /\ dsize <= Len(Block!Samples(codes))

(* The bits of code k lie behind u[k] bits, its samples behind w[k]. *)
Laid(u, w) ==
  /\ u \in [1 .. Len(codes) + 1 -> Nat] /\ w \in [1 .. Len(codes) + 1 -> Nat]
  /\ u[1] = 0 /\ u[Len(codes) + 1] = Len(Block!Stream(codes))
  /\ w[1] = 0 /\ w[Len(codes) + 1] = Len(Block!Samples(codes))
  /\ \A k \in 1 .. Len(codes) :
       /\ u[k + 1] = u[k] + Len(codes[k].bits) /\ u[k + 1] <= u[Len(codes) + 1]
       /\ w[k + 1] = w[k] + 1 + codes[k].more  /\ w[k + 1] <= w[Len(codes) + 1]
       /\ Here(u[k], codes[k].bits)
       /\ \A j \in 1 .. 1 + codes[k].more : Block!Samples(codes)[w[k] + j] = codes[k]

(* In all, sequence k of n lies behind the first u[k]. *)
Located(all, s, u, n) ==
  /\ u \in [1 .. n + 1 -> Nat]
  /\ u[1] = 0 /\ u[n + 1] = Len(all)
  /\ \A k \in 1 .. n :
       /\ u[k + 1] = u[k] + Len(s[k]) /\ u[k + 1] <= u[n + 1]
       /\ \A j \in 1 .. Len(s[k]) : all[u[k] + j] = s[k][j]

(* FlattenSeq lays its sequences one behind the other. *)
LEMMA FlattenLays ==
  ASSUME NEW S, NEW n \in Nat \ {0}, NEW s, Len(s) = n, Pieces(S, s, n)
  PROVE  /\ Block!FlattenSeq(s) \in Seq(S)
         /\ \E u : Located(Block!FlattenSeq(s), s, u, n)
<1>1. n \in Nat /\ n \in 1 .. n
  OBVIOUS
<1>3. PICK f : Flat(s, f, n) /\ Block!FlattenSeq(s) = f[n]
  <2> DEFINE g == CHOOSE h : Flat(s, h, n)
  <2>1. Flat(s, g, n)
    BY FlatExists
  <2>2. Block!FlattenSeq(s) = g[n]
    BY <1>1 DEF Block!FlattenSeq, Flat
  <2> HIDE DEF g
  <2> QED BY <2>1, <2>2
<1> DEFINE u == [k \in 1 .. n + 1 |-> Start(f, k)]
<1>4. f[n] \in Seq(S) /\ Len(f[n]) \in Nat
  <2>1. \A k \in 1 .. n : f[k] \in Seq(S)
    BY <1>1, <1>3, FlatType DEF Pieces
  <2> QED BY <1>1, <2>1
<1>5. \A k \in 1 .. n :
        /\ Start(f, k) \in Nat
        /\ Start(f, k) + Len(s[k]) <= Len(f[n])
        /\ k < n => Start(f, k + 1) = Start(f, k) + Len(s[k])
        /\ k = n => Len(f[n]) = Start(f, k) + Len(s[k])
        /\ \A j \in 1 .. Len(s[k]) : f[n][Start(f, k) + j] = s[k][j]
  <2> TAKE k \in 1 .. n
  <2> HIDE DEF u
  <2>1. Start(f, k) \in Nat
    BY <1>1, <1>3, FlatPlaces
  <2>2. Start(f, k) + Len(s[k]) <= Len(f[n])
    BY <1>1, <1>3, FlatPlaces
  <2>3. k < n => Start(f, k + 1) = Start(f, k) + Len(s[k])
    BY <1>1, <1>3, FlatPlaces
  <2>4. k = n => Len(f[n]) = Start(f, k) + Len(s[k])
    BY <1>1, <1>3, FlatPlaces
  <2>5. \A j \in 1 .. Len(s[k]) : f[n][Start(f, k) + j] = s[k][j]
    BY <1>1, <1>3, FlatPlaces
  <2> QED BY <2>1, <2>2, <2>3, <2>4, <2>5
<1>6. Start(f, n + 1) = Len(f[n]) /\ Start(f, 1) = 0
  BY DEF Start
<1>7. \A k \in 1 .. n + 1 : u[k] = Start(f, k) /\ Start(f, k) \in Nat
  <2> TAKE k \in 1 .. n + 1
  <2>1. u[k] = Start(f, k)
    OBVIOUS
  <2>2. k \in 1 .. n \/ k = n + 1
    OBVIOUS
  <2> QED BY <1>4, <1>5, <1>6, <2>1, <2>2
<1>8. u \in [1 .. n + 1 -> Nat]
  BY <1>7
<1> HIDE DEF u
<1>9. u[1] = 0 /\ u[n + 1] = Len(f[n])
  BY <1>6, <1>7
<1>10. ASSUME NEW k \in 1 .. n
       PROVE  /\ u[k + 1] = u[k] + Len(s[k]) /\ u[k + 1] <= u[n + 1]
              /\ \A j \in 1 .. Len(s[k]) : f[n][u[k] + j] = s[k][j]
  <2>1. u[k] = Start(f, k) /\ u[k + 1] = Start(f, k + 1)
    BY <1>7
  <2>2. Start(f, k + 1) = Start(f, k) + Len(s[k])
    BY <1>5, <1>6
  <2>3. /\ Start(f, k) + Len(s[k]) <= Len(f[n])
        /\ \A j \in 1 .. Len(s[k]) : f[n][Start(f, k) + j] = s[k][j]
    BY <1>5
  <2> QED BY <1>9, <2>1, <2>2, <2>3
<1>11. Located(f[n], s, u, n)
  BY <1>8, <1>9, <1>10 DEF Located
<1> QED BY <1>3, <1>4, <1>11

LEMMA BlockIsLaid ==
  ASSUME BlockShape
  PROVE  /\ \E u, w : Laid(u, w)
         /\ Len(Block!Samples(codes)) \in Nat \ {0}
         /\ \A i \in 1 .. Len(Block!Samples(codes)) : CodeTyped(Block!Samples(codes)[i])
<1>1. PICK n \in Nat \ {0} : n = Len(codes) /\ codes = [k \in 1 .. n |-> codes[k]]
  BY DEF BlockShape
<1>2. \A k \in 1 .. n : CodeTyped(codes[k])
  BY <1>1, CodeIsRead DEF BlockShape
<1> DEFINE a == [k \in DOMAIN codes |-> codes[k].bits]
           b == [k \in DOMAIN codes |-> [j \in 1 .. 1 + codes[k].more |-> codes[k]]]
           T == {c \in {codes[k] : k \in 1 .. n} : CodeTyped(c)}
<1>3. DOMAIN codes = 1 .. n
  BY <1>1
<1>4. /\ Len(a) = n /\ Pieces(Int, a, n)
      /\ \A k \in 1 .. n : a[k] = codes[k].bits
  <2>1. \A k \in 1 .. n : codes[k].bits \in Seq(Int)
    BY <1>2 DEF CodeTyped
  <2> QED BY <1>3, <2>1 DEF Pieces
<1>5. /\ Len(b) = n /\ Pieces(T, b, n)
      /\ \A k \in 1 .. n : /\ Len(b[k]) = 1 + codes[k].more
                           /\ \A j \in 1 .. 1 + codes[k].more : b[k][j] = codes[k]
  <2>1. ASSUME NEW k \in 1 .. n
        PROVE  /\ [j \in 1 .. 1 + codes[k].more |-> codes[k]] \in Seq(T)
               /\ Len([j \in 1 .. 1 + codes[k].more |-> codes[k]]) = 1 + codes[k].more
    <3>1. PICK h \in Nat : h = 1 + codes[k].more
      <4>1. codes[k].more \in Nat
        BY <1>2 DEF CodeTyped
      <4> HIDE DEF a, b, T
      <4> QED BY <4>1
    <3>2. codes[k] \in T
      BY <1>2
    <3> HIDE DEF T
    <3>3. [j \in 1 .. h |-> codes[k]] \in Seq(T) /\ Len([j \in 1 .. h |-> codes[k]]) = h
      BY <3>2
    <3> QED BY <3>1, <3>3
  <2>2. \A k \in 1 .. n : b[k] = [j \in 1 .. 1 + codes[k].more |-> codes[k]]
    BY <1>3
  <2>3. Len(b) = n
    BY <1>3
  <2> HIDE DEF T, a, b
  <2>4. \A k \in 1 .. n : b[k] \in Seq(T) /\ Len(b[k]) = 1 + codes[k].more
    BY <2>1, <2>2
  <2>5. \A k \in 1 .. n : \A j \in 1 .. 1 + codes[k].more : b[k][j] = codes[k]
    BY <2>2
  <2> QED BY <2>3, <2>4, <2>5 DEF Pieces
<1>6. Block!Stream(codes) = Block!FlattenSeq(a) /\ Block!Samples(codes) = Block!FlattenSeq(b)
  BY DEF Block!Stream, Block!Samples
<1> HIDE DEF a, b, T
<1>7. PICK u : Located(Block!FlattenSeq(a), a, u, n)
  BY <1>4, FlattenLays
<1>8. PICK w : Located(Block!FlattenSeq(b), b, w, n)
  BY <1>5, FlattenLays
<1>9. ASSUME NEW k \in 1 .. n
      PROVE  /\ u[k + 1] = u[k] + Len(codes[k].bits) /\ u[k + 1] <= u[n + 1]
             /\ w[k + 1] = w[k] + 1 + codes[k].more  /\ w[k + 1] <= w[n + 1]
             /\ Here(u[k], codes[k].bits)
             /\ \A j \in 1 .. 1 + codes[k].more : Block!Samples(codes)[w[k] + j] = codes[k]
  <2>1. a[k] = codes[k].bits /\ a[k] \in Seq(Int)
    BY <1>4 DEF Pieces
  <2>2. Len(b[k]) = 1 + codes[k].more /\ \A j \in 1 .. 1 + codes[k].more : b[k][j] = codes[k]
    BY <1>5
  <2>3. codes[k].more \in Nat
    BY <1>2 DEF CodeTyped
  <2>4. PICK h \in Nat, x \in Nat, y \in Nat : h = Len(a[k]) /\ x = u[k] /\ y = u[n + 1] /\ x + h <= y
    <3>1. u[k] + Len(a[k]) <= u[n + 1]
      BY <1>7 DEF Located
    <3>2. k \in 1 .. n + 1 /\ n + 1 \in 1 .. n + 1
      OBVIOUS
    <3>3. u[k] \in Nat /\ u[n + 1] \in Nat /\ Len(a[k]) \in Nat
      BY <1>7, <2>1, <3>2 DEF Located
    <3> QED BY <3>1, <3>3
  <2>5. Here(u[k], codes[k].bits)
    <3>1. \A j \in 1 .. h : Block!FlattenSeq(a)[x + j] = a[k][j]
      BY <1>7, <2>4 DEF Located
    <3>2. \A j \in 1 .. h : x + j \in 1 .. y
      BY <2>4
    <3>3. \A j \in 1 .. y : tmpdata[j] = Block!FlattenSeq(a)[j]
      BY <1>6, <1>7, <2>4 DEF BlockShape, Located
    <3>4. \A j \in 1 .. h : tmpdata[x + j] = a[k][j]
      BY <3>1, <3>2, <3>3
    <3> QED BY <2>1, <2>4, <3>4 DEF Here
  <2>6. w[k + 1] = w[k] + 1 + codes[k].more /\ w[k + 1] <= w[n + 1]
    <3>1. w[k + 1] = w[k] + (1 + codes[k].more) /\ w[k + 1] <= w[n + 1]
      BY <1>8, <2>2 DEF Located
    <3>2. w[k] \in Nat
      <4>1. k \in 1 .. n + 1
        OBVIOUS
      <4> QED BY <1>8, <4>1 DEF Located
    <3>3. PICK g \in Nat, h1 \in Nat : g = w[k] /\ h1 = codes[k].more
      BY <2>3, <3>2
    <3>4. g + (1 + h1) = g + 1 + h1
      OBVIOUS
    <3> QED BY <3>1, <3>3, <3>4
  <2>7. \A j \in 1 .. 1 + codes[k].more : Block!Samples(codes)[w[k] + j] = codes[k]
    BY <1>6, <1>8, <2>2 DEF Located
  <2> QED BY <1>7, <2>1, <2>5, <2>6, <2>7 DEF Located
<1>10. Laid(u, w)
  BY <1>1, <1>6, <1>7, <1>8, <1>9 DEF Laid, Located
<1>11. Block!Samples(codes) \in Seq(T)
  BY <1>5, <1>6, FlattenLays
<1>12. \A i \in 1 .. Len(Block!Samples(codes)) : Block!Samples(codes)[i] \in T
  BY <1>11
<1>13. \A c \in T : CodeTyped(c)
  BY DEF T
<1>14. Len(Block!Samples(codes)) \in Nat \ {0}
  <2>1. 1 \in 1 .. n /\ n + 1 \in 1 .. n + 1
    OBVIOUS
  <2>2. w[1] = 0 /\ w[n + 1] \in Nat /\ w[n + 1] = Len(Block!Samples(codes))
    BY <1>6, <1>8, <2>1 DEF Located
  <2>3. w[1 + 1] = w[1] + 1 + codes[1].more /\ w[1 + 1] <= w[n + 1] /\ codes[1].more \in Nat
    BY <1>2, <1>9, <2>1 DEF CodeTyped
  <2>4. PICK x \in Nat, y \in Nat, z \in Nat : x = w[n + 1] /\ y = w[1 + 1] /\ z = codes[1].more
                                          /\ y = 0 + 1 + z /\ y <= x
    BY <2>2, <2>3
  <2>5. x \in Nat \ {0}
    BY <2>4
  <2> QED BY <2>2, <2>4, <2>5
<1> QED BY <1>10, <1>12, <1>13, <1>14

(* x[j] is the value of channel c at sample j, before it is cut. *)
ValueOf(x, c) ==
  /\ x \in [0 .. Len(Block!Samples(codes)) -> Int]
  /\ x[0] = Block!First[c + 1]
  /\ \A j \in 1 .. Len(Block!Samples(codes)) :
       x[j] = IF Block!Channel(j) # c THEN x[j - 1]
              ELSE IF Block!Samples(codes)[j].zero THEN 0
              ELSE x[j - 1] + Block!Samples(codes)[j].change
Valued(v) == ValueOf(v[0], 0) /\ ValueOf(v[1], 1)

LEMMA ValueExists ==
  ASSUME BlockShape, NEW c \in 0 .. 1
  PROVE  \E x : ValueOf(x, c)
<1> DEFINE s == Block!Samples(codes)
           Next1(j, y) == IF Block!Channel(j) # c THEN y ELSE IF s[j].zero THEN 0 ELSE y + s[j].change
<1>1. PICK n \in Nat : n = Len(s)
  BY BlockIsLaid
<1> DEFINE F == [j \in 1 .. n |-> [y \in Int |-> Next1(j, y)]]
<1>2. \A j \in 1 .. n : s[j].change \in Int
  BY <1>1, BlockIsLaid DEF CodeTyped
<1> HIDE DEF s
<1>3. \A j \in 1 .. n : \A y \in Int : Next1(j, y) \in Int
  BY <1>2
<1> HIDE DEF Next1
<1>4. F \in [1 .. n -> [Int -> Int]] /\ \A j \in 1 .. n : \A y \in Int : F[j][y] = Next1(j, y)
  BY <1>3
<1> HIDE DEF F
<1>5. Block!First[c + 1] \in Int
  <2>1. c + 1 \in {1, 2} /\ Left \in Int /\ Right \in Int
    BY MediaAssumption DEF Block!BlockAssumption
  <2> QED BY <2>1 DEF Block!First
<1>6. PICK x \in [0 .. n -> Int] : Steps(x, Block!First[c + 1], F, n)
  BY <1>1, <1>4, <1>5, StepsExist
<1>7. ASSUME NEW j \in 1 .. n
      PROVE  x[j] = Next1(j, x[j - 1])
  <2>1. x[j - 1] \in Int
    BY <1>6
  <2> QED BY <1>4, <1>6, <2>1 DEF Steps
<1>8. x[0] = Block!First[c + 1]
  BY <1>6 DEF Steps
<1>9. ValueOf(x, c)
  BY <1>1, <1>6, <1>7, <1>8 DEF ValueOf, Next1, s
<1> QED BY <1>9

(* The recursive definition of a sample has these values. *)
LEMMA MeantIs ==
  ASSUME BlockShape, NEW k \in 1 .. Len(Block!Samples(codes)), NEW x, ValueOf(x, Block!Channel(k))
  PROVE  Block!Meant(k) = Block!Cut(x[k])
<1> DEFINE s == Block!Samples(codes)
           c == Block!Channel(k)
           Rec(h) == h = [j \in 0 .. k |->
                            IF j = 0 THEN Block!First[c + 1]
                            ELSE IF Block!Channel(j) # c THEN h[j - 1]
                            ELSE IF s[j].zero THEN 0
                            ELSE h[j - 1] + s[j].change]
           y == [j \in 0 .. k |-> x[j]]
<1>1. PICK n \in Nat : n = Len(s)
  BY BlockIsLaid
<1>2. \A j \in 1 .. n : x[j] = IF Block!Channel(j) # c THEN x[j - 1]
                              ELSE IF s[j].zero THEN 0 ELSE x[j - 1] + s[j].change
  BY <1>1 DEF ValueOf
<1>3. x[0] = Block!First[c + 1]
  BY DEF ValueOf
<1>4. Block!Meant(k) = Block!Cut((CHOOSE h : Rec(h))[k])
  BY DEF Block!Meant
<1> HIDE DEF s, c
<1>5. \A h : Rec(h) <=> h = [j \in 0 .. k |-> h[j]]
                        /\ h[0] = Block!First[c + 1]
                        /\ \A j \in 1 .. k : h[j] = IF Block!Channel(j) # c THEN h[j - 1]
                                                   ELSE IF s[j].zero THEN 0 ELSE h[j - 1] + s[j].change
  <2> TAKE h
  <2> DEFINE G(j) == IF j = 0 THEN Block!First[c + 1]
                     ELSE IF Block!Channel(j) # c THEN h[j - 1]
                     ELSE IF s[j].zero THEN 0
                     ELSE h[j - 1] + s[j].change
  <2>1. Rec(h) <=> h = [j \in 0 .. k |-> G(j)]
    OBVIOUS
  <2>2. G(0) = Block!First[c + 1]
    OBVIOUS
  <2>3. \A j \in 1 .. k : G(j) = IF Block!Channel(j) # c THEN h[j - 1]
                                 ELSE IF s[j].zero THEN 0 ELSE h[j - 1] + s[j].change
    OBVIOUS
  <2>4. h = [j \in 0 .. k |-> G(j)] <=> h = [j \in 0 .. k |-> h[j]] /\ \A j \in 0 .. k : h[j] = G(j)
    <3> HIDE DEF G
    <3> QED OBVIOUS
  <2>5. (\A j \in 0 .. k : h[j] = G(j)) <=> h[0] = G(0) /\ \A j \in 1 .. k : h[j] = G(j)
    <3> HIDE DEF G
    <3>1. \A j \in 0 .. k : j = 0 \/ j \in 1 .. k
      OBVIOUS
    <3>2. 0 \in 0 .. k /\ \A j \in 1 .. k : j \in 0 .. k
      OBVIOUS
    <3> QED BY <3>1, <3>2
  <2> HIDE DEF G, Rec
  <2> QED BY <2>1, <2>2, <2>3, <2>4, <2>5
<1>6. Rec(y)
  <2>1. y = [j \in 0 .. k |-> y[j]] /\ \A j \in 0 .. k : y[j] = x[j]
    OBVIOUS
  <2> HIDE DEF y, Rec
  <2>2. y[0] = Block!First[c + 1]
    BY <1>3, <2>1
  <2>3. ASSUME NEW j \in 1 .. k
        PROVE  y[j] = IF Block!Channel(j) # c THEN y[j - 1] ELSE IF s[j].zero THEN 0 ELSE y[j - 1] + s[j].change
    <3>1. j \in 1 .. n /\ j \in 0 .. k /\ j - 1 \in 0 .. k
      BY <1>1 DEF s
    <3> QED BY <1>2, <2>1, <3>1
  <2> QED BY <1>5, <2>1, <2>2, <2>3
<1> HIDE DEF y, Rec
<1>7. PICK h : h = (CHOOSE g : Rec(g)) /\ Rec(h)
  BY <1>6
<1> DEFINE T == {j \in 0 .. k : h[j] # x[j]}
<1>8. T = {}
  <2> SUFFICES ASSUME T # {}
               PROVE  FALSE
    OBVIOUS
  <2>1. PICK j \in T : \A i \in T : j <= i
    <3>1. T \subseteq Nat
      OBVIOUS
    <3> HIDE DEF T
    <3> QED BY <3>1, Least
  <2>2. j \in 0 .. k /\ h[j] # x[j] /\ j # 0
    BY <1>3, <1>5, <1>7, <2>1
  <2>3. j \in 1 .. k /\ j \in 1 .. n /\ j - 1 \in 0 .. k /\ j - 1 < j
    BY <1>1, <2>2 DEF s
  <2>4. h[j - 1] = x[j - 1]
    BY <2>1, <2>3
  <2> HIDE DEF T
  <2> QED BY <1>2, <1>5, <1>7, <2>2, <2>3, <2>4
<1>9. h[k] = x[k]
  <2>1. k \in 0 .. k
    OBVIOUS
  <2> QED BY <1>8, <2>1
<1> QED BY <1>4, <1>7, <1>9

LEMMA CutAdds ==
  ASSUME InfoTyped, NEW a \in Int, NEW c \in Int
  PROVE  Block!Cut(a) \in Int /\ Block!Cut(Block!Cut(a) + c) = Block!Cut(a + c)
<1>1. info.bps = 8 \/ info.bps = 16
  BY DEF InfoTyped
<1>2. CASE info.bps = 8
  <2>1. a % 256 \in Int /\ ((a % 256) + c) % 256 = (a + c) % 256
    OBVIOUS
  <2>2. Block!Pow(8) = 256
    BY Powers
  <2> HIDE DEF Block!Pow
  <2> QED BY <1>2, <2>1, <2>2 DEF Block!Cut
<1>3. CASE info.bps = 16
  <2>1. a % 65536 \in Int /\ ((a % 65536) + c) % 65536 = (a + c) % 65536
    OBVIOUS
  <2>2. Block!Pow(16) = 65536
    BY Powers
  <2> HIDE DEF Block!Pow
  <2> QED BY <1>3, <2>1, <2>2 DEF Block!Cut
<1> QED BY <1>1, <1>2, <1>3

(* The first m codes are decoded, but for the rest of a run. *)
Standing(u, w, m) ==
  /\ m \in 0 .. Len(codes) /\ Cursor(Now, u[m + 1]) /\ (m > 0 => shift > 0)
  /\ runlength \in Nat /\ Len(outdata) + runlength = w[m + 1]
  /\ runlength > 0 => m > 0 /\ runlength <= codes[m].more

(* Every sample out is that of its channel, and the channels stand at the last. *)
Sounding(v) ==
  /\ outdata \in Seq(Int) /\ Len(outdata) <= dsize
  /\ flip_flag = Block!Channel(Len(outdata) + 1)
  /\ d = [c \in 0 .. 1 |-> Block!Cut(v[c][Len(outdata)])]
  /\ \A k \in 1 .. Len(outdata) : outdata[k] = Block!Cut(v[Block!Channel(k)][k])

BlockInv ==
  /\ BlockShape /\ Sized
  /\ \E u, w, v, m : Laid(u, w) /\ Valued(v) /\ Sounding(v) /\ Standing(u, w, m)

LEMMA TurnIsChannel ==
  ASSUME InfoTyped, NEW k \in Nat
  PROVE  /\ Block!Channel(k + 1) \in {0, 1}
         /\ Block!Channel((k + 1) + 1) =
              IF info.channels = 2 THEN 1 - Block!Channel(k + 1) ELSE Block!Channel(k + 1)
<1>1. /\ k % 2 \in {0, 1} /\ (k + 1) % 2 = 1 - (k % 2)
      /\ (k + 1) - 1 = k /\ ((k + 1) + 1) - 1 = k + 1
  OBVIOUS
<1> QED BY <1>1 DEF Block!Channel

LEMMA ValuedTyped ==
  ASSUME BlockShape, NEW v, Valued(v), NEW c \in {0, 1}
  PROVE  /\ \A k \in 0 .. Len(Block!Samples(codes)) : v[c][k] \in Int
         /\ v[c][0] = Block!First[c + 1]
         /\ \A j \in 1 .. Len(Block!Samples(codes)) :
              v[c][j] = IF Block!Channel(j) # c THEN v[c][j - 1]
                        ELSE IF Block!Samples(codes)[j].zero THEN 0
                        ELSE v[c][j - 1] + Block!Samples(codes)[j].change
<1>1. ValueOf(v[c], c)
  BY DEF Valued
<1> QED BY <1>1 DEF ValueOf

LEMMA PutKeeps ==
  ASSUME BlockShape, Sized, NEW v, Valued(v), Sounding(v), NEW n \in Nat, n = Len(outdata), n < dsize,
         NEW s, s = Block!Samples(codes)[n + 1],
         NEW sample, sample = (IF s.zero THEN 0 ELSE d[flip_flag] + s.change),
         Block!Put(sample), UNCHANGED Block!block
  PROVE  Sounding(v)' /\ Len(outdata)' = n + 1
<1> DEFINE f == flip_flag
           N == Len(Block!Samples(codes))
<1>1. f \in {0, 1} /\ f = Block!Channel(n + 1) /\ InfoTyped
  BY TurnIsChannel DEF BlockShape, Sounding
<1>2. N \in Nat /\ dsize \in Nat /\ dsize <= N
  BY BlockIsLaid DEF Sized
<1>3. n \in 0 .. N /\ n + 1 \in 1 .. N /\ n + 1 \in 0 .. N /\ (n + 1) - 1 = n
  BY <1>2
<1>4. s.change \in Int
  BY <1>3, BlockIsLaid DEF CodeTyped
<1>5. \A c \in {0, 1} : /\ v[c][n] \in Int
                        /\ v[c][n + 1] = IF f # c THEN v[c][n] ELSE IF s.zero THEN 0 ELSE v[c][n] + s.change
  <2> TAKE c \in {0, 1}
  <2> HIDE DEF f, N
  <2>1. v[c][n] \in Int
    BY <1>3, ValuedTyped DEF N
  <2>2. v[c][n + 1] = IF Block!Channel(n + 1) # c THEN v[c][n]
                      ELSE IF Block!Samples(codes)[n + 1].zero THEN 0
                      ELSE v[c][n] + Block!Samples(codes)[n + 1].change
    BY <1>3, ValuedTyped DEF N
  <2> QED BY <1>1, <2>1, <2>2
<1>6. \A c \in {0, 1} : d[c] = Block!Cut(v[c][n])
  BY DEF Sounding
<1>7. Block!Cut(sample) = Block!Cut(v[f][n + 1])
  <2>1. CASE s.zero
    <3>1. sample = 0 /\ v[f][n + 1] = 0
      BY <1>1, <1>5, <2>1
    <3> QED BY <3>1
  <2>2. CASE ~s.zero
    <3>1. sample = Block!Cut(v[f][n]) + s.change /\ v[f][n + 1] = v[f][n] + s.change
      BY <1>1, <1>5, <1>6, <2>2
    <3>2. PICK a \in Int, b \in Int : a = v[f][n] /\ b = s.change
      BY <1>1, <1>4, <1>5
    <3>3. Block!Cut(Block!Cut(a) + b) = Block!Cut(a + b)
      BY <1>1, CutAdds
    <3> QED BY <3>1, <3>2, <3>3
  <2> QED BY <2>1, <2>2
<1>8. Block!Cut(sample) \in Int
  <2>1. v[f][n + 1] \in Int
    <3> HIDE DEF f, N
    <3> QED BY <1>1, <1>3, ValuedTyped DEF N
  <2>2. PICK a \in Int : a = v[f][n + 1]
    BY <2>1
  <2>3. Block!Cut(a) \in Int
    <3>1. 0 \in Int
      OBVIOUS
    <3> QED BY <1>1, <3>1, CutAdds
  <2> QED BY <1>7, <2>2, <2>3
<1>9. /\ info' = info /\ codes' = codes /\ dsize' = dsize
      /\ d' = [d EXCEPT ![f] = Block!Cut(sample)]
      /\ outdata' = Append(outdata, Block!Cut(sample))
      /\ flip_flag' = IF info.channels = 2 THEN 1 - flip_flag ELSE flip_flag
  BY DEF Block!block, Block!Put, Block!Flip
<1>10. /\ outdata' \in Seq(Int) /\ Len(outdata') = n + 1
       /\ outdata'[n + 1] = Block!Cut(v[f][n + 1])
       /\ \A k \in 1 .. n : outdata'[k] = outdata[k]
  <2>1. PICK o \in Seq(Int) : o = outdata /\ Len(o) = n
    BY DEF Sounding
  <2>2. PICK y \in Int : y = Block!Cut(sample) /\ y = Block!Cut(v[f][n + 1])
    BY <1>7, <1>8
  <2>3. /\ Append(o, y) \in Seq(Int) /\ Len(Append(o, y)) = n + 1 /\ Append(o, y)[n + 1] = y
        /\ \A k \in 1 .. n : Append(o, y)[k] = o[k]
    BY <2>1, AppendProperties
  <2> HIDE DEF f
  <2> QED BY <1>9, <2>1, <2>2, <2>3
<1>11. flip_flag' = Block!Channel((n + 1) + 1)
  BY <1>1, <1>9, TurnIsChannel
<1>12. d' = [c \in 0 .. 1 |-> Block!Cut(v[c][n + 1])]
  <2>1. d = [c \in 0 .. 1 |-> Block!Cut(v[c][n])]
    BY DEF Sounding
  <2>2. \A c \in 0 .. 1 : c \in {0, 1}
    OBVIOUS
  <2>3. \A c \in 0 .. 1 : d'[c] = Block!Cut(v[c][n + 1])
    <3> TAKE c \in 0 .. 1
    <3>1. CASE c = f
      BY <1>1, <1>7, <1>9, <2>1, <3>1
    <3>2. CASE c # f
      <4>1. v[c][n + 1] = v[c][n]
        BY <1>5, <2>2, <3>2
      <4>2. d'[c] = d[c]
        BY <1>9, <2>1, <3>2
      <4> QED BY <2>1, <4>1, <4>2
    <3> QED BY <3>1, <3>2
  <2>4. d' = [c \in 0 .. 1 |-> d'[c]]
    BY <1>9, <2>1
  <2> QED BY <2>3, <2>4
<1>13. \A k \in 1 .. n + 1 : outdata'[k] = Block!Cut(v[Block!Channel(k)][k])
  <2> TAKE k \in 1 .. n + 1
  <2>1. CASE k = n + 1
    BY <1>1, <1>10, <2>1
  <2>2. CASE k # n + 1
    <3>1. k \in 1 .. n
      BY <2>2
    <3>2. outdata[k] = Block!Cut(v[Block!Channel(k)][k])
      BY <3>1 DEF Sounding
    <3> QED BY <1>10, <3>1, <3>2
  <2> QED BY <2>1, <2>2
<1>14. n + 1 <= dsize'
  BY <1>2, <1>9
<1>15. /\ \A k : Block!Channel(k)' = Block!Channel(k)
       /\ \A a : Block!Cut(a)' = Block!Cut(a)
  BY <1>9 DEF Block!Channel, Block!Cut
<1> QED BY <1>10, <1>11, <1>12, <1>13, <1>14, <1>15 DEF Sounding

LEMMA BlockStarts ==
  ASSUME Block!Init
  PROVE  BlockInv
<1>1. InfoTyped
  BY MediaAssumption DEF Block!Init, Block!BlockAssumption, InfoTyped
<1>2. PICK n \in 1 .. MaxCodes : codes \in [1 .. n -> Block!Codes(info.complevel, info.runs)]
  BY DEF Block!Init
<1>3. /\ Len(codes) = n /\ n \in Nat \ {0} /\ codes = [k \in 1 .. n |-> codes[k]]
      /\ \A k \in 1 .. n : codes[k] \in Block!Codes(info.complevel, info.runs)
  <2>1. n \in Nat \ {0}
    BY MediaAssumption DEF Block!BlockAssumption
  <2> HIDE DEF Block!Codes
  <2> QED BY <1>2, <2>1
<1>4. \A k \in 1 .. Len(Block!Stream(codes)) : tmpdata[k] = Block!Stream(codes)[k]
  <2> DEFINE L == Len(Block!Stream(codes))
             B == Block!BytesOf(codes)
  <2>1. PICK rest \in 0 .. 1 :
          tmpdata = [k \in 1 .. 8 * B + 16 |-> IF k <= L THEN Block!Stream(codes)[k] ELSE rest]
    BY DEF Block!Init
  <2>2. B = (L + 7) \div 8
    BY DEF Block!BytesOf
  <2> HIDE DEF L, B
  <2>3. \A k \in 1 .. L : k \in 1 .. 8 * B + 16 /\ k <= L
    <3> TAKE k \in 1 .. L
    <3>1. PICK x \in Nat : x = L
      BY DEF L
    <3>2. x <= 8 * ((x + 7) \div 8)
      OBVIOUS
    <3> QED BY <2>2, <3>1, <3>2
  <2>4. \A k \in 1 .. L : tmpdata[k] = Block!Stream(codes)[k]
    BY <2>1, <2>3
  <2> QED BY <2>4 DEF L
<1>5. BlockShape
  BY <1>1, <1>3, <1>4 DEF BlockShape
<1>6. Sized
  <2>1. PICK cut \in 0 .. 1 : dsize = Len(Block!Samples(codes)) - cut
    BY DEF Block!Init
  <2>2. PICK x \in Nat \ {0} : x = Len(Block!Samples(codes))
    BY <1>5, BlockIsLaid
  <2>3. x - cut \in Nat /\ x - cut <= x
    OBVIOUS
  <2> QED BY <2>1, <2>2, <2>3 DEF Sized
<1>7. PICK u, w : Laid(u, w)
  BY <1>5, BlockIsLaid
<1>8. PICK x, y : ValueOf(x, 0) /\ ValueOf(y, 1)
  <2>1. 0 \in 0 .. 1 /\ 1 \in 0 .. 1
    OBVIOUS
  <2> QED BY <1>5, <2>1, ValueExists
<1> DEFINE v == [c \in 0 .. 1 |-> IF c = 0 THEN x ELSE y]
<1>9. Valued(v) /\ v[0] = x /\ v[1] = y
  BY <1>8 DEF Valued
<1> HIDE DEF v
<1>10. data = 0 /\ shift = 0 /\ flip_flag = 0 /\ runlength = 0 /\ outdata = <<>>
       /\ d = [c \in 0 .. 1 |-> Block!First[c + 1] % Block!Pow(info.bps)]
  BY DEF Block!Init
<1>11. Standing(u, w, 0)
  <2>1. u[0 + 1] = 0 /\ w[0 + 1] = 0 /\ 0 \in 0 .. Len(codes)
    BY <1>3, <1>7 DEF Laid
  <2>2. Cursor(Now, 0)
    BY <1>10 DEF Cursor, Now
  <2>3. Len(outdata) = 0
    BY <1>10
  <2> QED BY <1>10, <2>1, <2>2, <2>3 DEF Standing
<1>12. Sounding(v)
  <2>1. Len(outdata) = 0 /\ outdata \in Seq(Int)
    BY <1>10
  <2>2. Block!Channel(0 + 1) = 0
    BY DEF Block!Channel
  <2>3. \A c \in 0 .. 1 : Block!Cut(v[c][0]) = Block!First[c + 1] % Block!Pow(info.bps)
    <3> TAKE c \in 0 .. 1
    <3>1. c \in {0, 1}
      OBVIOUS
    <3>2. v[c][0] = Block!First[c + 1]
      BY <1>5, <1>9, <3>1, ValuedTyped
    <3> QED BY <3>2 DEF Block!Cut
  <2>4. 0 <= dsize
    BY <1>6 DEF Sized
  <2> HIDE DEF Block!First
  <2> QED BY <1>10, <2>1, <2>2, <2>3, <2>4 DEF Sounding
<1> QED BY <1>5, <1>6, <1>7, <1>9, <1>11, <1>12 DEF BlockInv

LEMMA BlockStays ==
  ASSUME NEW u, NEW w, NEW v, Laid(u, w), Valued(v), BlockShape, Sized, UNCHANGED Block!block
  PROVE  Laid(u, w)' /\ Valued(v)' /\ BlockShape' /\ Sized'
<1>1. info' = info /\ codes' = codes /\ dsize' = dsize /\ tmpdata' = tmpdata
  BY DEF Block!block
<1>2. Block!Samples(codes)' = Block!Samples(codes) /\ Block!Stream(codes)' = Block!Stream(codes)
  BY <1>1 DEF Block!Samples, Block!Stream
<1>3. \A j : Block!Channel(j)' = Block!Channel(j)
  BY <1>1 DEF Block!Channel
<1>4. Block!Codes(info.complevel, info.runs)' = Block!Codes(info.complevel, info.runs)
  BY <1>1 DEF Block!Codes
<1>5. BlockShape' /\ Sized'
  BY <1>1, <1>2, <1>4 DEF BlockShape, InfoTyped, Sized
<1>6. Laid(u, w)'
  BY <1>1, <1>2 DEF Laid, Here
<1>7. Valued(v)'
  BY <1>2, <1>3 DEF Valued, ValueOf
<1> QED BY <1>5, <1>6, <1>7

LEMMA LastIsTyped ==
  ASSUME BlockShape, Sized, NEW v, Valued(v), Sounding(v)
  PROVE  d[flip_flag] \in Int /\ Len(outdata) \in Nat
<1>1. PICK n \in Nat : n = Len(outdata) /\ n <= dsize
  BY DEF Sounding
<1>2. InfoTyped /\ n \in 0 .. Len(Block!Samples(codes))
  <2>1. PICK x \in Nat, y \in Nat : x = dsize /\ y = Len(Block!Samples(codes)) /\ x <= y
    BY BlockIsLaid DEF Sized
  <2>2. n \in 0 .. y
    BY <1>1, <2>1
  <2> QED BY <2>1, <2>2 DEF BlockShape
<1>3. flip_flag \in {0, 1}
  BY <1>1, <1>2, TurnIsChannel DEF Sounding
<1>4. PICK a \in Int : a = v[flip_flag][n]
  BY <1>2, <1>3, ValuedTyped
<1>5. d[flip_flag] = Block!Cut(a)
  BY <1>1, <1>3, <1>4 DEF Sounding
<1>6. Block!Cut(a) \in Int
  <2>1. 0 \in Int
    OBVIOUS
  <2> QED BY <1>2, <2>1, CutAdds
<1> QED BY <1>1, <1>5, <1>6

LEMMA CodeIsDecoded ==
  ASSUME BlockInv, Block!DecodeCode
  PROVE  BlockInv'
<1>1. PICK u, w, v, m : Laid(u, w) /\ Valued(v) /\ Sounding(v) /\ Standing(u, w, m)
  BY DEF BlockInv
<1>2. BlockShape /\ Sized /\ UNCHANGED Block!block
  BY DEF BlockInv, Block!DecodeCode
<1>3. PICK N \in Nat \ {0} : N = Len(codes)
  BY <1>2 DEF BlockShape
<1>4. d[flip_flag] \in Int
  BY <1>1, <1>2, LastIsTyped
<1>5. PICK n \in Nat : n = Len(outdata) /\ n = w[m + 1] /\ n < dsize
  <2>1. PICK x \in Nat : x = Len(outdata)
    BY <1>1, <1>2, LastIsTyped
  <2>2. x + runlength = w[m + 1] /\ runlength = 0 /\ x < dsize
    BY <1>1, <2>1 DEF Standing, Block!DecodeCode, Block!Running
  <2>3. x + 0 = x
    OBVIOUS
  <2> QED BY <2>1, <2>2, <2>3
<1>6. m \in 0 .. N - 1
  <2>1. m \in 0 .. N
    BY <1>1, <1>3 DEF Standing
  <2>2. m # N
    <3>1. w[N + 1] = Len(Block!Samples(codes))
      BY <1>1, <1>3 DEF Laid
    <3>2. ~(n = Len(Block!Samples(codes)))
      <4>1. PICK x \in Nat, y \in Nat : x = dsize /\ y = Len(Block!Samples(codes)) /\ x <= y
        BY <1>2, BlockIsLaid DEF Sized
      <4>2. n < x
        BY <1>5, <4>1
      <4>3. n # y
        BY <4>1, <4>2
      <4> QED BY <4>1, <4>3
    <3> QED BY <1>5, <3>1, <3>2
  <2> QED BY <2>1, <2>2
<1>7. PICK k \in 1 .. N : k = m + 1
  BY <1>6
<1> DEFINE e == codes[k]
<1>8. /\ u[k + 1] = u[k] + Len(e.bits) /\ w[k + 1] = w[k] + 1 + e.more /\ Here(u[k], e.bits)
      /\ \A j \in 1 .. 1 + e.more : Block!Samples(codes)[w[k] + j] = e
  BY <1>1, <1>3 DEF Laid
<1>9. /\ CodeTyped(e)
      /\ \A p \in Nat : Cursor(Now, p) /\ Here(p, e.bits) /\ d[flip_flag] \in Int => TakenFor(e, p)
  <2>1. InfoTyped /\ e \in Block!Codes(info.complevel, info.runs)
    BY <1>2, <1>3 DEF BlockShape
  <2> HIDE DEF e
  <2> QED BY <2>1, CodeIsRead
<1> HIDE DEF e
<1>10. PICK p \in Nat : p = u[k]
  <2>1. k \in 1 .. N + 1
    OBVIOUS
  <2> QED BY <1>1, <1>3, <2>1 DEF Laid
<1>11. TakenFor(e, p)
  <2>1. Cursor(Now, p)
    BY <1>1, <1>7, <1>10 DEF Standing
  <2> QED BY <1>4, <1>8, <1>9, <1>10, <2>1
<1>12. PICK r \in Nat : r = e.more
  BY <1>9 DEF CodeTyped
<1>13. Block!Samples(codes)[n + 1] = e
  <2>1. 1 \in 1 .. 1 + r
    OBVIOUS
  <2>2. Block!Samples(codes)[w[k] + 1] = e
    BY <1>8, <1>12, <2>1
  <2> QED BY <1>5, <1>7, <2>2
<1>14. /\ Block!Put(Block!Decoded.sample) /\ runlength' = Block!Decoded.run
       /\ data' = Block!Decoded.cur.data /\ shift' = Block!Decoded.cur.shift
  BY DEF Block!DecodeCode
<1>15. Sounding(v)' /\ Len(outdata)' = n + 1
  <2> DEFINE sample == Block!Decoded.sample
  <2>1. sample = (IF e.zero THEN 0 ELSE d[flip_flag] + e.change)
    BY <1>11 DEF TakenFor
  <2>2. Block!Put(sample)
    BY <1>14
  <2> HIDE DEF sample
  <2> QED BY <1>1, <1>2, <1>5, <1>13, <2>1, <2>2, PutKeeps
<1>16. Standing(u, w, k)'
  <2>1. runlength' = r /\ Cursor(Block!Decoded.cur, p + Len(e.bits)) /\ Block!Decoded.cur.shift > 0
    BY <1>11, <1>12, <1>14 DEF TakenFor
  <2>2. Cursor(Now, u[k + 1])'
    <3>1. Cursor(Block!Decoded.cur, u[k + 1])
      BY <1>8, <1>10, <2>1
    <3> QED BY <1>14, <3>1 DEF Cursor, Now
  <2>3. w[k + 1] = (n + 1) + r
    <3>1. w[k] = n
      BY <1>5, <1>7
    <3>2. w[k + 1] = n + 1 + r
      BY <1>8, <1>12, <3>1
    <3>3. n + 1 + r = (n + 1) + r
      OBVIOUS
    <3> QED BY <3>2, <3>3
  <2>4. codes' = codes /\ e = codes[k]
    BY <1>2 DEF Block!block, e
  <2>5. k \in 0 .. Len(codes) /\ k > 0
    BY <1>3
  <2>6. (shift > 0)'
    BY <1>14, <2>1
  <2>7. r <= codes[k].more
    BY <1>12, <2>4
  <2> QED BY <1>15, <2>1, <2>2, <2>3, <2>4, <2>5, <2>6, <2>7 DEF Standing
<1> QED BY <1>1, <1>2, <1>15, <1>16, BlockStays DEF BlockInv

LEMMA HeldIsPut ==
  ASSUME BlockInv, Block!HoldSample
  PROVE  BlockInv'
<1>1. PICK u, w, v, m : Laid(u, w) /\ Valued(v) /\ Sounding(v) /\ Standing(u, w, m)
  BY DEF BlockInv
<1>2. /\ BlockShape /\ Sized /\ UNCHANGED Block!block /\ data' = data /\ shift' = shift
  BY DEF BlockInv, Block!HoldSample
<1>3. PICK N \in Nat \ {0} : N = Len(codes)
  BY <1>2 DEF BlockShape
<1>4. d[flip_flag] \in Int
  BY <1>1, <1>2, LastIsTyped
<1>5. PICK n \in Nat, r \in Nat \ {0} :
        /\ n = Len(outdata) /\ n < dsize /\ r = runlength /\ runlength' = r - 1
        /\ n + r = w[m + 1]
  <2>1. PICK x \in Nat : x = Len(outdata)
    BY <1>1, <1>2, LastIsTyped
  <2>2. /\ x + runlength = w[m + 1] /\ runlength \in Nat /\ runlength > 0
        /\ runlength' = runlength - 1 /\ x < dsize
    BY <1>1, <2>1 DEF Standing, Block!HoldSample, Block!Running
  <2> QED BY <2>1, <2>2
<1>6. m \in 1 .. N /\ r <= codes[m].more
  <2>1. m \in 0 .. N /\ m > 0 /\ r <= codes[m].more
    BY <1>1, <1>3, <1>5 DEF Standing
  <2> QED BY <2>1
<1> DEFINE e == codes[m]
<1>8. /\ w[m + 1] = w[m] + 1 + e.more
      /\ \A j \in 1 .. 1 + e.more : Block!Samples(codes)[w[m] + j] = e
  BY <1>1, <1>3, <1>6 DEF Laid
<1>9. CodeTyped(e)
  <2>1. InfoTyped /\ e \in Block!Codes(info.complevel, info.runs)
    BY <1>2, <1>3, <1>6 DEF BlockShape
  <2> HIDE DEF e
  <2> QED BY <2>1, CodeIsRead
<1>10. PICK g \in Nat, y \in Nat : g = e.more /\ y = w[m]
  <2>1. m \in 1 .. N + 1
    BY <1>6
  <2>2. w[m] \in Nat
    BY <1>1, <1>3, <2>1 DEF Laid
  <2> QED BY <1>9, <2>2 DEF CodeTyped
<1>11. n + r = y + 1 + g /\ r <= g
  BY <1>5, <1>6, <1>8, <1>10
<1>12. PICK j \in 1 .. 1 + g : y + j = n + 1
  <2>1. (n + 1) - y \in 1 .. 1 + g /\ y + ((n + 1) - y) = n + 1
    BY <1>11
  <2> QED BY <2>1
<1>13. Block!Samples(codes)[n + 1] = e
  BY <1>8, <1>10, <1>12
<1>14. e.change = 0 /\ ~e.zero
  <2>1. g > 0
    BY <1>11
  <2>2. e.more > 0
    BY <1>10, <2>1
  <2> QED BY <1>9, <2>2 DEF CodeTyped
<1>15. Sounding(v)' /\ Len(outdata)' = n + 1
  <2> DEFINE sample == d[flip_flag]
  <2>1. sample = (IF e.zero THEN 0 ELSE d[flip_flag] + e.change)
    <3>1. d[flip_flag] = d[flip_flag] + 0
      BY <1>4
    <3> QED BY <1>14, <3>1
  <2>2. Block!Put(sample)
    BY DEF Block!HoldSample
  <2> HIDE DEF sample, e
  <2> QED BY <1>1, <1>2, <1>5, <1>13, <2>1, <2>2, PutKeeps
<1>16. Standing(u, w, m)'
  <2>1. Now' = Now /\ codes' = codes
    BY <1>2 DEF Now, Block!block
  <2>2. Cursor(Now, u[m + 1])'
    <3>1. Cursor(Now, u[m + 1])
      BY <1>1 DEF Standing
    <3> QED BY <2>1, <3>1 DEF Cursor
  <2>3. (n + 1) + (r - 1) = w[m + 1]
    <3>1. (n + 1) + (r - 1) = n + r
      OBVIOUS
    <3> QED BY <1>5, <3>1
  <2>4. m \in 0 .. Len(codes) /\ m > 0 /\ shift > 0
    BY <1>1, <1>3, <1>6 DEF Standing
  <2>5. r - 1 \in Nat /\ r - 1 <= codes[m].more
    <3>1. r - 1 <= g /\ g = codes[m].more
      BY <1>10, <1>11
    <3> QED BY <3>1
  <2> QED BY <1>2, <1>5, <1>15, <2>1, <2>2, <2>3, <2>4, <2>5 DEF Standing
<1> QED BY <1>1, <1>2, <1>15, <1>16, BlockStays DEF BlockInv

LEMMA CursorIsInside ==
  ASSUME BlockInv
  PROVE  Block!WindowSuffices
<1>1. PICK u, w, v, m : Laid(u, w) /\ Standing(u, w, m)
  BY DEF BlockInv
<1>2. PICK N \in Nat \ {0} : N = Len(codes)
  BY DEF BlockInv, BlockShape
<1>3. BlockShape
  BY DEF BlockInv
<1>4. PICK L \in Nat : L = Len(Block!Stream(codes)) /\ L = u[N + 1]
  <2>1. N + 1 \in 1 .. N + 1
    OBVIOUS
  <2> QED BY <1>1, <1>2, <2>1 DEF Laid
<1>5. \A k \in 1 .. N : /\ u[k] \in Nat /\ u[k + 1] = u[k] + Len(codes[k].bits) /\ u[k + 1] <= L
                        /\ Len(codes[k].bits) \in Nat /\ Len(codes[k].bits) >= 3
  <2> TAKE k \in 1 .. N
  <2>1. k \in 1 .. N + 1
    OBVIOUS
  <2>2. u[k] \in Nat /\ u[k + 1] = u[k] + Len(codes[k].bits) /\ u[k + 1] <= L
    BY <1>1, <1>2, <1>4, <2>1 DEF Laid
  <2>3. InfoTyped /\ codes[k] \in Block!Codes(info.complevel, info.runs)
    BY <1>2, <1>3 DEF BlockShape
  <2>4. CodeTyped(codes[k])
    BY <2>3, CodeIsRead
  <2>5. Len(codes[k].bits) \in Nat /\ Len(codes[k].bits) >= 3
    BY <2>4 DEF CodeTyped
  <2> QED BY <2>2, <2>5
<1>6. L >= 3
  <2>1. 1 \in 1 .. N
    OBVIOUS
  <2>2. PICK g \in Nat, h \in Nat : g = u[1] /\ h = Len(codes[1].bits) /\ h >= 3 /\ u[1 + 1] = g + h /\ u[1 + 1] <= L
    BY <1>5, <2>1
  <2> QED BY <2>2
<1>7. m \in 0 .. N
  BY <1>1, <1>2 DEF Standing
<1>8. PICK x \in Nat, y \in 0 .. 16, p \in Nat :
        x = data /\ y = shift /\ p = u[m + 1] /\ 8 * x + y = p /\ (m > 0 => y > 0)
  <2>1. data \in Nat /\ shift \in 0 .. 16 /\ 8 * data + shift = u[m + 1] /\ (m > 0 => shift > 0)
    BY <1>1 DEF Standing, Cursor, Now
  <2>2. PICK x \in Nat, y \in 0 .. 16 : x = data /\ y = shift
    BY <2>1
  <2>3. 8 * x + y \in Nat
    OBVIOUS
  <2> QED BY <2>1, <2>2, <2>3
<1>9. 8 * x + 1 <= L
  <2>1. CASE m = 0
    <3>1. p = 0
      BY <1>1, <1>8, <2>1 DEF Laid
    <3>2. x = 0
      BY <1>8, <3>1
    <3> QED BY <1>6, <3>2
  <2>2. CASE m # 0
    <3>1. m \in 1 .. N
      BY <1>7, <2>2
    <3>2. p <= L
      BY <1>5, <1>8, <3>1
    <3>3. y > 0
      BY <1>8, <3>1
    <3> QED BY <1>8, <3>2, <3>3
  <2> QED BY <2>1, <2>2
<1>10. x + 1 <= (L + 7) \div 8 /\ y <= 16
  BY <1>9
<1> QED BY <1>4, <1>8, <1>10 DEF Block!WindowSuffices, Block!BytesOf

LEMMA OutIsMeant ==
  ASSUME BlockInv
  PROVE  Block!BlockDecoded
<1>1. PICK v : Valued(v) /\ Sounding(v)
  BY DEF BlockInv
<1>2. BlockShape /\ Sized
  BY DEF BlockInv
<1>3. PICK n \in Nat, D \in Nat, S \in Nat :
        n = Len(outdata) /\ D = dsize /\ S = Len(Block!Samples(codes)) /\ n <= D /\ D <= S
  <2>1. Len(outdata) \in Nat /\ Len(outdata) <= dsize
    BY <1>1 DEF Sounding
  <2> QED BY <1>2, <2>1, BlockIsLaid DEF Sized
<1>4. DOMAIN outdata = 1 .. n
  <2>1. outdata \in Seq(Int)
    BY <1>1 DEF Sounding
  <2> QED BY <1>3, <2>1
<1>5. \A k \in 1 .. n : outdata[k] = Block!Meant(k)
  <2> TAKE k \in 1 .. n
  <2>1. k \in 1 .. Len(Block!Samples(codes))
    BY <1>3
  <2>2. Block!Channel(k) \in {0, 1}
    <3>1. k - 1 \in Nat /\ (k - 1) + 1 = k /\ InfoTyped
      BY <1>2 DEF BlockShape
    <3> QED BY <3>1, TurnIsChannel
  <2>3. ValueOf(v[Block!Channel(k)], Block!Channel(k))
    BY <1>1, <2>2 DEF Valued
  <2>4. Block!Meant(k) = Block!Cut(v[Block!Channel(k)][k])
    BY <1>2, <2>1, <2>3, MeantIs
  <2>5. outdata[k] = Block!Cut(v[Block!Channel(k)][k])
    BY <1>1, <1>3 DEF Sounding
  <2> QED BY <2>4, <2>5
<1>6. ~Block!Running => n = D
  <2>1. PICK x \in Nat, B \in Nat : x = data /\ B = Block!BytesOf(codes) /\ x < B
    <3>1. data \in Nat
      BY DEF BlockInv, Standing, Cursor, Now
    <3>2. data + 1 <= Block!BytesOf(codes)
      BY CursorIsInside DEF Block!WindowSuffices
    <3>3. Block!BytesOf(codes) \in Nat
      <4>1. PICK L \in Nat : L = Len(Block!Stream(codes))
        <5>1. PICK u, w : Laid(u, w)
          BY DEF BlockInv
        <5>2. PICK N \in Nat \ {0} : N = Len(codes)
          BY <1>2 DEF BlockShape
        <5>3. N + 1 \in 1 .. N + 1
          OBVIOUS
        <5> QED BY <5>1, <5>2, <5>3 DEF Laid
      <4>2. (L + 7) \div 8 \in Nat
        OBVIOUS
      <4> QED BY <4>1, <4>2 DEF Block!BytesOf
    <3> QED BY <3>1, <3>2, <3>3
  <2>2. ~Block!Running => ~(n < D)
    BY <1>3, <2>1 DEF Block!Running
  <2> QED BY <1>3, <2>2
<1> QED BY <1>3, <1>4, <1>5, <1>6 DEF Block!BlockDecoded

-----------------------------------------------------------------------------
(* A block is decoded while its program runs. *)
LEMMA BlockInvariant == MediaSpec => [](program = "block" => BlockInv)
<1> DEFINE I == program = "block" => BlockInv
<1>1. MediaInit => I
  BY BlockStarts DEF MediaInit
<1>2. I /\ [MediaNext]_mediavars => I'
  <2> SUFFICES ASSUME I, [MediaNext]_mediavars, program' = "block"
               PROVE  BlockInv'
    OBVIOUS
  <2>1. program = "block" /\ BlockInv /\ (Block!Next \/ UNCHANGED blockvars)
    BY DEF MediaNext, mediavars
  <2>2. CASE Block!DecodeCode
    BY <2>1, <2>2, CodeIsDecoded
  <2>3. CASE Block!HoldSample
    BY <2>1, <2>3, HeldIsPut
  <2>4. CASE UNCHANGED blockvars
    <3>1. UNCHANGED Block!block /\ UNCHANGED <<data, shift, d, flip_flag, runlength, outdata>>
      BY <2>4 DEF blockvars, Block!block
    <3>2. PICK u, w, v, m : Laid(u, w) /\ Valued(v) /\ Sounding(v) /\ Standing(u, w, m)
      BY <2>1 DEF BlockInv
    <3>3. Laid(u, w)' /\ Valued(v)' /\ BlockShape' /\ Sized'
      BY <2>1, <3>1, <3>2, BlockStays DEF BlockInv
    <3>4. Sounding(v)'
      BY <3>1, <3>2 DEF Sounding, Block!block, Block!Channel, Block!Cut
    <3>5. Standing(u, w, m)'
      BY <3>1, <3>2 DEF Standing, Cursor, Now, Block!block
    <3> QED BY <3>3, <3>4, <3>5 DEF BlockInv
  <2> QED BY <2>1, <2>2, <2>3, <2>4 DEF Block!Next
<1> QED BY <1>1, <1>2, PTL DEF MediaSpec

(* NWADecode, for every level, every first value and every code of the format:
   the samples out are what the codes mean, in their order and on their
   channels, and the decoder stops at no sample before the last. *)
THEOREM BlocksAreDecoded == MediaSpec => []BlockDecoded
<1>1. (program = "block" => BlockInv) => BlockDecoded
  BY OutIsMeant DEF BlockDecoded
<1> QED BY <1>1, BlockInvariant, PTL

(* getbits finds every field in the two bytes it reads, and the second of them
   lies at most one byte behind the block. *)
THEOREM WindowIsEnough == MediaSpec => []WindowSuffices
<1>1. (program = "block" => BlockInv) => WindowSuffices
  BY CursorIsInside DEF WindowSuffices
<1> QED BY <1>1, BlockInvariant, PTL
=============================================================================
