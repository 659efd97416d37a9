---------------------------- MODULE StreamWriter ----------------------------
(***************************************************************************)
(* StreamWriter.h: a file in memory, the vector m_Stream and the offset    *)
(* m_Offset.  Its clients are the sound converters, which only write, and  *)
(* the callbacks of the FLAC encoder, which also seek back to a place they *)
(* have written (Nwa2Flac.cpp).                                            *)
(***************************************************************************)
EXTENDS Integers, Sequences

CONSTANTS Bytes,     \* the values of a byte
          Zero,      \* NULL
          MaxWrite,  \* bound: the longest write
          MaxSize    \* bound: the greatest vector

ASSUME StreamAssumption == MaxWrite \in Nat /\ MaxSize \in Nat /\ Zero \in Bytes

VARIABLES
  m_Stream,
  m_Offset,
  file     \* history: what an ordinary file would hold after the same calls

vars == <<m_Stream, m_Offset, file>>

(* s with the bytes of t in place of, or past, those after the first n. *)
Overwrite(s, n, t) ==
  [k \in 1 .. (IF n + Len(t) > Len(s) THEN n + Len(t) ELSE Len(s)) |->
     IF k \in n + 1 .. n + Len(t) THEN t[k - n] ELSE s[k]]

Zeros(n) == [k \in 1 .. n |-> Zero]

Init == m_Stream = <<>> /\ m_Offset = 0 /\ file = <<>>

(* Mutant: the bytes are pushed, and copied only when nothing had to grow. *)
WrittenAppending(buffer) ==
  IF m_Offset + Len(buffer) > Len(m_Stream) THEN m_Stream \o buffer
  ELSE Overwrite(m_Stream, m_Offset, buffer)

(* The vector grows to the end of the write, the bytes are pushed behind that,
   then copied where they belong. *)
Written(buffer) ==
  LET short  == m_Offset + Len(buffer) - Len(m_Stream)
      grown  == m_Stream \o (IF short > 0 THEN Zeros(short) ELSE <<>>)
  IN  Overwrite(grown \o buffer, m_Offset, buffer)

Write(buffer) ==
  /\ Len(Written(buffer)) <= MaxSize
  /\ m_Stream' = Written(buffer)
  /\ m_Offset' = m_Offset + Len(buffer)
  /\ file' = Overwrite(file, m_Offset, buffer)

(* Seek refuses what lies beyond the vector; the encoder seeks to what it wrote. *)
Seek(position) ==
  /\ position <= Len(m_Stream)
  /\ m_Offset' = position
  /\ UNCHANGED <<m_Stream, file>>

(* The offset advances by what there was to read; the encoder reads back no
   farther than it wrote. *)
Read(size) ==
  /\ m_Offset' = IF m_Offset + size > Len(m_Stream) THEN Len(m_Stream) ELSE m_Offset + size
  /\ UNCHANGED <<m_Stream, file>>

-----------------------------------------------------------------------------
Buffers == UNION {[1 .. n -> Bytes] : n \in 1 .. MaxWrite}

Next == \/ \E buffer \in Buffers : Write(buffer)
        \/ \E position \in 0 .. Len(file) : Seek(position)
        \/ \E size \in 1 .. Len(file) - m_Offset : Read(size)

Spec == Init /\ [][Next]_vars

-----------------------------------------------------------------------------
(* Properties. *)

(* The types of the members. *)
TypeOK == m_Stream \in Seq(Bytes) /\ m_Offset \in Nat /\ file \in Seq(Bytes)

(* However a client wrote and sought back, the head of the vector is the file
   it meant to write: the bytes that Write pushes past it never shift or
   overwrite one of it. *)
HeadIsFile ==
  /\ Len(file) <= Len(m_Stream)
  /\ \A k \in 1 .. Len(file) : m_Stream[k] = file[k]
=============================================================================
