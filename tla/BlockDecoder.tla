----------------------------- MODULE BlockDecoder -----------------------------
(***************************************************************************)
(* NWADecode of nwa2wav.cpp: the samples of one compressed block of an NWA *)
(* sound.  After a first value for each channel come codes of a varying    *)
(* number of bits, each the difference of a sample to the one before it on *)
(* its channel, or a run of samples that do not change.                    *)
(*                                                                         *)
(* A block is described by its codes; their fields are those of the        *)
(* comment at the head of nwa2wav.cpp, in Format, and not the arithmetic   *)
(* of the decoder.                                                         *)
(***************************************************************************)
EXTENDS Integers, Sequences, SequencesExt

CONSTANTS Levels,    \* complevel, of 0 to 5
          Exponents, \* of the differences
          Fields,    \* the bits of a difference, cut to its width
          Holds,     \* the run lengths
          Left,      \* the first value of each channel
          Right,
          MaxCodes   \* bound: the codes of a block

BlockAssumption ==
  /\ Levels \subseteq 0 .. 5 /\ Exponents \subseteq 1 .. 6 /\ Fields \subseteq Nat
  /\ Holds \subseteq 0 .. 255 /\ Left \in Int /\ Right \in Int /\ MaxCodes \in Nat

Pow(n) == 2 ^ n

(* The format: bits of a difference and what it is shifted by, beside the
   exponent a, for exponents 1 to 6 and for exponent 7.  The comment gives
   levels 0 and 2 and exponent 7 of 3 to 5, the code the widths of the rest. *)
Width(bits, by, bigbits, bigshift) ==
  [bits |-> bits, shift |-> by, bigbits |-> bigbits, bigshift |-> bigshift]

Format == [l \in 0 .. 5 |->
             CASE l = 0 -> Width(5, 2, 8, 9)  [] l = 3 -> Width(6, 1, 8, 9)
               [] l = 1 -> Width(4, 3, 7, 10) [] l = 4 -> Width(7, 1, 8, 9)
               [] l = 2 -> Width(3, 4, 6, 11) [] l = 5 -> Width(8, 1, 8, 9)]

(* The bits of a field, the lowest first. *)
Field(v, n) == [k \in 1 .. n |-> (v \div Pow(k - 1)) % 2]

(* A difference of n bits, the highest the sign. *)
Signed(b, n) == IF b >= Pow(n - 1) THEN -(b - Pow(n - 1)) ELSE b

(* A code: its bits, the difference, whether it sets the sample to 0 (a code
   that sounds do not use), and how many samples more it stands for. *)
Code(bits, change, zero, more) == [bits |-> bits, change |-> change, zero |-> zero, more |-> more]

Small(l, a, b) == LET f == Format[l] IN
  Code(Field(a, 3) \o Field(b, f.bits), Signed(b, f.bits) * Pow(f.shift + a), FALSE, 0)
Big(l, b) == LET f == Format[l] IN
  Code(Field(7, 3) \o <<0>> \o Field(b, f.bigbits), Signed(b, f.bigbits) * Pow(f.bigshift), FALSE, 0)
Unused    == Code(Field(7, 3) \o <<1>>, 0, TRUE, 0)
Same      == Code(Field(0, 3), 0, FALSE, 0)
Hold(r)   == Code(Field(0, 3) \o (IF r = 0 THEN <<0>>
                                  ELSE IF r < 3 THEN <<1>> \o Field(r, 2)
                                  ELSE <<1, 1, 1>> \o Field(r, 8)), 0, FALSE, r)

Differences(n) == {b % Pow(n) : b \in Fields}

Codes(l, runs) ==
  {Small(l, a, b) : a \in Exponents, b \in Differences(Format[l].bits)}
    \cup {Big(l, b) : b \in Differences(Format[l].bigbits)}
    \cup {Unused} \cup (IF runs THEN {Hold(r) : r \in Holds} ELSE {Same})

VARIABLES
  info,      \* Channels, Bps, CompLevel and UseRunLength
  codes,     \* the codes of the block
  dsize,     \* the samples to decode; a run may go on past them
  tmpdata,   \* the bits behind the first values, and a byte that follows the block
  data,      \* the byte of tmpdata to read from
  shift,     \* the bits of it that were used
  d,         \* the last sample of each channel
  flip_flag,
  runlength,
  outdata

block == <<info, codes, dsize, tmpdata>>
dvars == <<block, data, shift, d, flip_flag, runlength, outdata>>

(* A sample as the bits of the output keep it. *)
Cut(v) == v % Pow(info.bps)

Stream(cs) == FlattenSeq([k \in DOMAIN cs |-> cs[k].bits])
BytesOf(cs)  == (Len(Stream(cs)) + 7) \div 8
Samples(cs) == FlattenSeq([k \in DOMAIN cs |-> [j \in 1 .. 1 + cs[k].more |-> cs[k]]])

First == <<Left, Right>>

Init ==
  /\ info \in [channels : 1 .. 2, bps : {8, 16}, complevel : Levels, runs : BOOLEAN]
  /\ \E n \in 1 .. MaxCodes : codes \in [1 .. n -> Codes(info.complevel, info.runs)]
  /\ \E cut \in 0 .. 1 : dsize = Len(Samples(codes)) - cut
  /\ \E rest \in 0 .. 1 :
       tmpdata = [k \in 1 .. 8 * BytesOf(codes) + 16 |->
                    IF k <= Len(Stream(codes)) THEN Stream(codes)[k] ELSE rest]
  /\ data = 0 /\ shift = 0 /\ d = [c \in 0 .. 1 |-> First[c + 1] % Pow(info.bps)]
  /\ flip_flag = 0 /\ runlength = 0 /\ outdata = <<>>

-----------------------------------------------------------------------------
(* The bit cursor.  getbits steps to the next byte when it is called, not when
   it has used up a byte, and takes its bits out of two bytes. *)

(* Mutant: the step is late by two bits. *)
AtLate(cur) == IF cur.shift > 10 THEN [data |-> cur.data + 1, shift |-> cur.shift - 8] ELSE cur

At(cur) == IF cur.shift > 8 THEN [data |-> cur.data + 1, shift |-> cur.shift - 8] ELSE cur

Moved(cur, bits) == [data |-> At(cur).data, shift |-> At(cur).shift + bits]

(* Bits beyond the two bytes are zero. *)
getbits(cur, bits) ==
  LET a == At(cur)
      b == [k \in 0 .. bits - 1 |-> IF a.shift + k < 16 THEN tmpdata[8 * a.data + a.shift + k + 1] ELSE 0]
      v[k \in 0 .. bits] == IF k = 0 THEN 0 ELSE v[k - 1] + b[k - 1] * Pow(k - 1)
  IN  v[bits]

-----------------------------------------------------------------------------
(* One sample. *)

BITS(type)  == IF type = 7
               THEN IF info.complevel >= 3 THEN 8 ELSE 8 - info.complevel
               ELSE IF info.complevel >= 3 THEN info.complevel + 3 ELSE 5 - info.complevel
SHIFT(type) == IF type = 7
               THEN IF info.complevel >= 3 THEN 9 ELSE 9 + info.complevel
               ELSE IF info.complevel >= 3 THEN 1 + type ELSE 2 + type + info.complevel

(* The sample, after a difference at cur. *)
Changed(type, cur) ==
  LET n == BITS(type)
      b == getbits(cur, n)
      m == (b % Pow(n - 1)) * Pow(SHIFT(type))
  IN  IF b \div Pow(n - 1) = 1 THEN d[flip_flag] - m ELSE d[flip_flag] + m

(* A decoded code: the sample, the run that follows, the cursor behind it. *)
Result(sample, run, cur) == [sample |-> sample, run |-> run, cur |-> cur]

Run(cur) ==
  LET one == Moved(cur, 1)
      two == Moved(one, 2)
      r   == getbits(one, 2)
  IN  IF ~info.runs THEN Result(d[flip_flag], 0, cur)
      ELSE IF getbits(cur, 1) = 0 THEN Result(d[flip_flag], 0, one)
      ELSE IF r < 3 THEN Result(d[flip_flag], r, two)
      ELSE Result(d[flip_flag], getbits(two, 8), Moved(two, 8))

Decoded ==
  LET start == [data |-> data, shift |-> shift]
      type  == getbits(start, 3)
      next  == Moved(start, 3)
      flag  == Moved(next, 1)
  IN  CASE type = 0 -> Run(next)
        [] type \in 1 .. 6 -> Result(Changed(type, next), 0, Moved(next, BITS(type)))
        [] type = 7 -> IF getbits(next, 1) = 1 THEN Result(0, 0, flag)
                       ELSE Result(Changed(7, flag), 0, Moved(flag, BITS(7)))

Running == Len(outdata) < dsize /\ data < BytesOf(codes)

(* Mutant: the channels take turns by code and not by sample. *)
FlipOnCode == IF info.channels = 2 /\ runlength = 0 THEN 1 - flip_flag ELSE flip_flag

Flip == IF info.channels = 2 THEN 1 - flip_flag ELSE flip_flag

(* Out goes the sample of the channel whose turn it is. *)
Put(sample) ==
  /\ d' = [d EXCEPT ![flip_flag] = Cut(sample)]
  /\ outdata' = Append(outdata, Cut(sample))
  /\ flip_flag' = Flip

DecodeCode ==
  /\ Running /\ runlength = 0
  /\ LET r == Decoded IN
       Put(r.sample) /\ runlength' = r.run /\ data' = r.cur.data /\ shift' = r.cur.shift
  /\ UNCHANGED block

HoldSample ==
  /\ Running /\ runlength > 0
  /\ Put(d[flip_flag])
  /\ runlength' = runlength - 1
  /\ UNCHANGED <<block, data, shift>>

Next == DecodeCode \/ HoldSample

Spec == Init /\ [][Next]_dvars

-----------------------------------------------------------------------------
(* Properties. *)

(* The sample k of the block by its definition: the first value of its channel
   and all the differences of that channel up to k, from the last reset on. *)
Channel(k) == IF info.channels = 2 THEN (k - 1) % 2 ELSE 0

Meant(k) ==
  LET s == Samples(codes)
      v[j \in 0 .. k] ==
        IF j = 0 THEN First[Channel(k) + 1]
        ELSE IF Channel(j) # Channel(k) THEN v[j - 1]
        ELSE IF s[j].zero THEN 0
        ELSE v[j - 1] + s[j].change
  IN  Cut(v[k])

(* The block is decoded to what its codes mean, sample by sample, whatever
   follows it in the buffer, and to its end: neither the test for the end of
   the data nor a run that two channels share loses or moves a sample. *)
BlockDecoded ==
  /\ \A k \in DOMAIN outdata : outdata[k] = Meant(k)
  /\ ~Running => Len(outdata) = dsize

(* The bits of a field always lie in the two bytes that getbits reads, and of
   these no more than one lies behind the block. *)
WindowSuffices == shift <= 16 /\ data + 1 <= BytesOf(codes)
=============================================================================
