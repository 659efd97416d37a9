----------------------------- MODULE SceneProofs -----------------------------
(***************************************************************************)
(* Every Scene.pck that CreateScenePck writes unpacks to the scripts it    *)
(* was made of, for any scripts, sizes and lengths of the keys.            *)
(*                                                                         *)
(* The argument: the index and the disk buffer agree at every moment       *)
(* (Built), also as far as a cut file goes (Begun); the entries of an      *)
(* archive lie in bytes of their own, so that decrypting one leaves those  *)
(* that follow as they were written; and the same keys from the start of   *)
(* an entry take off what they put on.                                     *)
(***************************************************************************)
EXTENDS SceneArchive, SequenceTheorems, TLAPS

(* The locks on byte k of an entry, and the byte, as a function of needKey. *)
Both(key, k) ==
  {<<"fixed", k % FixedLength>>} \cup (IF key THEN {<<"key", k % KeyLength>>} ELSE {})

Locked(key, s, k) == Byte(s, k, Both(key, k))

(* Entry e of the index i says where the bytes d hold the script t[e], as far
   as they go, behind those before it. *)
Placed(key, i, d, t, e) ==
  /\ i[e].count = CompLen(t[e])
  /\ \A k \in 0 .. CompLen(t[e]) - 1 :
       i[e].offset + k + 1 <= Len(d) => d[i[e].offset + k + 1] = Locked(key, t[e], k)
  /\ \A f \in 1 .. e - 1 : i[f].offset + i[f].count <= i[e].offset

(* The beginning of an archive ... *)
Begun(key, i, d, t) ==
  /\ i \in Seq([offset : Nat, count : Nat]) /\ d \in Seq(Bytes) /\ t \in Seq(Scripts)
  /\ Len(i) <= Len(t)
  /\ \A e \in 1 .. Len(i) : Placed(key, i, d, t, e)

(* ... and all of it. *)
Built(key, i, d, t) ==
  /\ Begun(key, i, d, t) /\ Len(i) = Len(t)
  /\ \A e \in 1 .. Len(t) : i[e].offset + i[e].count <= Len(d)

PackingRight == Built(needKey, info, disk, taken) /\ offset = Len(disk)

OutputRight ==
  /\ output = [info |-> output.info, data |-> output.data, of |-> output.of]
  /\ Begun(needKey, output.info, output.data, output.of)
  /\ output # Nothing => Len(output.of) = Entries
  /\ ~torn => Built(needKey, output.info, output.data, output.of)

UnpackingRight ==
  phase = "unpack" =>
    /\ output # Nothing
    /\ entry \in 1 .. Entries + 1
    /\ DOMAIN buffer = 1 .. Len(output.data)
    /\ \A e \in entry .. Len(output.info) : \A k \in 0 .. CompLen(output.of[e]) - 1 :
         output.info[e].offset + k + 1 <= Len(output.data) =>
           buffer[output.info[e].offset + k + 1] = Locked(needKey, output.of[e], k)

(* Before the file is opened all scripts are read. *)
WritingRight == phase = "write" => Len(taken) = Entries

IInv == TypeOK /\ PackingRight /\ WritingRight /\ OutputRight /\ UnpackingRight /\ RoundTrip

-----------------------------------------------------------------------------
LEMMA CompLenType == \A s \in Scripts : CompLen(s) \in Nat \ {0}
BY SceneAssumption DEF CompLen

LEMMA BothType ==
  ASSUME NEW key, NEW k \in Nat
  PROVE  Both(key, k) \in SUBSET Locks
<1>1. k % KeyLength \in 0 .. KeyLength - 1 /\ k % FixedLength \in 0 .. FixedLength - 1
  BY SceneAssumption, SMT
<1>2. <<"key", k % KeyLength>> \in Locks /\ <<"fixed", k % FixedLength>> \in Locks
  BY <1>1, Zenon DEF Locks
<1> QED
  BY <1>2, Zenon DEF Both

(* The two calls of CreateScenePck put both locks on ... *)
LEMMA Lock ==
  ASSUME NEW k
  PROVE  decrypt_1(decrypt_2({}, k), k) = Both(needKey, k)
<1> DEFINE F == <<"fixed", k % FixedLength>>
           K == <<"key", k % KeyLength>>
<1>1. F # K
  BY SMT
<1>2. decrypt_2({}, k) = {F}
  BY Zenon DEF decrypt_2, Xor
<1>3. CASE ~needKey
  BY <1>2, <1>3, Zenon DEF decrypt_1, Both
<1>4. CASE needKey
  BY <1>1, <1>2, <1>4, Zenon DEF decrypt_1, Xor, Both
<1> QED
  BY <1>3, <1>4

(* ... and those of UnpackScene take them off. *)
LEMMA Unlock ==
  ASSUME NEW k
  PROVE  decrypt_2(decrypt_1(Both(needKey, k), k), k) = {}
<1> DEFINE F == <<"fixed", k % FixedLength>>
           K == <<"key", k % KeyLength>>
<1>1. F # K
  BY SMT
<1>2. decrypt_1(Both(needKey, k), k) = {F}
  <2>1. CASE ~needKey
    BY <2>1, Zenon DEF decrypt_1, Both
  <2>2. CASE needKey
    <3>1. Both(needKey, k) = {F} \cup {K}
      BY <2>2, Zenon DEF Both
    <3>2. decrypt_1({F} \cup {K}, k) = ({F} \cup {K}) \ {K}
      BY <2>2, Zenon DEF decrypt_1, Xor
    <3>3. ({F} \cup {K}) \ {K} = {F}
      BY <1>1, Zenon
    <3> QED
      BY <3>1, <3>2, <3>3, Zenon
  <2> QED
    BY <2>1, <2>2
<1>3. decrypt_2({F}, k) = {}
  BY Zenon DEF decrypt_2, Xor
<1> QED
  BY <1>2, <1>3, Zenon

LEMMA LockedType ==
  ASSUME NEW key, NEW s \in Scripts, NEW k \in Nat
  PROVE  Locked(key, s, k) \in Bytes
BY BothType DEF Locked, Byte, Bytes

LEMMA PackedFacts ==
  ASSUME NEW s \in Scripts
  PROVE  /\ Packed(s) \in Seq(Bytes)
         /\ Len(Packed(s)) = Step(s)
         /\ \A k \in 0 .. CompLen(s) - 1 : Packed(s)[k + 1] = Locked(needKey, s, k)
<1> DEFINE L == CompLen(s) + Header
<1>1. L \in Nat /\ CompLen(s) \in Nat /\ CompLen(s) < L
  BY CompLenType, SceneAssumption
<1>2. ASSUME NEW n \in 1 .. L
      PROVE  Packed(s)[n] = IF n <= CompLen(s) THEN Locked(needKey, s, n - 1)
                                               ELSE Byte(s, n - 1, {})
  BY Lock, Zenon DEF Packed, Locked
<1>3. ASSUME NEW n \in 1 .. L PROVE Packed(s)[n] \in Bytes
  <2>1. n - 1 \in Nat
    BY <1>1
  <2>2. Locked(needKey, s, n - 1) \in Bytes
    BY <2>1, LockedType
  <2>3. Byte(s, n - 1, {}) \in Bytes
    BY <2>1 DEF Byte, Bytes
  <2> QED
    BY <2>2, <2>3, <1>2
<1>4. Packed(s) = [n \in 1 .. L |-> Packed(s)[n]]
  BY DEF Packed
<1>5. Packed(s) \in Seq(Bytes) /\ Len(Packed(s)) = L
  <2> HIDE DEF L
  <2> QED
    BY <1>1, <1>3, <1>4
<1>6. ASSUME NEW k \in 0 .. CompLen(s) - 1 PROVE Packed(s)[k + 1] = Locked(needKey, s, k)
  <2>1. k + 1 \in 1 .. L /\ k + 1 <= CompLen(s) /\ (k + 1) - 1 = k
    BY <1>1
  <2> QED
    BY <2>1, <1>2
<1> QED
  BY <1>5, <1>6 DEF Step

LEMMA StepType == \A s \in Scripts : Step(s) \in Nat /\ CompLen(s) <= Step(s)
<1> TAKE s \in Scripts
<1>1. CompLen(s) \in Nat /\ Header \in Nat
  BY CompLenType, SceneAssumption
<1> QED
  BY <1>1, SMT DEF Step

LEMMA BegunTypes ==
  ASSUME NEW key, NEW i, NEW d, NEW t, Begun(key, i, d, t), NEW e \in 1 .. Len(i)
  PROVE  /\ i[e].offset \in Nat /\ i[e].count \in Nat \ {0} /\ Len(d) \in Nat
         /\ t[e] \in Scripts /\ i[e].count = CompLen(t[e]) /\ Placed(key, i, d, t, e)
<1>1. /\ i \in Seq([offset : Nat, count : Nat]) /\ d \in Seq(Bytes) /\ t \in Seq(Scripts)
      /\ Len(i) <= Len(t) /\ Placed(key, i, d, t, e)
  BY DEF Begun
<1>2. e \in 1 .. Len(t)
  BY <1>1
<1>3. i[e] \in [offset : Nat, count : Nat] /\ t[e] \in Scripts
  BY <1>1, <1>2, ElementOfSeq
<1>4. i[e].count = CompLen(t[e])
  BY <1>1 DEF Placed
<1>5. CompLen(t[e]) \in Nat \ {0}
  BY <1>3, CompLenType
<1> QED
  BY <1>1, <1>3, <1>4, <1>5

LEMMA BuiltTypes ==
  ASSUME NEW key, NEW i, NEW d, NEW t, Built(key, i, d, t), NEW e \in 1 .. Len(t)
  PROVE  /\ i[e].offset \in Nat /\ i[e].count \in Nat \ {0} /\ Len(d) \in Nat
         /\ t[e] \in Scripts /\ i[e].count = CompLen(t[e]) /\ Placed(key, i, d, t, e)
         /\ i[e].offset + i[e].count <= Len(d)
<1>1. Begun(key, i, d, t) /\ e \in 1 .. Len(i) /\ i[e].offset + i[e].count <= Len(d)
  BY DEF Built
<1> QED
  BY <1>1, BegunTypes

LEMMA Beginning ==
  ASSUME NEW S, NEW q \in Seq(S), NEW n \in 0 .. Len(q)
  PROVE  SubSeq(q, 1, n) \in Seq(S) /\ Len(SubSeq(q, 1, n)) = n
         /\ \A e \in 1 .. n : SubSeq(q, 1, n)[e] = q[e]
OBVIOUS

(* Whatever of an archive reaches the disk is a beginning of it. *)
LEMMA BuiltCut ==
  ASSUME NEW key, NEW i, NEW d, NEW t, Built(key, i, d, t),
         NEW n \in 0 .. Len(i), NEW m \in 0 .. Len(d)
  PROVE  Begun(key, SubSeq(i, 1, n), SubSeq(d, 1, m), t)
<1> DEFINE i2 == SubSeq(i, 1, n)
           d2 == SubSeq(d, 1, m)
<1>1. /\ i \in Seq([offset : Nat, count : Nat]) /\ d \in Seq(Bytes) /\ t \in Seq(Scripts)
      /\ Len(i) = Len(t) /\ Len(i) \in Nat /\ Len(d) \in Nat
  BY DEF Built, Begun
<1>2. i2 \in Seq([offset : Nat, count : Nat]) /\ Len(i2) = n /\ \A e \in 1 .. n : i2[e] = i[e]
  BY <1>1, Beginning
<1>3. d2 \in Seq(Bytes) /\ Len(d2) = m /\ \A k \in 1 .. m : d2[k] = d[k]
  BY <1>1, Beginning
<1> HIDE DEF i2, d2
<1>4. ASSUME NEW e \in 1 .. n PROVE Placed(key, i2, d2, t, e)
  <2>1. e \in 1 .. Len(t) /\ i2[e] = i[e]
    BY <1>1, <1>2
  <2>2. /\ i[e].offset \in Nat /\ i[e].count = CompLen(t[e]) /\ Placed(key, i, d, t, e)
        /\ CompLen(t[e]) \in Nat
    BY <2>1, BuiltTypes
  <2>3. ASSUME NEW k \in 0 .. CompLen(t[e]) - 1, i[e].offset + k + 1 <= m
        PROVE  d2[i[e].offset + k + 1] = Locked(key, t[e], k)
    <3>1. i[e].offset + k + 1 \in 1 .. m /\ i[e].offset + k + 1 <= Len(d)
      <4> DEFINE a == i[e].offset
                 c == CompLen(t[e])
      <4>1. a \in Nat /\ c \in Nat /\ k \in 0 .. c - 1 /\ a + k + 1 <= m
        BY <2>2, <2>3
      <4> HIDE DEF a, c
      <4>2. a + k + 1 \in 1 .. m /\ a + k + 1 <= Len(d)
        BY <4>1, <1>1
      <4> QED
        BY <4>2 DEF a
    <3>2. d[i[e].offset + k + 1] = Locked(key, t[e], k)
      BY <2>2, <3>1 DEF Placed
    <3> QED
      BY <3>1, <3>2, <1>3
  <2>4. ASSUME NEW f \in 1 .. e - 1 PROVE i2[f].offset + i2[f].count <= i[e].offset
    <3>1. f \in 1 .. n
      BY <1>1
    <3> QED
      BY <3>1, <1>2, <2>2 DEF Placed
  <2> QED
    BY <2>1, <2>2, <2>3, <2>4, <1>3 DEF Placed
<1>5. n <= Len(t)
  BY <1>1
<1>6. \A e \in 1 .. Len(i2) : Placed(key, i2, d2, t, e)
  BY <1>2, <1>4
<1>7. Begun(key, i2, d2, t)
  BY <1>1, <1>2, <1>3, <1>5, <1>6 DEF Begun
<1> QED
  BY <1>7 DEF i2, d2

LEMMA BuiltWhole ==
  ASSUME NEW i, NEW d, i \in Seq([offset : Nat, count : Nat]), d \in Seq(Bytes)
  PROVE  SubSeq(i, 1, Len(i)) = i /\ SubSeq(d, 1, Len(d)) = d
<1>1. SubSeq(i, 1, Len(i)) = i
  BY SubSeqFull
<1>2. SubSeq(d, 1, Len(d)) = d
  BY SubSeqFull
<1> QED
  BY <1>1, <1>2

(* One more script behind the others. *)
LEMMA BuiltAppend ==
  ASSUME NEW key, NEW i, NEW d, NEW t, Built(key, i, d, t), NEW s \in Scripts,
         NEW p \in Seq(Bytes), Len(p) = Step(s),
         \A k \in 0 .. CompLen(s) - 1 : p[k + 1] = Locked(key, s, k)
  PROVE  /\ Built(key, Append(i, [offset |-> Len(d), count |-> CompLen(s)]), d \o p, Append(t, s))
         /\ Len(d \o p) = Len(d) + Step(s)
<1> DEFINE r  == [offset |-> Len(d), count |-> CompLen(s)]
           i2 == Append(i, r)
           d2 == d \o p
           t2 == Append(t, s)
<1>1. r \in [offset : Nat, count : Nat] /\ CompLen(s) \in Nat /\ CompLen(s) <= Step(s)
      /\ Step(s) \in Nat /\ Len(d) \in Nat /\ r.offset = Len(d) /\ r.count = CompLen(s)
  BY CompLenType, StepType DEF Built, Begun
<1>2. p \in Seq(Bytes) /\ Len(p) = Step(s)
      /\ \A k \in 0 .. CompLen(s) - 1 : p[k + 1] = Locked(key, s, k)
  OBVIOUS
<1>3. i \in Seq([offset : Nat, count : Nat]) /\ d \in Seq(Bytes) /\ t \in Seq(Scripts)
  BY DEF Built, Begun
<1>4. i2 \in Seq([offset : Nat, count : Nat]) /\ Len(i2) = Len(i) + 1
      /\ i2[Len(i) + 1] = r /\ \A e \in 1 .. Len(i) : i2[e] = i[e]
  <2> HIDE DEF r
  <2> QED
    BY <1>1, <1>3, AppendProperties
<1>5. t2 \in Seq(Scripts) /\ Len(t2) = Len(t) + 1
      /\ t2[Len(t) + 1] = s /\ \A e \in 1 .. Len(t) : t2[e] = t[e]
  BY <1>3, AppendProperties
<1>6. /\ d2 \in Seq(Bytes) /\ Len(d2) = Len(d) + Step(s)
      /\ \A n \in 1 .. Len(d) : d2[n] = d[n]
      /\ \A k \in 0 .. CompLen(s) - 1 : d2[r.offset + k + 1] = Locked(key, s, k)
  <2> HIDE DEF r
  <2>1. d2 \in Seq(Bytes) /\ Len(d2) = Len(d) + Len(p)
        /\ \A n \in 1 .. Len(d) + Len(p) :
             d2[n] = IF n <= Len(d) THEN d[n] ELSE p[n - Len(d)]
    BY <1>2, <1>3, ConcatProperties
  <2> HIDE DEF d2
  <2>2. ASSUME NEW n \in 1 .. Len(d) PROVE d2[n] = d[n]
    BY <1>1, <1>2, <2>1
  <2>3. ASSUME NEW k \in 0 .. CompLen(s) - 1 PROVE d2[r.offset + k + 1] = Locked(key, s, k)
    <3>1. r.offset + k + 1 \in 1 .. Len(d) + Len(p) /\ ~(r.offset + k + 1 <= Len(d))
          /\ (r.offset + k + 1) - Len(d) = k + 1
      BY <1>1, <1>2
    <3>2. d2[r.offset + k + 1] = p[k + 1]
      BY <3>1, <2>1
    <3>3. p[k + 1] = Locked(key, s, k)
      BY <1>2
    <3> QED
      BY <3>2, <3>3
  <2> QED
    BY <1>2, <2>1, <2>2, <2>3, Zenon
<1>7. Len(i) = Len(t) /\ Len(i) \in Nat
  BY <1>3 DEF Built
<1> HIDE DEF r, i2, d2, t2
<1>8. ASSUME NEW e, e = Len(t) + 1
      PROVE  Placed(key, i2, d2, t2, e) /\ i2[e].offset + i2[e].count <= Len(d2)
  <2>1. i2[e] = r /\ t2[e] = s /\ e - 1 = Len(t)
    BY <1>4, <1>5, <1>7, <1>8
  <2>2. r.offset + r.count <= Len(d2)
    BY <1>1, <1>6
  <2>3. ASSUME NEW f \in 1 .. Len(t) PROVE i2[f].offset + i2[f].count <= r.offset
    <3>1. i2[f] = i[f]
      BY <1>4, <1>7
    <3>2. i[f].offset + i[f].count <= Len(d)
      BY BuiltTypes
    <3> QED
      BY <3>1, <3>2, <1>1
  <2>4. \A k \in 0 .. CompLen(s) - 1 : d2[r.offset + k + 1] = Locked(key, s, k)
    BY <1>6, Zenon
  <2>5. i2[e].count = CompLen(t2[e])
    BY <2>1, <1>1
  <2>6. i2[e].offset + i2[e].count <= Len(d2)
    BY <2>1, <2>2
  <2>7. \A k \in 0 .. CompLen(t2[e]) - 1 : d2[i2[e].offset + k + 1] = Locked(key, t2[e], k)
    BY <2>1, <2>4
  <2>8. \A f \in 1 .. e - 1 : i2[f].offset + i2[f].count <= i2[e].offset
    BY <2>1, <2>3
  <2> QED
    BY <2>5, <2>6, <2>7, <2>8, Zenon DEF Placed
<1>9. ASSUME NEW e \in 1 .. Len(t)
      PROVE  Placed(key, i2, d2, t2, e) /\ i2[e].offset + i2[e].count <= Len(d2)
  <2>1. i2[e] = i[e] /\ t2[e] = t[e] /\ \A f \in 1 .. e - 1 : i2[f] = i[f]
    <3>1. i2[e] = i[e] /\ t2[e] = t[e]
      BY <1>4, <1>5, <1>7, Zenon
    <3>2. ASSUME NEW f \in 1 .. e - 1 PROVE f \in 1 .. Len(i)
      BY <1>7
    <3> QED
      BY <3>1, <3>2, <1>4, Zenon
  <2>2. /\ i[e].count \in Nat \ {0} /\ i[e].offset \in Nat /\ i[e].count = CompLen(t[e])
        /\ Placed(key, i, d, t, e)
    BY BuiltTypes
  <2>3. i[e].offset + i[e].count <= Len(d)
    BY BuiltTypes
  <2>4. ASSUME NEW k \in 0 .. CompLen(t[e]) - 1
        PROVE  d2[i[e].offset + k + 1] = Locked(key, t[e], k)
    <3>1. i[e].offset + k + 1 \in 1 .. Len(d) /\ i[e].offset + k + 1 <= Len(d)
      BY <2>2, <2>3, <1>1, SMTT(60)
    <3>2. d[i[e].offset + k + 1] = Locked(key, t[e], k)
      BY <2>2, <3>1 DEF Placed
    <3>3. \A n \in 1 .. Len(d) : d2[n] = d[n]
      BY <1>6, Zenon
    <3> QED
      BY <3>1, <3>2, <3>3, Zenon
  <2>5. i[e].offset + i[e].count <= Len(d2)
    BY <2>2, <2>3, <1>1, <1>6
  <2>6. \A f \in 1 .. e - 1 : i2[f].offset + i2[f].count <= i[e].offset
    BY <2>1, <2>2 DEF Placed
  <2> QED
    BY <2>1, <2>2, <2>4, <2>5, <2>6 DEF Placed
<1>10. \A e \in 1 .. Len(t2) :
          Placed(key, i2, d2, t2, e) /\ i2[e].offset + i2[e].count <= Len(d2)
  <2>1. ASSUME NEW e \in 1 .. Len(t2) PROVE e \in 1 .. Len(t) \/ e = Len(t) + 1
    BY <1>5, <1>7
  <2> QED
    BY <2>1, <1>8, <1>9, Zenon
<1>11. Built(key, i2, d2, t2)
  <2>1. Len(i2) = Len(t2) /\ Len(i2) <= Len(t2)
    BY <1>4, <1>5, <1>7
  <2>2. Begun(key, i2, d2, t2)
    BY <1>4, <1>5, <1>6, <1>10, <2>1 DEF Begun
  <2> QED
    BY <1>10, <2>1, <2>2 DEF Built
<1> QED
  BY <1>6, <1>11 DEF r, i2, d2, t2

LEMMA BuiltEmpty == ASSUME NEW key PROVE Built(key, <<>>, <<>>, <<>>)
BY DEF Built, Begun

LEMMA Inside ==
  ASSUME NEW a \in Nat, NEW c \in Nat, NEW n \in Nat, NEW k \in Nat, k < c, a + k + 1 <= n
  PROVE  /\ a + k + 1 \in 1 .. n /\ a < a + k + 1 /\ a + k + 1 <= a + c
         /\ (a + k + 1) - a - 1 = k
OBVIOUS

LEMMA Behind ==
  ASSUME NEW a \in Nat, NEW b \in Nat, NEW c \in Nat, NEW k \in Nat, b + c <= a
  PROVE  ~(a + k + 1 <= b + c)
OBVIOUS

(* Where the bytes of an entry are, and those of a later one. *)
LEMMA EntryPlace ==
  ASSUME NEW key, NEW i, NEW d, NEW t, Begun(key, i, d, t), NEW e \in 1 .. Len(i),
         NEW k \in 0 .. CompLen(t[e]) - 1, i[e].offset + k + 1 <= Len(d)
  PROVE  /\ i[e].offset + k + 1 \in 1 .. Len(d)
         /\ i[e].offset < i[e].offset + k + 1
         /\ i[e].offset + k + 1 <= i[e].offset + i[e].count
         /\ (i[e].offset + k + 1) - i[e].offset - 1 = k
         /\ d[i[e].offset + k + 1] = Locked(key, t[e], k)
         /\ \A f \in 1 .. e - 1 : ~(i[e].offset + k + 1 <= i[f].offset + i[f].count)
<1>1. /\ i[e].offset \in Nat /\ i[e].count \in Nat \ {0} /\ Len(d) \in Nat
      /\ i[e].count = CompLen(t[e]) /\ Placed(key, i, d, t, e)
  BY BegunTypes
<1>2. i[e].offset \in Nat /\ i[e].count \in Nat /\ Len(d) \in Nat
  BY <1>1
<1>3. k \in Nat /\ k < i[e].count
  BY <1>1
<1>4. d[i[e].offset + k + 1] = Locked(key, t[e], k)
  BY <1>1 DEF Placed
<1>5. ASSUME NEW f \in 1 .. e - 1 PROVE ~(i[e].offset + k + 1 <= i[f].offset + i[f].count)
  <2>1. f \in 1 .. Len(i)
    BY DEF Begun
  <2>2. i[f].offset \in Nat /\ i[f].count \in Nat
    BY <2>1, BegunTypes
  <2>3. i[f].offset + i[f].count <= i[e].offset
    BY <1>1 DEF Placed
  <2> QED
    BY <2>2, <2>3, <1>2, <1>3, Behind, Zenon
<1>6. /\ i[e].offset + k + 1 \in 1 .. Len(d)
      /\ i[e].offset < i[e].offset + k + 1
      /\ i[e].offset + k + 1 <= i[e].offset + i[e].count
      /\ (i[e].offset + k + 1) - i[e].offset - 1 = k
  <2> DEFINE a == i[e].offset
             c == i[e].count
             n == Len(d)
  <2>1. a \in Nat /\ c \in Nat /\ n \in Nat /\ k \in Nat /\ k < c /\ a + k + 1 <= n
    BY <1>2, <1>3, Zenon
  <2> HIDE DEF a, c, n
  <2>2. a + k + 1 \in 1 .. n /\ a < a + k + 1 /\ a + k + 1 <= a + c /\ (a + k + 1) - a - 1 = k
    BY <2>1, Inside
  <2> QED
    BY <2>2, Zenon DEF a, c, n
<1>7. \A f \in 1 .. e - 1 : ~(i[e].offset + k + 1 <= i[f].offset + i[f].count)
  BY <1>5, Zenon
<1> QED
  BY <1>4, <1>6, <1>7, Zenon

-----------------------------------------------------------------------------
(* The invariant holds at the start and every step keeps it. *)

LEMMA InitInv == Init => IInv
<1> SUFFICES ASSUME Init PROVE IInv
  OBVIOUS
<1>1. TypeOK
  <2>1. \A e \in 1 .. Entries : Absent \in Scripts \cup {Absent, Garbled}
    OBVIOUS
  <2>2. unpacked \in [1 .. Entries -> Scripts \cup {Absent, Garbled}]
    BY <2>1 DEF Init
  <2>3. /\ info \in Seq([offset : Nat, count : Nat]) /\ disk \in Seq(Bytes)
        /\ taken \in Seq(Scripts) /\ Len(info) = Len(taken)
    BY DEF Init
  <2> QED
    BY <2>2, <2>3 DEF Init, TypeOK
<1>2. PackingRight
  BY BuiltEmpty DEF Init, PackingRight
<1>3. OutputRight
  BY BuiltEmpty DEF Init, OutputRight, Nothing, Built
<1>4. UnpackingRight /\ RoundTrip
  BY DEF Init, UnpackingRight, RoundTrip
<1>5. WritingRight
  BY DEF Init, WritingRight
<1> QED
  BY <1>1, <1>2, <1>3, <1>4, <1>5 DEF IInv

(* What only changes the directory, the phase away from "unpack" and "write",
   or the new archive leaves the rest of the invariant alone. *)
LEMMA OutputKept ==
  ASSUME OutputRight, UNCHANGED <<needKey, archive>>
  PROVE  OutputRight'
BY DEF OutputRight, archive

LEMMA PackingKept ==
  ASSUME PackingRight, UNCHANGED <<needKey, packing>>
  PROVE  PackingRight'
BY DEF PackingRight, packing

LEMMA PackingFresh ==
  ASSUME Fresh
  PROVE  PackingRight'
BY BuiltEmpty DEF PackingRight, Fresh

LEMMA NotUnpacking ==
  ASSUME phase' # "unpack"
  PROVE  UnpackingRight' /\ RoundTrip'
BY DEF UnpackingRight, RoundTrip

LEMMA NotWriting ==
  ASSUME phase' # "write"
  PROVE  WritingRight'
BY DEF WritingRight

LEMMA EditStep == IInv /\ Edit => IInv'
<1> SUFFICES ASSUME IInv, Edit PROVE IInv'
  OBVIOUS
<1> USE DEF IInv
<1>1. TypeOK'
  BY DEF Edit, TypeOK, packing, unpacking, archive
<1>2. PackingRight' /\ OutputRight'
  BY PackingKept, OutputKept DEF Edit
<1>3. UnpackingRight' /\ RoundTrip' /\ WritingRight'
  BY DEF Edit, UnpackingRight, RoundTrip, WritingRight, Within, packing, unpacking, archive
<1> QED
  BY <1>1, <1>2, <1>3

LEMMA BeginPackStep == IInv /\ BeginPack => IInv'
<1> SUFFICES ASSUME IInv, BeginPack PROVE IInv'
  OBVIOUS
<1> USE DEF IInv, BeginPack
<1>1. TypeOK'
  BY DEF TypeOK, Fresh, unpacking, archive
<1> QED
  BY <1>1, PackingFresh, OutputKept, NotUnpacking, NotWriting

LEMMA PackEntryStep == IInv /\ PackEntry => IInv'
<1> SUFFICES ASSUME IInv, PackEntry PROVE IInv'
  OBVIOUS
<1> USE DEF IInv
<1> DEFINE s == dir[Len(taken) + 1]
           r == [offset |-> offset, count |-> CompLen(s)]
<1>1. /\ s \in Scripts /\ info' = Append(info, r) /\ disk' = disk \o Packed(s)
      /\ offset' = offset + Step(s) /\ taken' = Append(taken, s)
      /\ UNCHANGED <<needKey, dir, phase, archive, unpacking>> /\ phase = "pack"
  <2>1. Len(taken) + 1 \in 1 .. Entries /\ dir \in [1 .. Entries -> Scripts \cup {Absent}]
    BY SceneAssumption DEF PackEntry, TypeOK
  <2>2. s \in Scripts \cup {Absent} /\ s # Absent
    BY <2>1 DEF PackEntry
  <2> QED
    BY <2>2 DEF PackEntry
<1>2. Built(needKey, info, disk, taken) /\ offset = Len(disk)
  BY DEF PackingRight
<1>3. Built(needKey, info', disk', taken') /\ Len(disk') = Len(disk) + Step(s)
  <2> DEFINE q == [offset |-> Len(disk), count |-> CompLen(s)]
             p == Packed(s)
  <2>1. r = q
    BY <1>2
  <2> HIDE DEF s, r
  <2>2. /\ p \in Seq(Bytes) /\ Len(p) = Step(s)
        /\ \A k \in 0 .. CompLen(s) - 1 : p[k + 1] = Locked(needKey, s, k)
    BY <1>1, PackedFacts, Zenon
  <2> HIDE DEF p, q
  <2>3. /\ Built(needKey, Append(info, q), disk \o p, Append(taken, s))
        /\ Len(disk \o p) = Len(disk) + Step(s)
    <3>1. s \in Scripts /\ Built(needKey, info, disk, taken)
      BY <1>1, <1>2
    <3> QED BY <2>2, <3>1, BuiltAppend DEF q
  <2> QED
    BY <1>1, <2>1, <2>3, Zenon DEF p, q
<1>4. PackingRight'
  BY <1>1, <1>2, <1>3 DEF PackingRight
<1>5. TypeOK'
  <2>1. offset' \in Nat
    BY <1>1, StepType DEF TypeOK
  <2>2. taken' \in Seq(Scripts) /\ info' \in Seq([offset : Nat, count : Nat])
        /\ disk' \in Seq(Bytes) /\ Len(info') = Len(taken')
    BY <1>3 DEF Built, Begun
  <2> QED
    BY <1>1, <2>1, <2>2 DEF TypeOK, unpacking, archive
<1> QED
  BY <1>1, <1>4, <1>5, OutputKept, NotUnpacking, NotWriting

(* What Written leaves is a beginning of the new archive, all of it or torn. *)
LEMMA WrittenRight ==
  ASSUME IInv, phase = "write", Written, UNCHANGED needKey
  PROVE  OutputRight' /\ torn' \in BOOLEAN
<1>1. PICK n \in 0 .. Len(info), m \in 0 .. Len(disk) :
        /\ output' = [info |-> SubSeq(info, 1, n), data |-> SubSeq(disk, 1, m), of |-> taken]
        /\ torn' = (n < Len(info) \/ m < Len(disk))
  BY DEF Written
<1> DEFINE i2 == SubSeq(info, 1, n)
           d2 == SubSeq(disk, 1, m)
<1>2. Built(needKey, info, disk, taken) /\ Len(taken) = Entries
  BY DEF IInv, PackingRight, WritingRight
<1>3. Begun(needKey, i2, d2, taken)
  BY <1>2, BuiltCut
<1>4. info \in Seq([offset : Nat, count : Nat]) /\ disk \in Seq(Bytes)
      /\ Len(info) \in Nat /\ Len(disk) \in Nat
  BY <1>2 DEF Built, Begun
<1>5. ~torn' => Built(needKey, i2, d2, taken)
  <2> SUFFICES ASSUME ~torn' PROVE Built(needKey, i2, d2, taken)
    OBVIOUS
  <2>1. n = Len(info) /\ m = Len(disk)
    <3>1. ~(n < Len(info) \/ m < Len(disk))
      BY <1>1, Zenon
    <3> QED
      BY <3>1, <1>4
  <2>2. i2 = info /\ d2 = disk
    BY <2>1, <1>4, BuiltWhole
  <2> QED
    BY <2>2, <1>2, Zenon
<1>6. output'.info = i2 /\ output'.data = d2 /\ output'.of = taken
      /\ output' = [info |-> i2, data |-> d2, of |-> taken]
  BY <1>1
<1> HIDE DEF i2, d2
<1>7. OutputRight'
  BY <1>2, <1>3, <1>5, <1>6, Zenon DEF OutputRight
<1>8. torn' \in BOOLEAN
  BY <1>1
<1> QED
  BY <1>7, <1>8

LEMMA PackMissingStep == IInv /\ PackMissing => IInv'
<1> SUFFICES ASSUME IInv, PackMissing PROVE IInv'
  OBVIOUS
<1> USE DEF IInv, PackMissing, KeepOutput, Return
<1>1. TypeOK'
  BY DEF TypeOK, unpacking, archive, Fresh
<1> QED
  BY <1>1, PackingFresh, OutputKept, NotUnpacking, NotWriting

LEMMA CreateOutputStep == IInv /\ CreateOutput => IInv'
<1> SUFFICES ASSUME IInv, CreateOutput PROVE IInv'
  OBVIOUS
<1> USE DEF IInv
<1>1. CASE Return /\ UNCHANGED archive
  <2> USE DEF Return
  <2>1. TypeOK'
    BY <1>1 DEF TypeOK, unpacking, archive, Fresh
  <2> QED
    BY <1>1, <2>1, PackingFresh, OutputKept, NotUnpacking, NotWriting
<1>2. CASE /\ output' = [info |-> <<>>, data |-> <<>>, of |-> taken] /\ torn' = TRUE
           /\ phase' = "write" /\ UNCHANGED <<needKey, dir, packing, unpacking>>
  <2>1. TypeOK'
    BY <1>2 DEF TypeOK, packing, unpacking
  <2>2. Len(taken) = Entries /\ taken' = taken
    BY <1>2 DEF CreateOutput, packing
  <2>3. Begun(needKey, <<>>, <<>>, taken)
    <3>1. taken \in Seq(Scripts) /\ 0 <= Len(taken)
      BY DEF TypeOK
    <3> QED
      BY <3>1 DEF Begun
  <2>4. OutputRight'
    BY <1>2, <2>2, <2>3 DEF OutputRight
  <2>5. WritingRight'
    BY <2>2 DEF WritingRight
  <2> QED
    BY <1>2, <2>1, <2>4, <2>5, PackingKept, NotUnpacking
<1> QED
  BY <1>1, <1>2 DEF CreateOutput

LEMMA WriteStep == IInv /\ Write => IInv'
<1> SUFFICES ASSUME IInv, Write PROVE IInv'
  OBVIOUS
<1> USE DEF IInv, Write, Return
<1>1. OutputRight' /\ torn' \in BOOLEAN
  BY WrittenRight
<1>2. TypeOK'
  BY <1>1 DEF TypeOK, unpacking, Fresh
<1> QED
  BY <1>1, <1>2, PackingFresh, NotUnpacking, NotWriting

LEMMA RestartStep == IInv /\ Restart => IInv'
<1> SUFFICES ASSUME IInv, Restart PROVE IInv'
  OBVIOUS
<1> USE DEF IInv
<1>1. OutputRight' /\ torn' \in BOOLEAN
  <2>1. CASE phase = "write"
    BY <2>1, WrittenRight DEF Restart
  <2>2. CASE phase # "write"
    <3>1. UNCHANGED <<needKey, archive>>
      BY <2>2 DEF Restart
    <3> QED
      BY <3>1, OutputKept DEF TypeOK, archive
  <2> QED
    BY <2>1, <2>2
<1>2. phase' = "idle" /\ Fresh
  BY DEF Restart
<1>3. TypeOK'
  BY <1>1 DEF TypeOK, Restart, Fresh, Unopened
<1> QED
  BY <1>1, <1>2, <1>3, PackingFresh, NotUnpacking, NotWriting

LEMMA EndUnpackStep == IInv /\ EndUnpack => IInv'
<1> SUFFICES ASSUME IInv, EndUnpack PROVE IInv'
  OBVIOUS
<1> USE DEF IInv, EndUnpack
<1>1. TypeOK'
  BY DEF TypeOK, packing, archive, Unopened
<1> QED
  BY <1>1, PackingKept, OutputKept, NotUnpacking, NotWriting

LEMMA BeginUnpackStep == IInv /\ BeginUnpack => IInv'
<1> SUFFICES ASSUME IInv, BeginUnpack PROVE IInv'
  OBVIOUS
<1> USE DEF IInv, BeginUnpack
<1>1. TypeOK'
  BY DEF TypeOK, packing, archive
<1>2. PackingRight' /\ OutputRight' /\ WritingRight'
  BY PackingKept, OutputKept, NotWriting
<1>3. Begun(needKey, output.info, output.data, output.of)
  BY DEF OutputRight
<1>4. UnpackingRight'
  <2>1. ASSUME NEW e \in 1 .. Len(output.info), NEW k \in 0 .. CompLen(output.of[e]) - 1,
               output.info[e].offset + k + 1 <= Len(output.data)
        PROVE  output.data[output.info[e].offset + k + 1] = Locked(needKey, output.of[e], k)
    BY <1>3, <2>1, EntryPlace
  <2>2. DOMAIN output.data = 1 .. Len(output.data)
    BY <1>3 DEF Begun
  <2>3. 1 \in 1 .. Entries + 1
    BY SceneAssumption
  <2>4. output' = output /\ needKey' = needKey
    BY DEF archive
  <2> QED
    BY <2>1, <2>2, <2>3, <2>4 DEF UnpackingRight
<1>5. RoundTrip'
  BY DEF RoundTrip
<1> QED
  BY <1>1, <1>2, <1>4, <1>5

(* What the file holds of an archive, entry by entry. *)
LEMMA OutputFacts ==
  ASSUME IInv, phase = "unpack"
  PROVE  /\ Begun(needKey, output.info, output.data, output.of) /\ Len(output.of) = Entries
         /\ Len(output.info) \in Nat /\ Len(output.info) <= Entries /\ Len(output.data) \in Nat
BY DEF IInv, OutputRight, UnpackingRight, Begun

(* Decrypting entry e takes the locks off its own bytes ... *)
LEMMA OwnBytes ==
  ASSUME IInv, phase = "unpack", NEW e, e = entry, e \in 1 .. Entries, Within(e),
         NEW k \in 0 .. CompLen(output.of[e]) - 1
  PROVE  Decrypted(e)[output.info[e].offset + k + 1] = Byte(output.of[e], k, {})
<1> DEFINE n == output.info[e].offset + k + 1
<1>1. Begun(needKey, output.info, output.data, output.of) /\ e \in 1 .. Len(output.info)
  BY OutputFacts DEF Within
<1>2. n <= Len(output.data)
  <2>1. /\ output.info[e].offset \in Nat /\ output.info[e].count = CompLen(output.of[e])
        /\ CompLen(output.of[e]) \in Nat
    BY <1>1, BegunTypes
  <2>2. output.info[e].offset + CompLen(output.of[e]) <= Len(output.data)
    BY <2>1 DEF Within
  <2> QED
    BY <2>1, <2>2, OutputFacts
<1>3. n \in 1 .. Len(output.data) /\ InEntry(e, n) /\ n - output.info[e].offset - 1 = k
  BY <1>1, <1>2, EntryPlace DEF InEntry
<1>4. n \in DOMAIN buffer
  BY <1>3 DEF IInv, UnpackingRight
<1>5. buffer[n] = Byte(output.of[e], k, Both(needKey, k))
  BY <1>1, <1>2 DEF IInv, UnpackingRight, Locked
<1>6. Decrypted(e)[n] = [buffer[n] EXCEPT !.locks = decrypt_2(decrypt_1(@, k), k)]
  BY <1>3, <1>4 DEF Decrypted
<1>7. Decrypted(e)[n] = Byte(output.of[e], k, decrypt_2(decrypt_1(Both(needKey, k), k), k))
  BY <1>5, <1>6 DEF Byte
<1> QED
  BY <1>7, Unlock

(* ... and leaves those of the later entries alone. *)
LEMMA LaterBytes ==
  ASSUME IInv, phase = "unpack", NEW e, e = entry, NEW f \in e + 1 .. Len(output.info),
         NEW k \in 0 .. CompLen(output.of[f]) - 1,
         output.info[f].offset + k + 1 <= Len(output.data)
  PROVE  Decrypted(e)[output.info[f].offset + k + 1] = Locked(needKey, output.of[f], k)
<1> DEFINE n == output.info[f].offset + k + 1
<1>1. Begun(needKey, output.info, output.data, output.of) /\ Len(output.info) \in Nat
  BY OutputFacts
<1>2. e \in 1 .. f - 1 /\ f \in 1 .. Len(output.info) /\ f \in e .. Len(output.info)
  BY <1>1, SceneAssumption DEF IInv, UnpackingRight
<1>3. n \in 1 .. Len(output.data) /\ ~InEntry(e, n)
  BY <1>1, <1>2, EntryPlace DEF InEntry
<1>4. Decrypted(e)[n] = buffer[n]
  BY <1>3 DEF Decrypted, IInv, UnpackingRight
<1> QED
  BY <1>2, <1>4 DEF IInv, UnpackingRight

(* One iteration, whatever it leaves in unpacked. *)
LEMMA Iteration ==
  ASSUME IInv, phase = "unpack", entry \in 1 .. Entries, entry' = entry + 1,
         UNCHANGED <<needKey, dir, phase, packing, archive>>,
         buffer' = Decrypted(entry) \/ (entry > Len(output.info) /\ buffer' = buffer),
         NEW x \in Scripts \cup {Absent, Garbled}, unpacked' = [unpacked EXCEPT ![entry] = x],
         Within(entry) /\ x # Absent => x = output.of[entry]
  PROVE  IInv'
<1> USE DEF IInv
<1>1. output' = output /\ torn' = torn /\ needKey' = needKey /\ phase' = phase
  BY DEF archive
<1>2. TypeOK'
  BY <1>1 DEF TypeOK, packing
<1>3. UnpackingRight'
  <2>1. entry' \in 1 .. Entries + 1
    BY SceneAssumption
  <2>2. DOMAIN buffer' = 1 .. Len(output.data)
    BY DEF Decrypted, UnpackingRight
  <2>3. ASSUME NEW e \in entry + 1 .. Len(output.info), NEW k \in 0 .. CompLen(output.of[e]) - 1,
               output.info[e].offset + k + 1 <= Len(output.data)
        PROVE  buffer'[output.info[e].offset + k + 1] = Locked(needKey, output.of[e], k)
    <3>1. ~(entry > Len(output.info))
      BY <2>3, OutputFacts
    <3> QED
      BY <3>1, <2>3, LaterBytes
  <2> QED
    BY <2>1, <2>2, <2>3, <1>1 DEF UnpackingRight
<1>4. RoundTrip'
  <2> SUFFICES ASSUME NEW e \in 1 .. entry, unpacked'[e] # Absent, Within(e)
               PROVE  unpacked'[e] = output.of[e]
    BY <1>1 DEF RoundTrip, Within
  <2>1. CASE e = entry
    BY <2>1 DEF TypeOK
  <2>2. CASE e \in 1 .. entry - 1
    <3>1. unpacked'[e] = unpacked[e]
      BY <2>2 DEF TypeOK
    <3> QED
      BY <3>1, <2>2 DEF RoundTrip
  <2> QED
    BY <2>1, <2>2
<1>5. WritingRight'
  BY <1>1, NotWriting
<1> QED
  BY <1>2, <1>3, <1>4, <1>5, PackingKept, OutputKept

LEMMA UnpackEntryStep == IInv /\ UnpackEntry => IInv'
<1> SUFFICES ASSUME IInv, UnpackEntry PROVE IInv'
  OBVIOUS
<1> USE DEF IInv
<1> DEFINE s == output.of[entry]
           o == output.info[entry].offset
<1>1. /\ phase = "unpack" /\ buffer' = Decrypted(entry) /\ entry' = entry + 1
      /\ \E x \in {Unpacked(buffer', o), Absent} : unpacked' = [unpacked EXCEPT ![entry] = x]
      /\ UNCHANGED <<needKey, dir, phase, packing, archive>> /\ Within(entry) /\ entry <= Entries
  BY DEF UnpackEntry
<1>2. Begun(needKey, output.info, output.data, output.of)
  BY <1>1, OutputFacts
<1>3. entry \in 1 .. Entries /\ entry \in 1 .. Len(output.info)
  BY <1>1, OutputFacts, SceneAssumption DEF UnpackingRight, Within
<1>4. s \in Scripts /\ CompLen(s) \in Nat \ {0} /\ o \in Nat
  BY <1>2, <1>3, BegunTypes, CompLenType
<1>5. Unpacked(buffer', o) = s
  <2>1. ASSUME NEW k \in 0 .. CompLen(s) - 1 PROVE buffer'[o + k + 1] = Byte(s, k, {})
    BY <1>1, <1>3, OwnBytes
  <2>2. IsScript(buffer', o, s)
    BY <2>1 DEF IsScript
  <2>3. 0 \in 0 .. CompLen(s) - 1 /\ o + 0 + 1 = o + 1
    BY <1>4
  <2>4. buffer'[o + 1].of = s
    <3>1. buffer'[o + 0 + 1] = Byte(s, 0, {})
      BY <2>1, <2>3, Zenon
    <3>2. Byte(s, 0, {}).of = s
      BY DEF Byte
    <3> QED
      BY <3>1, <3>2, <2>3, Zenon
  <2> QED
    BY <2>2, <2>4, <1>4, Zenon DEF Unpacked
<1>6. PICK x \in {s, Absent} : unpacked' = [unpacked EXCEPT ![entry] = x]
  BY <1>1, <1>5
<1>7. x \in Scripts \cup {Absent, Garbled} /\ (x # Absent => x = s)
  BY <1>4
<1> QED
  BY <1>1, <1>3, <1>6, <1>7, Iteration

LEMMA UnpackBeyondStep == IInv /\ UnpackBeyond => IInv'
<1> SUFFICES ASSUME IInv, UnpackBeyond PROVE IInv'
  OBVIOUS
<1> USE DEF IInv
<1>1. /\ phase = "unpack" /\ entry' = entry + 1 /\ ~Within(entry) /\ entry <= Entries
      /\ UNCHANGED <<needKey, dir, phase, packing, archive>>
  BY DEF UnpackBeyond
<1>2. entry \in 1 .. Entries
  BY <1>1, SceneAssumption DEF UnpackingRight
<1>3. buffer' = Decrypted(entry) \/ (entry > Len(output.info) /\ buffer' = buffer)
  BY <1>1, <1>2, OutputFacts DEF UnpackBeyond
<1>4. PICK x \in {Garbled, Absent} : unpacked' = [unpacked EXCEPT ![entry] = x]
  BY DEF UnpackBeyond
<1> QED
  BY <1>1, <1>2, <1>3, <1>4, Iteration

-----------------------------------------------------------------------------
(* The invariant of both programs: the scripts, the index and the bytes of the
   new archive agree after every entry of CreateScenePck, and UnpackScene has
   still to decrypt exactly the entries it has not reached. *)
THEOREM SceneInvariant == Spec => []IInv
<1>1. IInv /\ [Next]_vars => IInv'
  <2> SUFFICES ASSUME IInv, [Next]_vars PROVE IInv'
    OBVIOUS
  <2>1. CASE UNCHANGED vars
    <3>1. UNCHANGED <<needKey, dir, phase, packing, archive, unpacking>>
      BY <2>1 DEF vars
    <3>2. TypeOK'
      BY <3>1 DEF IInv, TypeOK, packing, unpacking, archive
    <3>3. UnpackingRight' /\ RoundTrip' /\ WritingRight'
      BY <3>1 DEF IInv, UnpackingRight, RoundTrip, WritingRight, Within, packing, unpacking, archive
    <3> QED
      BY <3>1, <3>2, <3>3, PackingKept, OutputKept DEF IInv
  <2>2. CASE Next
    BY <2>2, EditStep, RestartStep, BeginPackStep, PackEntryStep, PackMissingStep,
       CreateOutputStep, WriteStep, BeginUnpackStep, UnpackEntryStep, UnpackBeyondStep,
       EndUnpackStep DEF Next
  <2> QED
    BY <2>1, <2>2
<1> QED
  BY InitInv, <1>1, PTL DEF Spec

(* Unpacking an archive gives the scripts it was packed from, for any scripts,
   sizes, number of entries and lengths of the two keys of UnpackScene and
   CreateScenePck, and whatever happens to the directory; an archive whose
   writing was cut short gives the scripts that lie before the cut. *)
THEOREM SceneRoundTrip == Spec => []RoundTrip
<1>1. IInv => RoundTrip
  BY DEF IInv
<1> QED
  BY <1>1, SceneInvariant, PTL

(* The archive that CreateScenePck leaves holds every script in bytes of its
   own, also after packs that stopped half-way, that could not open the file or
   that were ended; only a writing that is cut short itself leaves less. *)
THEOREM SceneWhole == Spec => []ArchiveWhole
<1>1. IInv => ArchiveWhole
  <2> SUFFICES ASSUME IInv, output # Nothing, ~torn PROVE ArchiveWhole
    BY DEF ArchiveWhole
  <2>1. Built(needKey, output.info, output.data, output.of) /\ Len(output.of) = Entries
        /\ Len(output.info) = Entries
    BY DEF IInv, OutputRight, Built
  <2>2. ASSUME NEW e \in 1 .. Entries
        PROVE  /\ output.info[e].offset + output.info[e].count <= Len(output.data)
               /\ \A f \in 1 .. e - 1 :
                    output.info[f].offset + output.info[f].count <= output.info[e].offset
    BY <2>1, BuiltTypes DEF Placed
  <2> QED
    BY <2>1, <2>2 DEF ArchiveWhole
<1> QED
  BY <1>1, SceneInvariant, PTL

(* The members of both programs keep their types. *)
THEOREM SceneTypes == Spec => []TypeOK
<1>1. IInv => TypeOK
  BY DEF IInv
<1> QED
  BY <1>1, SceneInvariant, PTL
=============================================================================
