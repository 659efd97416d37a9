---------------------------- MODULE SequenceLemmas ----------------------------
(***************************************************************************)
(* Facts the proofs of several modules need: a set of numbers has a least  *)
(* one, which stands for induction here, and sequences laid one behind the *)
(* other.                                                                  *)
(***************************************************************************)
EXTENDS Integers, Sequences, SequenceTheorems, WellFoundedInduction, TLAPS

(* The least number of a set of numbers. *)
LEMMA Least ==
  ASSUME NEW S, S \subseteq Nat, S # {}
  PROVE  \E m \in S : \A k \in S : m <= k
<1>1. PICK m \in S : \A k \in S : ~(<<k, m>> \in OpToRel(<, Nat))
  <2> HIDE DEF IsWellFoundedOn, OpToRel
  <2> QED BY NatLessThanWellFounded, WFMin
<1>2. \A k \in S : ~(k < m)
  BY <1>1 DEF OpToRel
<1> QED BY <1>2

-----------------------------------------------------------------------------
(* f is the function FlattenSeq defines by recursion: its value at k holds the
   first k of the sequences, one behind the other. *)
Flat(seqs, f, n) == f = [k \in 1 .. n |-> IF k = 1 THEN seqs[k] ELSE f[k - 1] \o seqs[k]]

LEMMA FlatExists ==
  ASSUME NEW seqs, NEW n \in Nat
  PROVE  \E f : Flat(seqs, f, n)
<1> DEFINE S == {m \in Nat : ~ \E f : Flat(seqs, f, m)}
<1> SUFFICES ASSUME S # {}
             PROVE  FALSE
  OBVIOUS
<1>1. PICK m \in S : \A k \in S : m <= k
  BY Least
<1>2. CASE m = 0
  <2> DEFINE g == [k \in 1 .. 0 |-> <<>>]
  <2>1. g = [k \in 1 .. 0 |-> IF k = 1 THEN seqs[k] ELSE g[k - 1] \o seqs[k]]
    OBVIOUS
  <2> HIDE DEF g
  <2>2. Flat(seqs, g, 0)
    BY <2>1 DEF Flat
  <2> QED BY <1>1, <1>2, <2>2
<1>3. CASE m # 0
  <2>1. m - 1 \in Nat /\ m \in Nat /\ m - 1 \notin S
    BY <1>1, <1>3
  <2>2. PICK f : Flat(seqs, f, m - 1)
    BY <2>1
  <2> DEFINE g == [k \in 1 .. m |-> IF k < m THEN f[k] ELSE IF m = 1 THEN seqs[m] ELSE f[m - 1] \o seqs[m]]
  <2>3. \A k \in 1 .. m : g[k] = IF k = 1 THEN seqs[k] ELSE g[k - 1] \o seqs[k]
    <3> TAKE k \in 1 .. m
    <3>1. CASE k = m
      BY <2>1, <3>1
    <3>2. CASE k # m
      <4>1. k \in 1 .. m - 1 /\ g[k] = f[k] /\ (k # 1 => k - 1 \in 1 .. m - 1 /\ g[k - 1] = f[k - 1])
        BY <2>1, <3>2
      <4>2. f[k] = IF k = 1 THEN seqs[k] ELSE f[k - 1] \o seqs[k]
        BY <2>2, <4>1 DEF Flat
      <4> QED BY <4>1, <4>2
    <3> QED BY <3>1, <3>2
  <2>4. Flat(seqs, g, m)
    <3>1. g = [k \in 1 .. m |-> g[k]]
      OBVIOUS
    <3> HIDE DEF g
    <3> QED BY <2>3, <3>1 DEF Flat
  <2> QED BY <1>1, <2>4
<1> QED BY <1>2, <1>3

LEMMA FlatSame ==
  ASSUME NEW s, NEW t, NEW f, NEW g, NEW n \in Nat, NEW m \in Nat, n <= m,
         Flat(s, f, n), Flat(t, g, m), \A k \in 1 .. n : s[k] = t[k]
  PROVE  \A k \in 1 .. n : f[k] = g[k]
<1> DEFINE S == {k \in 1 .. n : f[k] # g[k]}
<1> SUFFICES ASSUME S # {}
             PROVE  FALSE
  OBVIOUS
<1>1. PICK k \in S : \A j \in S : k <= j
  <2>1. S \subseteq Nat
    OBVIOUS
  <2> QED BY <2>1, Least
<1>2. k \in 1 .. n /\ k \in 1 .. m /\ (k # 1 => k - 1 \in 1 .. n /\ f[k - 1] = g[k - 1])
  BY <1>1
<1>3. f[k] = IF k = 1 THEN s[k] ELSE f[k - 1] \o s[k]
  BY <1>2 DEF Flat
<1>4. g[k] = IF k = 1 THEN t[k] ELSE g[k - 1] \o t[k]
  BY <1>2 DEF Flat
<1> QED BY <1>1, <1>2, <1>3, <1>4

LEMMA FlatType ==
  ASSUME NEW S, NEW s, NEW f, NEW n \in Nat, Flat(s, f, n), \A k \in 1 .. n : s[k] \in Seq(S)
  PROVE  \A k \in 1 .. n : f[k] \in Seq(S)
<1> DEFINE T == {k \in 1 .. n : f[k] \notin Seq(S)}
<1> SUFFICES ASSUME T # {}
             PROVE  FALSE
  OBVIOUS
<1>1. PICK k \in T : \A j \in T : k <= j
  <2>1. T \subseteq Nat
    OBVIOUS
  <2> QED BY <2>1, Least
<1>2. k \in 1 .. n /\ (k # 1 => k - 1 \in 1 .. n /\ f[k - 1] \in Seq(S))
  BY <1>1
<1>3. f[k] = IF k = 1 THEN s[k] ELSE f[k - 1] \o s[k]
  BY <1>2 DEF Flat
<1>4. f[k] \in Seq(S)
  <2>1. CASE k = 1
    BY <1>2, <1>3, <2>1
  <2>2. CASE k # 1
    BY <1>2, <1>3, <2>2, ConcatProperties
  <2> QED BY <2>1, <2>2
<1> QED BY <1>1, <1>4

(* Each of the first n is a sequence over S. *)
Pieces(S, s, n) == \A k \in 1 .. n : s[k] \in Seq(S)

(* Where the k-th sequence begins. *)
Start(f, k) == IF k = 1 THEN 0 ELSE Len(f[k - 1])

(* The k-th sequence lies behind those before it. *)
LEMMA FlatStep ==
  ASSUME NEW S, NEW s, NEW f, NEW n \in Nat, Flat(s, f, n), Pieces(S, s, n),
         NEW k \in 1 .. n
  PROVE  /\ Start(f, k) \in Nat
         /\ Len(f[k]) = Start(f, k) + Len(s[k])
         /\ \A j \in 1 .. Len(s[k]) : f[k][Start(f, k) + j] = s[k][j]
         /\ \A j \in 1 .. Start(f, k) : f[k][j] = f[k - 1][j]
<1>1. f[k] = IF k = 1 THEN s[k] ELSE f[k - 1] \o s[k]
  BY DEF Flat
<1>2. s[k] \in Seq(S)
  BY DEF Pieces
<1>3. CASE k = 1
  <2>1. Start(f, k) = 0 /\ f[k] = s[k]
    BY <1>1, <1>3 DEF Start
  <2> QED BY <1>2, <2>1
<1>4. CASE k # 1
  <2>1. k - 1 \in 1 .. n
    BY <1>4
  <2>2. f[k - 1] \in Seq(S) /\ Start(f, k) = Len(f[k - 1]) /\ f[k] = f[k - 1] \o s[k]
    BY <1>1, <1>4, <2>1, FlatType DEF Start, Pieces
  <2> DEFINE t == f[k - 1]
             u == s[k]
  <2>3. /\ Len(t \o u) = Len(t) + Len(u)
        /\ \A i \in 1 .. Len(t) + Len(u) : (t \o u)[i] = IF i <= Len(t) THEN t[i] ELSE u[i - Len(t)]
    BY <1>2, <2>2, ConcatProperties
  <2>4. Len(t) \in Nat /\ Len(u) \in Nat
    BY <1>2, <2>2
  <2> HIDE DEF t, u
  <2>5. \A j \in 1 .. Len(u) : (t \o u)[Len(t) + j] = u[j]
    BY <2>3, <2>4
  <2>6. \A j \in 1 .. Len(t) : (t \o u)[j] = t[j]
    BY <2>3, <2>4
  <2> QED BY <2>2, <2>3, <2>4, <2>5, <2>6 DEF t, u
<1> QED BY <1>3, <1>4

(* What was laid down stays where it is. *)
LEMMA FlatStays ==
  ASSUME NEW S, NEW s, NEW f, NEW n \in Nat, Flat(s, f, n), Pieces(S, s, n),
         NEW k \in 1 .. n
  PROVE  \A l \in k .. n : /\ Len(f[k]) <= Len(f[l])
                           /\ \A j \in 1 .. Len(f[k]) : f[l][j] = f[k][j]
<1> DEFINE Stays(l) == /\ Len(f[k]) <= Len(f[l])
                       /\ \A j \in 1 .. Len(f[k]) : f[l][j] = f[k][j]
           T == {l \in k .. n : ~Stays(l)}
<1>1. \A i \in 1 .. n : f[i] \in Seq(S)
  BY FlatType DEF Pieces
<1>2. Len(f[k]) \in Nat
  BY <1>1
<1> SUFFICES ASSUME T # {}
             PROVE  FALSE
  OBVIOUS
<1>3. PICK l \in T : \A i \in T : l <= i
  <2>1. T \subseteq Nat
    OBVIOUS
  <2> QED BY <2>1, Least
<1>4. l \in k .. n /\ l # k /\ ~Stays(l)
  BY <1>2, <1>3
<1>5. l - 1 \in k .. n /\ l \in 1 .. n /\ l - 1 \in 1 .. n /\ l # 1 /\ l - 1 \notin T
  BY <1>3, <1>4
<1>6. Stays(l - 1)
  BY <1>5
<1>7. /\ Start(f, l) = Len(f[l - 1])
      /\ Len(f[l]) = Len(f[l - 1]) + Len(s[l])
      /\ \A j \in 1 .. Len(f[l - 1]) : f[l][j] = f[l - 1][j]
  <2>1. Start(f, l) = Len(f[l - 1])
    BY <1>5 DEF Start
  <2>2. l \in 1 .. n
    BY <1>5
  <2>3. /\ Len(f[l]) = Start(f, l) + Len(s[l])
        /\ \A j \in 1 .. Start(f, l) : f[l][j] = f[l - 1][j]
    <3> HIDE DEF T, Stays
    <3> QED BY <2>2, FlatStep
  <2> QED BY <2>1, <2>3
<1>8. Len(f[l - 1]) \in Nat /\ Len(s[l]) \in Nat
  <2>1. f[l - 1] \in Seq(S) /\ s[l] \in Seq(S)
    BY <1>1, <1>5 DEF Pieces
  <2> QED BY <2>1
<1>9. Stays(l)
  <2>1. Len(f[k]) <= Len(f[l])
    <3>1. Len(f[k]) <= Len(f[l - 1]) /\ Len(f[l]) = Len(f[l - 1]) + Len(s[l])
      BY <1>6, <1>7
    <3>2. \A a, b, c \in Nat : a <= b => a <= b + c
      OBVIOUS
    <3>3. Len(f[k]) <= Len(f[l - 1]) + Len(s[l])
      BY <1>2, <1>8, <3>1, <3>2, Zenon
    <3> QED BY <3>1, <3>3, Zenon
  <2>2. ASSUME NEW j \in 1 .. Len(f[k]) PROVE f[l][j] = f[k][j]
    <3>1. j \in 1 .. Len(f[l - 1]) /\ f[l - 1][j] = f[k][j]
      BY <1>2, <1>6, <1>8
    <3> QED BY <1>7, <3>1
  <2> QED BY <2>1, <2>2
<1> QED BY <1>4, <1>9

(* In the whole, the k-th sequence lies where it begins. *)
LEMMA FlatPlaces ==
  ASSUME NEW S, NEW s, NEW f, NEW n \in Nat, Flat(s, f, n), Pieces(S, s, n),
         NEW k \in 1 .. n
  PROVE  /\ Start(f, k) \in Nat /\ Len(f[n]) \in Nat
         /\ Start(f, k) + Len(s[k]) <= Len(f[n])
         /\ k < n => Start(f, k + 1) = Start(f, k) + Len(s[k])
         /\ k = n => Len(f[n]) = Start(f, k) + Len(s[k])
         /\ \A j \in 1 .. Len(s[k]) : f[n][Start(f, k) + j] = s[k][j]
<1>1. /\ Start(f, k) \in Nat
      /\ Len(f[k]) = Start(f, k) + Len(s[k])
      /\ \A j \in 1 .. Len(s[k]) : f[k][Start(f, k) + j] = s[k][j]
  BY FlatStep
<1>2. n \in k .. n
  OBVIOUS
<1>3. Len(f[k]) <= Len(f[n]) /\ \A j \in 1 .. Len(f[k]) : f[n][j] = f[k][j]
  BY <1>2, FlatStays
<1>4. Len(f[n]) \in Nat /\ Len(s[k]) \in Nat
  <2>1. n \in 1 .. n
    OBVIOUS
  <2>2. f[n] \in Seq(S) /\ s[k] \in Seq(S)
    BY <2>1, FlatType DEF Pieces
  <2> QED BY <2>2
<1>5. \A j \in 1 .. Len(s[k]) : Start(f, k) + j \in 1 .. Len(f[k])
  BY <1>1, <1>4
<1>6. k < n => Start(f, k + 1) = Len(f[k])
  BY DEF Start
<1> QED BY <1>1, <1>3, <1>4, <1>5, <1>6

(* Every place of the whole belongs to one of the sequences. *)
LEMMA FlatLocates ==
  ASSUME NEW S, NEW s, NEW f, NEW n \in Nat, Flat(s, f, n), Pieces(S, s, n), n > 0,
         NEW q \in 1 .. Len(f[n])
  PROVE  \E k \in 1 .. n : \E j \in 1 .. Len(s[k]) : q = Start(f, k) + j
<1> DEFINE T == {k \in 1 .. n : q <= Len(f[k])}
<1>1. T # {} /\ T \subseteq Nat
  <2>1. n \in 1 .. n /\ q <= Len(f[n])
    <3>1. f[n] \in Seq(S)
      <4>1. n \in 1 .. n
        OBVIOUS
      <4> QED BY <4>1, FlatType DEF Pieces
    <3> QED BY <3>1, LenProperties
  <2> QED BY <2>1
<1>2. PICK k \in T : \A i \in T : k <= i
  BY <1>1, Least
<1>3. k \in 1 .. n /\ q <= Len(f[k])
  BY <1>2
<1>4. Start(f, k) \in Nat /\ Len(f[k]) = Start(f, k) + Len(s[k])
  <2> HIDE DEF T
  <2> QED BY <1>3, FlatStep
<1>5. s[k] \in Seq(S) /\ Len(s[k]) \in Nat
  BY <1>3 DEF Pieces
<1>6. q > Start(f, k)
  <2>1. CASE k = 1
    BY <2>1 DEF Start
  <2>2. CASE k # 1
    <3>1. k - 1 \in 1 .. n /\ ~(k <= k - 1)
      BY <1>3, <2>2
    <3>2. k - 1 \notin T
      BY <1>2, <3>1
    <3>3. Start(f, k) = Len(f[k - 1])
      BY <2>2 DEF Start
    <3>4. ~(q <= Start(f, k))
      BY <3>1, <3>2, <3>3
    <3> HIDE DEF T
    <3> QED BY <1>4, <3>4
  <2> QED BY <2>1, <2>2
<1>7. q - Start(f, k) \in 1 .. Len(s[k]) /\ q = Start(f, k) + (q - Start(f, k))
  <2>1. PICK a \in Nat, b \in Nat : a = Start(f, k) /\ b = Len(s[k])
    BY <1>4, <1>5
  <2>2. q <= a + b /\ q > a
    BY <1>3, <1>4, <1>6, <2>1
  <2>3. q \in Nat
    OBVIOUS
  <2> HIDE DEF T
  <2> QED BY <2>1, <2>2, <2>3
<1> QED BY <1>3, <1>7

-----------------------------------------------------------------------------
(* Functions that are computed step by step: F[k] makes the k-th value of the
   one before it. *)
Steps(v, z, F, n) == v[0] = z /\ \A k \in 1 .. n : v[k] = F[k][v[k - 1]]

LEMMA StepsExist ==
  ASSUME NEW S, NEW z \in S, NEW n \in Nat, NEW F \in [1 .. n -> [S -> S]]
  PROVE  \E v \in [0 .. n -> S] : Steps(v, z, F, n)
<1> DEFINE T == {m \in 0 .. n : ~ \E v \in [0 .. m -> S] : Steps(v, z, F, m)}
<1> SUFFICES ASSUME T # {}
             PROVE  FALSE
  <2>1. n \in 0 .. n
    OBVIOUS
  <2> QED BY <2>1
<1>1. PICK m \in T : \A k \in T : m <= k
  <2>1. T \subseteq Nat
    OBVIOUS
  <2> QED BY <2>1, Least
<1>2. m \in 0 .. n /\ ~ \E v \in [0 .. m -> S] : Steps(v, z, F, m)
  BY <1>1
<1>3. CASE m = 0
  <2> DEFINE w == [k \in 0 .. 0 |-> z]
  <2>1. w \in [0 .. m -> S]
    BY <1>3
  <2>2. Steps(w, z, F, m)
    BY <1>3 DEF Steps
  <2> QED BY <1>2, <2>1, <2>2
<1>4. CASE m # 0
  <2>1. PICK l \in 0 .. n : l = m - 1 /\ l + 1 = m
    <3>1. m - 1 \in 0 .. n /\ (m - 1) + 1 = m
      BY <1>2, <1>4
    <3> QED BY <3>1
  <2>2. l \notin T
    BY <1>1, <2>1
  <2>3. PICK v \in [0 .. l -> S] : Steps(v, z, F, l)
    BY <2>2
  <2>4. m \in 1 .. n /\ F[m] \in [S -> S] /\ v[l] \in S
    BY <1>2, <1>4
  <2> DEFINE w == [k \in 0 .. m |-> IF k = m THEN F[m][v[l]] ELSE v[k]]
  <2>5. w \in [0 .. m -> S]
    <3>1. F[m][v[l]] \in S
      BY <2>4
    <3>2. \A k \in 0 .. m : k = m \/ k \in 0 .. l
      BY <2>1
    <3> QED BY <3>1, <3>2
  <2>6. \A k \in 0 .. m : w[k] = IF k = m THEN F[m][v[l]] ELSE v[k]
    OBVIOUS
  <2> HIDE DEF w
  <2>7. w[0] = z
    BY <1>4, <2>3, <2>6 DEF Steps
  <2>8. ASSUME NEW k \in 1 .. m
        PROVE  w[k] = F[k][w[k - 1]]
    <3>1. k \in 0 .. m /\ k - 1 \in 0 .. m /\ k - 1 # m
      BY <1>2
    <3>2. w[k - 1] = v[k - 1]
      BY <2>6, <3>1
    <3>3. CASE k = m
      BY <2>1, <2>6, <3>2, <3>3
    <3>4. CASE k # m
      <4>1. k \in 1 .. l
        BY <2>1, <3>4
      <4> QED BY <2>3, <2>6, <3>1, <3>2, <3>4, <4>1 DEF Steps
    <3> QED BY <3>3, <3>4
  <2>9. Steps(w, z, F, m)
    BY <2>7, <2>8 DEF Steps
  <2> QED BY <1>2, <2>5, <2>9
<1> QED BY <1>3, <1>4

LEMMA StepsAgree ==
  ASSUME NEW v, NEW w, NEW z, NEW F, NEW n \in Nat, Steps(v, z, F, n), Steps(w, z, F, n)
  PROVE  \A k \in 0 .. n : v[k] = w[k]
<1> DEFINE T == {k \in 0 .. n : v[k] # w[k]}
<1> SUFFICES ASSUME T # {}
             PROVE  FALSE
  OBVIOUS
<1>1. PICK k \in T : \A j \in T : k <= j
  <2>1. T \subseteq Nat
    OBVIOUS
  <2> QED BY <2>1, Least
<1>2. k \in 0 .. n /\ v[k] # w[k] /\ k # 0
  BY <1>1 DEF Steps
<1>3. k \in 1 .. n /\ k - 1 \in 0 .. n /\ v[k - 1] = w[k - 1]
  BY <1>1, <1>2
<1> QED BY <1>2, <1>3 DEF Steps
=============================================================================
