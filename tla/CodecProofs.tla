----------------------------- MODULE CodecProofs -----------------------------
(***************************************************************************)
(* Proofs about ScriptCodec.  First the search: the table of GenerateTable *)
(* holds the longest borders, the search of SearchData finds the longest   *)
(* match.  Then the code: where in the output each item stands, in which   *)
(* group, and how many bytes are before it; from that the decoders give    *)
(* back the input and the sizes are right.                                 *)
(***************************************************************************)
EXTENDS ScriptCodec, FiniteSetTheorems, SequenceTheorems, TLAPS

(* The text to find starts behind the first c symbols of u; b is the length of
   a proper border of its prefix of length k. *)
Border(u, c, b, k) == b < k /\ \A n \in 0 .. b - 1 : u[c + n + 1] = u[c + (k - b + n) + 1]

(* The prefix of length n of the text stands at p of the window of w symbols. *)
Fits(u, c, w, p, n) == \A k \in 0 .. n - 1 : u[c + k + 1] = u[c - w + p + k + 1]

(* The first n entries of t are the longest borders of their prefixes. *)
LongestBorder(u, c, b, k) ==
  /\ b \in 0 .. k - 1 /\ Border(u, c, b, k)
  /\ \A d \in b + 1 .. k - 1 : ~Border(u, c, d, k)
Tabled(u, c, t, n) == t[0] = -1 /\ \A k \in 1 .. n - 1 : LongestBorder(u, c, t[k], k)

(* b is a border of the prefix of length n - 1 and no border of the prefix of
   length n is longer than b + 1. *)
Candidate(u, c, n, b) ==
  /\ b \in 0 .. n - 2 /\ Border(u, c, b, n - 1)
  /\ \A d \in b + 2 .. n - 1 : ~Border(u, c, d, n)

(* Of the first p places of the window none has more than m symbols of the
   text, and b is the first that has m. *)
BestOf(u, c, w, p, m, b) ==
  /\ Fits(u, c, w, b, m)
  /\ \A q \in 0 .. p - 1 : ~Fits(u, c, w, q, m + 1)
  /\ \A q \in 0 .. b - 1 : ~Fits(u, c, w, q, m)

-----------------------------------------------------------------------------
(* Borders. *)

LEMMA BorderGrows ==
  ASSUME NEW u, NEW c \in Nat, NEW n \in Nat, NEW b \in Nat, n >= 1,
         Border(u, c, b, n - 1), u[c + (n - 1) + 1] = u[c + b + 1]
  PROVE  Border(u, c, b + 1, n)
<1>1. b + 1 < n
  BY DEF Border
<1>2. ASSUME NEW k \in 0 .. (b + 1) - 1
      PROVE  u[c + k + 1] = u[c + (n - (b + 1) + k) + 1]
  <2>1. CASE k = b
    <3>1. n - (b + 1) + k = n - 1
      BY <2>1
    <3>2. u[c + (n - (b + 1) + k) + 1] = u[c + (n - 1) + 1]
      BY <3>1
    <3> QED BY <2>1, <3>2
  <2>2. CASE k # b
    <3>1. k \in 0 .. b - 1 /\ n - (b + 1) + k = (n - 1) - b + k
      BY <2>2
    <3> QED BY <3>1 DEF Border
  <2> QED BY <2>1, <2>2
<1> QED BY <1>1, <1>2 DEF Border

LEMMA BorderShrinks ==
  ASSUME NEW u, NEW c \in Nat, NEW n \in Nat, NEW b \in Nat, b >= 1, Border(u, c, b, n)
  PROVE  Border(u, c, b - 1, n - 1) /\ u[c + (n - 1) + 1] = u[c + (b - 1) + 1]
<1>1. b < n
  BY DEF Border
<1>2. ASSUME NEW k \in 0 .. (b - 1) - 1
      PROVE  u[c + k + 1] = u[c + ((n - 1) - (b - 1) + k) + 1]
  <2>1. k \in 0 .. b - 1 /\ n - b + k = (n - 1) - (b - 1) + k
    OBVIOUS
  <2> QED BY <2>1 DEF Border
<1>3. u[c + (b - 1) + 1] = u[c + (n - 1) + 1]
  <2>1. b - 1 \in 0 .. b - 1 /\ n - b + (b - 1) = n - 1
    BY <1>1
  <2> QED BY <2>1 DEF Border
<1>4. Border(u, c, b - 1, n - 1)
  <2> DEFINE e == b - 1
             f == n - 1
  <2>1. e < f /\ \A k \in 0 .. e - 1 : u[c + k + 1] = u[c + (f - e + k) + 1]
    BY <1>1, <1>2
  <2> HIDE DEF e, f
  <2>2. Border(u, c, e, f)
    BY <2>1 DEF Border
  <2> QED BY <2>2 DEF e, f
<1> QED BY <1>3, <1>4

LEMMA BorderOfBorder ==
  ASSUME NEW u, NEW c \in Nat, NEW k \in Nat, NEW a \in Nat, NEW b \in Nat,
         Border(u, c, a, k)
  PROVE  /\ Border(u, c, b, a) => Border(u, c, b, k)
         /\ Border(u, c, b, k) /\ b < a => Border(u, c, b, a)
<1>1. a < k
  BY DEF Border
<1>2. ASSUME Border(u, c, b, a)
      PROVE  Border(u, c, b, k)
  <2>1. b < a
    BY <1>2 DEF Border
  <2>2. ASSUME NEW n \in 0 .. b - 1
        PROVE  u[c + n + 1] = u[c + (k - b + n) + 1]
    <3>1. u[c + n + 1] = u[c + (a - b + n) + 1]
      BY <1>2 DEF Border
    <3>2. a - b + n \in 0 .. a - 1 /\ k - a + (a - b + n) = k - b + n
      BY <1>1, <2>1
    <3>3. u[c + (a - b + n) + 1] = u[c + (k - a + (a - b + n)) + 1]
      BY <3>2 DEF Border
    <3> QED BY <3>1, <3>2, <3>3
  <2> QED BY <1>1, <2>1, <2>2 DEF Border
<1>3. ASSUME Border(u, c, b, k), b < a
      PROVE  Border(u, c, b, a)
  <2>2. ASSUME NEW n \in 0 .. b - 1
        PROVE  u[c + n + 1] = u[c + (a - b + n) + 1]
    <3>1. u[c + n + 1] = u[c + (k - b + n) + 1]
      BY <1>3 DEF Border
    <3>2. a - b + n \in 0 .. a - 1 /\ k - a + (a - b + n) = k - b + n
      BY <1>1, <1>3
    <3>3. u[c + (a - b + n) + 1] = u[c + (k - a + (a - b + n)) + 1]
      BY <3>2 DEF Border
    <3> QED BY <3>1, <3>2, <3>3
  <2> QED BY <1>3, <2>2 DEF Border
<1> QED BY <1>2, <1>3

LEMMA EmptyBorder ==
  ASSUME NEW u, NEW c \in Nat, NEW n \in Nat \ {0}
  PROVE  Border(u, c, 0, n)
BY DEF Border

(* The three branches of the loop of GenerateTable. *)
LEMMA CandidateFits ==
  ASSUME NEW u, NEW c \in Nat, NEW n \in Nat, NEW b \in Nat, n >= 2, Candidate(u, c, n, b),
         u[c + (n - 1) + 1] = u[c + b + 1]
  PROVE  LongestBorder(u, c, b + 1, n) /\ Candidate(u, c, n + 1, b + 1)
<1>1. Border(u, c, b + 1, n)
  BY BorderGrows DEF Candidate
<1>2. LongestBorder(u, c, b + 1, n)
  BY <1>1 DEF LongestBorder, Candidate
<1>3. ASSUME NEW d \in (b + 1) + 2 .. (n + 1) - 1
      PROVE  ~Border(u, c, d, n + 1)
  <2>1. d - 1 \in b + 2 .. n - 1 /\ d \in Nat /\ n + 1 \in Nat /\ d >= 1 /\ (n + 1) - 1 = n
    OBVIOUS
  <2>2. Border(u, c, d, n + 1) => Border(u, c, d - 1, n)
    BY <2>1, BorderShrinks
  <2> QED BY <2>1, <2>2 DEF Candidate
<1>4. b + 1 \in 0 .. (n + 1) - 2 /\ (n + 1) - 1 = n
  BY DEF Candidate
<1> QED BY <1>1, <1>2, <1>3, <1>4 DEF Candidate

LEMMA CandidateShrinks ==
  ASSUME NEW u, NEW c \in Nat, NEW n \in Nat, NEW b \in Nat, n >= 2, Candidate(u, c, n, b), b > 0,
         u[c + (n - 1) + 1] # u[c + b + 1], NEW a, LongestBorder(u, c, a, b)
  PROVE  Candidate(u, c, n, a)
<1>1. a \in 0 .. b - 1 /\ a \in Nat /\ a \in 0 .. n - 2
  BY DEF LongestBorder, Candidate
<1>2. Border(u, c, a, n - 1)
  <2>1. n - 1 \in Nat
    OBVIOUS
  <2> QED BY <1>1, <2>1, BorderOfBorder DEF LongestBorder, Candidate
<1>3. ASSUME NEW d \in a + 2 .. n - 1, Border(u, c, d, n)
      PROVE  FALSE
  <2>1. d \in Nat /\ d >= 1 /\ d - 1 \in Nat /\ n - 1 \in Nat
    BY <1>1
  <2>2. Border(u, c, d - 1, n - 1) /\ u[c + (n - 1) + 1] = u[c + (d - 1) + 1]
    BY <1>3, <2>1, BorderShrinks
  <2>3. CASE d = b + 1
    <3>1. d - 1 = b
      BY <2>3
    <3> QED BY <2>2, <3>1
  <2>4. CASE d > b + 1
    <3>1. d \in b + 2 .. n - 1
      BY <2>1, <2>4
    <3> QED BY <1>3, <3>1 DEF Candidate
  <2>5. CASE d < b + 1
    <3>1. d - 1 < b /\ d - 1 \in a + 1 .. b - 1
      BY <1>1, <2>1, <2>5
    <3>2. Border(u, c, d - 1, b)
      BY <2>1, <2>2, <3>1, BorderOfBorder DEF Candidate
    <3> QED BY <3>1, <3>2 DEF LongestBorder
  <2> QED BY <2>1, <2>3, <2>4, <2>5
<1> QED BY <1>1, <1>2, <1>3 DEF Candidate

LEMMA CandidateNone ==
  ASSUME NEW u, NEW c \in Nat, NEW n \in Nat, n >= 2, Candidate(u, c, n, 0),
         u[c + (n - 1) + 1] # u[c + 0 + 1]
  PROVE  LongestBorder(u, c, 0, n) /\ Candidate(u, c, n + 1, 0)
<1>1. Border(u, c, 0, n)
  BY EmptyBorder
<1>2. ASSUME NEW d \in 1 .. n - 1, Border(u, c, d, n)
      PROVE  FALSE
  <2>1. d >= 1 /\ d \in Nat
    OBVIOUS
  <2>2. u[c + (n - 1) + 1] = u[c + (d - 1) + 1]
    BY <1>2, <2>1, BorderShrinks
  <2>3. CASE d = 1
    <3>1. d - 1 = 0
      BY <2>3
    <3> QED BY <2>2, <3>1
  <2>4. CASE d # 1
    <3>1. d \in 0 + 2 .. n - 1
      BY <2>1, <2>4
    <3> QED BY <1>2, <3>1 DEF Candidate
  <2> QED BY <2>3, <2>4
<1>3. LongestBorder(u, c, 0, n)
  BY <1>1, <1>2 DEF LongestBorder
<1>4. ASSUME NEW d \in 0 + 2 .. (n + 1) - 1, Border(u, c, d, n + 1)
      PROVE  FALSE
  <2>1. d - 1 \in 1 .. n - 1 /\ d \in Nat /\ n + 1 \in Nat /\ d >= 1 /\ (n + 1) - 1 = n
    OBVIOUS
  <2>2. Border(u, c, d - 1, n)
    BY <1>4, <2>1, BorderShrinks
  <2> QED BY <1>2, <2>1, <2>2
<1>5. 0 \in 0 .. (n + 1) - 2 /\ (n + 1) - 1 = n
  OBVIOUS
<1> QED BY <1>1, <1>3, <1>4, <1>5 DEF Candidate

-----------------------------------------------------------------------------
(* Matches. *)

LEMMA FitsShorter ==
  ASSUME NEW u, NEW c \in Nat, NEW w \in Nat, NEW p \in Nat, NEW m \in Nat, NEW n \in Nat, m <= n
  PROVE  Fits(u, c, w, p, n) => Fits(u, c, w, p, m)
BY DEF Fits

LEMMA FitsGrows ==
  ASSUME NEW u, NEW c \in Nat, NEW w \in Nat, NEW p \in Nat, NEW n \in Nat, Fits(u, c, w, p, n)
  PROVE  Fits(u, c, w, p, n + 1) <=> u[c + n + 1] = u[c - w + p + n + 1]
<1>1. n \in 0 .. (n + 1) - 1 /\ \A k \in 0 .. (n + 1) - 1 : k \in 0 .. n - 1 \/ k = n
  OBVIOUS
<1>2. Fits(u, c, w, p, n + 1) => u[c + n + 1] = u[c - w + p + n + 1]
  BY <1>1 DEF Fits
<1>3. ASSUME u[c + n + 1] = u[c - w + p + n + 1], NEW k \in 0 .. (n + 1) - 1
      PROVE  u[c + k + 1] = u[c - w + p + k + 1]
  <2>1. CASE k = n
    BY <1>3, <2>1
  <2>2. CASE k \in 0 .. n - 1
    BY <2>2 DEF Fits
  <2> QED BY <1>1, <2>1, <2>2
<1> QED BY <1>2, <1>3 DEF Fits

(* After the shift the border already stands. *)
LEMMA FitsShifted ==
  ASSUME NEW u, NEW c \in Nat, NEW w \in Nat, NEW p \in Nat, NEW n \in Nat, Fits(u, c, w, p, n),
         NEW b \in Nat, Border(u, c, b, n)
  PROVE  Fits(u, c, w, p + n - b, b)
<1>1. b < n
  BY DEF Border
<1>2. ASSUME NEW k \in 0 .. b - 1
      PROVE  u[c + k + 1] = u[c - w + (p + n - b) + k + 1]
  <2>1. u[c + k + 1] = u[c + (n - b + k) + 1]
    BY DEF Border
  <2>2. n - b + k \in 0 .. n - 1
    BY <1>1
  <2>3. u[c + (n - b + k) + 1] = u[c - w + p + (n - b + k) + 1]
    BY <2>2 DEF Fits
  <2>4. c - w + p + (n - b + k) + 1 = c - w + (p + n - b) + k + 1
    BY <1>1
  <2> QED BY <2>1, <2>3, <2>4
<1> QED BY <1>2 DEF Fits

(* A place skipped by the shift would be a longer border. *)
LEMMA FitsSkipped ==
  ASSUME NEW u, NEW c \in Nat, NEW w \in Nat, NEW p \in Nat, NEW n \in Nat, Fits(u, c, w, p, n),
         NEW b, LongestBorder(u, c, b, n), NEW q \in p + 1 .. p + n - b - 1, NEW m \in Nat, m >= n
  PROVE  ~Fits(u, c, w, q, m)
<1> SUFFICES ASSUME Fits(u, c, w, q, m)
             PROVE  FALSE
  OBVIOUS
<1> DEFINE d == p + n - q
<1>1. b \in Nat /\ b < n /\ d \in b + 1 .. n - 1 /\ d \in Nat /\ q \in Nat
  BY DEF LongestBorder
<1>2. ASSUME NEW k \in 0 .. d - 1
      PROVE  u[c + k + 1] = u[c + (n - d + k) + 1]
  <2>1. k \in 0 .. m - 1 /\ n - d + k \in 0 .. n - 1
    BY <1>1
  <2>2. u[c + k + 1] = u[c - w + q + k + 1]
    BY <2>1 DEF Fits
  <2>3. u[c + (n - d + k) + 1] = u[c - w + p + (n - d + k) + 1]
    BY <2>1 DEF Fits
  <2>4. c - w + p + (n - d + k) + 1 = c - w + q + k + 1
    BY <1>1
  <2> QED BY <2>2, <2>3, <2>4
<1>3. Border(u, c, d, n)
  BY <1>1, <1>2 DEF Border
<1> QED BY <1>1, <1>3 DEF LongestBorder

(* A mismatch after n symbols: what SearchData keeps and where it goes on. *)
LEMMA BestAfterMismatch ==
  ASSUME NEW u, NEW c \in Nat, NEW w \in Nat, NEW p \in Nat, NEW n \in Nat, NEW m \in Nat, NEW b \in Nat,
         BestOf(u, c, w, p, m, b), Fits(u, c, w, p, n), u[c + n + 1] # u[c - w + p + n + 1],
         NEW t \in Int, n = 0 => t = -1, n > 0 => LongestBorder(u, c, t, n)
  PROVE  /\ p + n - t \in Nat /\ p + n - t > p
         /\ n > m  => BestOf(u, c, w, p + n - t, n, p)
         /\ n <= m => BestOf(u, c, w, p + n - t, m, b)
         /\ Fits(u, c, w, p + n - t, IF t > 0 THEN t ELSE 0)
<1>1. n > 0 => t \in 0 .. n - 1 /\ t \in Nat /\ Border(u, c, t, n)
  BY DEF LongestBorder
<1>2. p + n - t \in Nat /\ p + n - t > p
  BY <1>1
<1>3. ASSUME NEW k \in Nat, k > n
      PROVE  ~Fits(u, c, w, p, k)
  <2>1. ~Fits(u, c, w, p, n + 1)
    BY FitsGrows
  <2>2. n + 1 \in Nat /\ n + 1 <= k
    BY <1>3
  <2> QED BY <2>1, <2>2, FitsShorter
<1>4. ASSUME NEW k \in Nat, k > n, k > m, NEW q \in 0 .. p + n - t - 1
      PROVE  ~Fits(u, c, w, q, k)
  <2>1. CASE q < p
    <3>1. q \in 0 .. p - 1 /\ q \in Nat /\ m + 1 \in Nat /\ m + 1 <= k
      BY <1>4, <2>1
    <3>2. ~Fits(u, c, w, q, m + 1)
      BY <3>1 DEF BestOf
    <3> QED BY <3>1, <3>2, FitsShorter
  <2>2. CASE q = p
    BY <1>3, <1>4, <2>2
  <2>3. CASE q > p
    <3>1. n > 0 /\ q \in p + 1 .. p + n - t - 1 /\ k >= n
      BY <1>1, <1>4, <2>3
    <3>2. LongestBorder(u, c, t, n)
      BY <3>1
    <3> QED BY <3>1, <3>2, FitsSkipped
  <2>4. q \in Nat
    BY <1>2
  <2> QED BY <2>1, <2>2, <2>3, <2>4
<1>5. ASSUME n > m
      PROVE  BestOf(u, c, w, p + n - t, n, p)
  <2>1. \A q \in 0 .. p + n - t - 1 : ~Fits(u, c, w, q, n + 1)
    <3>1. n + 1 \in Nat /\ n + 1 > n /\ n + 1 > m
      BY <1>5
    <3> QED BY <1>4, <3>1
  <2>2. ASSUME NEW q \in 0 .. p - 1
        PROVE  ~Fits(u, c, w, q, n)
    <3>1. q \in Nat /\ m + 1 \in Nat /\ m + 1 <= n
      BY <1>5
    <3>2. ~Fits(u, c, w, q, m + 1)
      BY DEF BestOf
    <3> QED BY <3>1, <3>2, FitsShorter
  <2> QED BY <2>1, <2>2 DEF BestOf
<1>6. ASSUME n <= m
      PROVE  BestOf(u, c, w, p + n - t, m, b)
  <2>1. \A q \in 0 .. p + n - t - 1 : ~Fits(u, c, w, q, m + 1)
    <3>1. m + 1 \in Nat /\ m + 1 > n /\ m + 1 > m
      BY <1>6
    <3> QED BY <1>4, <3>1
  <2> QED BY <2>1 DEF BestOf
<1>7. Fits(u, c, w, p + n - t, IF t > 0 THEN t ELSE 0)
  <2>1. CASE t > 0
    <3>1. n > 0
      BY <2>1
    <3>2. Fits(u, c, w, p + n - t, t)
      BY <1>1, <3>1, FitsShifted
    <3> QED BY <2>1, <3>2
  <2>2. CASE ~(t > 0)
    BY <2>2 DEF Fits
  <2> QED BY <2>1, <2>2
<1> QED BY <1>2, <1>5, <1>6, <1>7

-----------------------------------------------------------------------------
(* The invariant of the search. *)

InLoop == phase \in {"prepare", "table", "search", "emit"}

CursorTypes ==
  /\ input \in Seq(Symbols) /\ phase \in Phases
  /\ cur \in Nat /\ slot \in 0 .. Slots
  /\ table \in [0 .. Level -> -1 .. Level]
  /\ ti \in 2 .. Level + 1 /\ tx \in 0 .. Level
  /\ x \in Nat /\ i \in 0 .. Level /\ match \in 0 .. Level /\ best \in Nat

LoopState  == InLoop => cur <= len /\ slot < Slots
TableState ==
  phase = "table" =>
    /\ ti <= Ahead \/ ti = 2
    /\ Tabled(input, cur, table, ti) /\ Candidate(input, cur, ti, tx)
    /\ x = 0 /\ i = 0 /\ match = 0 /\ best = 0
SearchState ==
  phase = "search" =>
    /\ Ahead > 2 /\ Back > Ahead
    /\ Tabled(input, cur, table, Ahead)
    /\ i < Ahead /\ match < Ahead
    /\ match > 0 => best < Back
    /\ Fits(input, cur, Back, x, i) /\ BestOf(input, cur, Back, x, match, best)
EmitState ==
  phase = "emit" =>
    /\ match <= Ahead
    /\ match > 0 => best < Back
    /\ Fits(input, cur, Back, best, match)
    /\ Ahead > 2 /\ Back > Ahead =>
         /\ match < Ahead => BestOf(input, cur, Back, Back, match, best)
         /\ \A q \in 0 .. best - 1 : ~Fits(input, cur, Back, q, match)

SearchInv == CursorTypes /\ LoopState /\ TableState /\ SearchState /\ EmitState

LEMMA Spans ==
  ASSUME CursorTypes
  PROVE  /\ len \in Nat
         /\ Back \in 0 .. Window /\ Back <= cur /\ Back \in Nat
         /\ cur <= len => Ahead \in 0 .. Level /\ cur + Ahead <= len /\ Ahead \in Nat
BY CodecAssumption DEF CursorTypes, Back, Ahead, len

LEMMA SearchInvInit == Init => SearchInv
<1> SUFFICES ASSUME Init
             PROVE  SearchInv
  OBVIOUS
<1>1. input \in Seq(Symbols)
  BY DEF Init, Inputs
<1>2. CursorTypes
  BY <1>1, CodecAssumption DEF Init, CursorTypes, Phases, AcceptLevel
<1> QED BY <1>2 DEF Init, SearchInv, LoopState, InLoop, TableState, SearchState, EmitState

LEMMA PrepareSearch == SearchInv /\ Prepare => SearchInv'
<1> SUFFICES ASSUME SearchInv, Prepare
             PROVE  SearchInv'
  OBVIOUS
<1>1. CursorTypes /\ cur <= len /\ slot < Slots
  BY DEF SearchInv, LoopState, InLoop, Prepare
<1>2. len \in Nat /\ Ahead \in 0 .. Level /\ Ahead' = Ahead
  BY <1>1, Spans DEF Prepare, Ahead, len
<1>3. /\ table' \in [0 .. Level -> -1 .. Level] /\ table'[0] = -1 /\ table'[1] = 0
  BY <1>1, CodecAssumption, SMTT(60) DEF CursorTypes, Prepare, ResetTable, AcceptLevel
<1>4. CursorTypes'
  BY <1>1, <1>3, CodecAssumption DEF CursorTypes, Prepare, AcceptLevel, Phases
<1>5. LoopState'
  BY <1>1 DEF LoopState, InLoop, Prepare, len
<1>6. TableState'
  <2>1. LongestBorder(input, cur, 0, 1)
    BY EmptyBorder, <1>1 DEF LongestBorder, CursorTypes
  <2>2. Tabled(input, cur, table', 2)
    BY <1>3, <2>1 DEF Tabled
  <2>3. Candidate(input, cur, 2, 0)
    <3>1. Border(input, cur, 0, 2 - 1)
      BY EmptyBorder, <1>1 DEF CursorTypes
    <3> QED BY <3>1 DEF Candidate
  <2> QED BY <2>2, <2>3 DEF TableState, Prepare
<1> QED BY <1>4, <1>5, <1>6 DEF SearchInv, SearchState, EmitState, Prepare

LEMMA TableStepSearch == SearchInv /\ TableStep => SearchInv'
<1> SUFFICES ASSUME SearchInv, TableStep
             PROVE  SearchInv'
  OBVIOUS
<1>1. CursorTypes /\ cur <= len /\ slot < Slots /\ TableState
  BY DEF SearchInv, LoopState, InLoop, TableStep
<1>2. len \in Nat /\ Ahead \in 0 .. Level /\ Ahead' = Ahead /\ ti < Ahead /\ Ahead \in Nat
  BY <1>1, Spans DEF TableStep, Ahead, len
<1>3. /\ ti \in Nat /\ ti >= 2 /\ tx \in Nat /\ cur \in Nat /\ ti <= Level - 1 /\ tx <= ti - 2 /\ Level \in Nat
      /\ table \in [0 .. Level -> -1 .. Level]
      /\ Tabled(input, cur, table, ti) /\ Candidate(input, cur, ti, tx)
  <2>1. Candidate(input, cur, ti, tx) /\ Tabled(input, cur, table, ti)
    BY <1>1 DEF TableState, TableStep
  <2> QED BY <1>1, <1>2, <2>1, CodecAssumption DEF CursorTypes, Candidate
<1>4. /\ input' = input /\ cur' = cur /\ phase' = phase /\ slot' = slot /\ x' = x /\ i' = i /\ match' = match
      /\ best' = best /\ phase = "table"
  BY DEF TableStep
<1>5. \/ /\ input[cur + (ti - 1) + 1] = input[cur + tx + 1]
         /\ table' = [table EXCEPT ![ti] = tx + 1] /\ ti' = ti + 1 /\ tx' = tx + 1
      \/ /\ input[cur + (ti - 1) + 1] # input[cur + tx + 1]
         /\ tx > 0 /\ tx' = table[tx] /\ table' = table /\ ti' = ti
      \/ /\ input[cur + (ti - 1) + 1] # input[cur + 0 + 1]
         /\ tx = 0 /\ table' = [table EXCEPT ![ti] = 0] /\ ti' = ti + 1 /\ tx' = 0
  BY <1>3 DEF TableStep, Comp
<1>6. ASSUME NEW b \in 0 .. Level, LongestBorder(input, cur, b, ti), table' = [table EXCEPT ![ti] = b]
      PROVE  table' \in [0 .. Level -> -1 .. Level] /\ Tabled(input, cur, table', ti + 1)
  <2>1. table' \in [0 .. Level -> -1 .. Level] /\ table'[ti] = b
        /\ \A k \in 0 .. Level : k # ti => table'[k] = table[k]
    BY <1>3, <1>6
  <2>2. \A k \in 1 .. (ti + 1) - 1 : LongestBorder(input, cur, table'[k], k)
    <3> TAKE k \in 1 .. (ti + 1) - 1
    <3>1. CASE k = ti
      BY <1>6, <2>1, <3>1
    <3>2. CASE k # ti
      <4>1. k \in 1 .. ti - 1 /\ k \in 0 .. Level
        BY <1>3, <3>2
      <4> QED BY <1>3, <2>1, <3>2, <4>1 DEF Tabled
    <3> QED BY <3>1, <3>2
  <2>3. table'[0] = -1
    BY <1>3, <2>1 DEF Tabled
  <2> QED BY <2>1, <2>2, <2>3 DEF Tabled
<1>7. /\ table' \in [0 .. Level -> -1 .. Level] /\ ti' \in 2 .. Level + 1 /\ tx' \in 0 .. Level /\ ti' <= Ahead
      /\ Tabled(input, cur, table', ti') /\ Candidate(input, cur, ti', tx')
  <2>1. CASE /\ input[cur + (ti - 1) + 1] = input[cur + tx + 1]
             /\ table' = [table EXCEPT ![ti] = tx + 1] /\ ti' = ti + 1 /\ tx' = tx + 1
    <3>1. LongestBorder(input, cur, tx + 1, ti) /\ Candidate(input, cur, ti + 1, tx + 1)
      BY <1>3, <2>1, CandidateFits
    <3>2. tx + 1 \in 0 .. Level
      BY <1>3
    <3>3. table' \in [0 .. Level -> -1 .. Level] /\ Tabled(input, cur, table', ti + 1)
      BY <1>6, <2>1, <3>1, <3>2
    <3>4. ti + 1 \in 2 .. Level + 1 /\ ti + 1 <= Ahead
      BY <1>2, <1>3
    <3> QED BY <2>1, <3>1, <3>2, <3>3, <3>4
  <2>2. CASE /\ input[cur + (ti - 1) + 1] # input[cur + tx + 1]
             /\ tx > 0 /\ tx' = table[tx] /\ table' = table /\ ti' = ti
    <3>1. tx \in 1 .. ti - 1
      BY <1>3, <2>2
    <3>2. LongestBorder(input, cur, table[tx], tx)
      BY <1>3, <3>1 DEF Tabled
    <3>3. Candidate(input, cur, ti, table[tx])
      BY <1>3, <2>2, <3>2, CandidateShrinks
    <3>4. table[tx] \in 0 .. Level
      BY <1>3, <3>2 DEF LongestBorder
    <3> QED BY <1>2, <1>3, <2>2, <3>3, <3>4
  <2>3. CASE /\ input[cur + (ti - 1) + 1] # input[cur + 0 + 1]
             /\ tx = 0 /\ table' = [table EXCEPT ![ti] = 0] /\ ti' = ti + 1 /\ tx' = 0
    <3>1. LongestBorder(input, cur, 0, ti) /\ Candidate(input, cur, ti + 1, 0)
      BY <1>3, <2>3, CandidateNone
    <3>2. 0 \in 0 .. Level
      BY <1>3
    <3>3. table' \in [0 .. Level -> -1 .. Level] /\ Tabled(input, cur, table', ti + 1)
      BY <1>6, <2>3, <3>1, <3>2
    <3>4. ti + 1 \in 2 .. Level + 1 /\ ti + 1 <= Ahead
      BY <1>2, <1>3
    <3> QED BY <2>3, <3>1, <3>2, <3>3, <3>4
  <2> QED BY <1>5, <2>1, <2>2, <2>3
<1>8. CursorTypes'
  BY <1>1, <1>4, <1>7 DEF CursorTypes
<1>9. TableState'
  BY <1>1, <1>2, <1>4, <1>7 DEF TableState
<1> QED BY <1>1, <1>4, <1>8, <1>9 DEF SearchInv, SearchState, EmitState, LoopState, len

LEMMA TableEndSearch == SearchInv /\ TableEnd => SearchInv'
<1> SUFFICES ASSUME SearchInv, TableEnd
             PROVE  SearchInv'
  OBVIOUS
<1>1. CursorTypes /\ cur <= len /\ slot < Slots /\ TableState
  BY DEF SearchInv, LoopState, InLoop, TableEnd
<1>2. /\ len \in Nat /\ Ahead \in 0 .. Level /\ Ahead' = Ahead /\ Back' = Back /\ ti >= Ahead /\ Ahead \in Nat
      /\ Back \in Nat /\ cur \in Nat /\ ti \in Nat /\ len' = len
  BY <1>1, Spans DEF TableEnd, Ahead, Back, len, encoder, CursorTypes
<1>3. /\ UNCHANGED <<input, cur, slot, table, ti, tx, x, i, match, best>>
      /\ phase' = IF Ahead <= 2 \/ Back <= Ahead THEN "emit" ELSE "search"
  BY DEF TableEnd, encoder
<1>4. /\ x = 0 /\ i = 0 /\ match = 0 /\ best = 0 /\ Tabled(input, cur, table, ti)
      /\ ti <= Ahead \/ ti = 2
  BY <1>1 DEF TableState, TableEnd
<1>5. CursorTypes'
  BY <1>1, <1>3 DEF CursorTypes, Phases
<1>6. LoopState'
  BY <1>1, <1>2, <1>3 DEF LoopState
<1>7. Fits(input, cur, Back, 0, 0)
  BY DEF Fits
<1>8. SearchState'
  <2> SUFFICES ASSUME phase' = "search"
               PROVE  /\ Ahead > 2 /\ Back > Ahead
                      /\ Tabled(input, cur, table, Ahead)
                      /\ Fits(input, cur, Back, x, i) /\ BestOf(input, cur, Back, x, match, best)
    BY <1>2, <1>3, <1>4 DEF SearchState
  <2>1. Ahead > 2 /\ Back > Ahead
    BY <1>2, <1>3
  <2>2. ti = Ahead
    BY <1>2, <1>4, <2>1
  <2>3. BestOf(input, cur, Back, 0, 0, 0)
    BY <1>7 DEF BestOf
  <2> QED BY <1>4, <1>7, <2>1, <2>2, <2>3
<1>9. EmitState'
  <2> SUFFICES ASSUME phase' = "emit"
               PROVE  ~(Ahead > 2 /\ Back > Ahead)
    BY <1>2, <1>3, <1>4, <1>7 DEF EmitState
  <2> QED BY <1>2, <1>3
<1>10. TableState'
  BY <1>3 DEF TableState
<1> QED BY <1>5, <1>6, <1>8, <1>9, <1>10 DEF SearchInv

LEMMA SearchStepSearch == SearchInv /\ SearchStep => SearchInv'
<1> SUFFICES ASSUME SearchInv, SearchStep
             PROVE  SearchInv'
  OBVIOUS
<1>1. CursorTypes /\ cur <= len /\ slot < Slots /\ phase = "search" /\ x < Back
  BY DEF SearchInv, LoopState, InLoop, SearchStep
<1>2. /\ len \in Nat /\ Ahead \in 0 .. Level /\ Ahead' = Ahead /\ Back' = Back /\ Ahead \in Nat
      /\ Back \in Nat /\ cur \in Nat /\ len' = len /\ i \in Nat /\ x \in Nat /\ match \in Nat /\ best \in Nat
      /\ Level \in Nat
  BY <1>1, Spans, CodecAssumption DEF SearchStep, Ahead, Back, len, CursorTypes
<1>3. /\ UNCHANGED <<input, cur, slot, table, ti, tx>>
      /\ \/ /\ Comp(i) = Ptr(i + x)
            /\ i' = i + 1 /\ x' = x
            /\ \/ i + 1 = Ahead /\ match' = i + 1 /\ best' = x /\ phase' = "emit"
               \/ i + 1 # Ahead /\ match' = match /\ best' = best /\ phase' = phase
         \/ /\ Comp(i) # Ptr(i + x)
            /\ \/ i > match /\ match' = i /\ best' = x
               \/ ~(i > match) /\ match' = match /\ best' = best
            /\ x' = x + i - table[i] /\ i' = (IF table[i] > 0 THEN table[i] ELSE 0) /\ phase' = phase
  BY DEF SearchStep
<1>4. /\ Ahead > 2 /\ Back > Ahead /\ Tabled(input, cur, table, Ahead)
      /\ i < Ahead /\ match < Ahead
      /\ match > 0 => best < Back
      /\ Fits(input, cur, Back, x, i) /\ BestOf(input, cur, Back, x, match, best)
  BY <1>1 DEF SearchInv, SearchState
<1>5. Comp(i) = input[cur + i + 1] /\ Ptr(i + x) = input[cur - Back + x + i + 1]
  BY <1>2 DEF Comp, Ptr
<1>6. LoopState' /\ TableState'
  BY <1>1, <1>2, <1>3 DEF LoopState, TableState
<1>7. CASE Comp(i) = Ptr(i + x)
  <2>1. Fits(input, cur, Back, x, i + 1)
    BY <1>2, <1>4, <1>5, <1>7, FitsGrows
  <2>2. CursorTypes'
    <3>1. i + 1 \in 0 .. Level
      BY <1>2, <1>4
    <3>2. i' = i + 1 /\ x' = x /\ match' \in {i + 1, match} /\ best' \in {x, best} /\ phase' \in {"emit", phase}
      BY <1>3, <1>7
    <3> QED BY <1>1, <1>2, <1>3, <3>1, <3>2 DEF CursorTypes, Phases
  <2>3. CASE i + 1 = Ahead
    <3>1. match' = Ahead /\ best' = x /\ phase' = "emit"
      BY <1>3, <1>7, <2>3
    <3>2. ASSUME NEW q \in 0 .. x - 1
          PROVE  ~Fits(input, cur, Back, q, Ahead)
      <4>1. ~Fits(input, cur, Back, q, match + 1)
        BY <1>4 DEF BestOf
      <4>2. q \in Nat /\ match + 1 \in Nat /\ match + 1 <= Ahead
        BY <1>2, <1>4
      <4> QED BY <1>2, <4>1, <4>2, FitsShorter
    <3>3. EmitState'
      BY <1>1, <1>2, <1>3, <2>1, <2>3, <3>1, <3>2 DEF EmitState
    <3> QED BY <1>6, <2>2, <3>1, <3>3 DEF SearchInv, SearchState
  <2>4. CASE i + 1 # Ahead
    <3>1. match' = match /\ best' = best /\ phase' = phase /\ i' = i + 1 /\ x' = x
      BY <1>3, <1>7, <2>4
    <3>2. i + 1 < Ahead
      BY <1>2, <1>4, <2>4
    <3>3. SearchState'
      BY <1>2, <1>3, <1>4, <2>1, <3>1, <3>2 DEF SearchState
    <3> QED BY <1>1, <1>6, <2>2, <3>1, <3>3 DEF SearchInv, EmitState
  <2> QED BY <2>3, <2>4
<1>8. CASE Comp(i) # Ptr(i + x)
  <2>1. /\ x' = x + i - table[i] /\ i' = (IF table[i] > 0 THEN table[i] ELSE 0) /\ phase' = phase
        /\ \/ i > match /\ match' = i /\ best' = x
           \/ ~(i > match) /\ match' = match /\ best' = best
    BY <1>3, <1>8
  <2>2. table[i] \in -1 .. Level /\ table[i] \in Int
    BY <1>1, <1>2, <1>4 DEF CursorTypes
  <2>3. (i = 0 => table[i] = -1) /\ (i > 0 => LongestBorder(input, cur, table[i], i))
    <3>1. i > 0 => i \in 1 .. Ahead - 1
      BY <1>2, <1>4
    <3> QED BY <1>4, <3>1 DEF Tabled
  <2>4. input[cur + i + 1] # input[cur - Back + x + i + 1]
    BY <1>5, <1>8
  <2>5. /\ x + i - table[i] \in Nat
        /\ i > match  => BestOf(input, cur, Back, x + i - table[i], i, x)
        /\ i <= match => BestOf(input, cur, Back, x + i - table[i], match, best)
        /\ Fits(input, cur, Back, x + i - table[i], IF table[i] > 0 THEN table[i] ELSE 0)
    BY <1>2, <1>4, <2>2, <2>3, <2>4, BestAfterMismatch
  <2>6. BestOf(input, cur, Back, x', match', best') /\ Fits(input, cur, Back, x', i') /\ x' \in Nat
    <3>1. BestOf(input, cur, Back, x', match', best')
      <4>1. CASE i > match
        BY <2>1, <2>5, <4>1
      <4>2. CASE ~(i > match)
        BY <1>2, <2>1, <2>5, <4>2
      <4> QED BY <4>1, <4>2
    <3> QED BY <2>1, <2>5, <3>1
  <2>7. i' < Ahead /\ i' \in 0 .. Level
    <3>1. i > 0 => table[i] < i
      <4>1. i > 0 => table[i] \in 0 .. i - 1
        BY <2>3 DEF LongestBorder
      <4> QED BY <1>2, <2>2, <4>1
    <3> QED BY <1>2, <1>4, <2>1, <2>2, <2>3, <3>1
  <2>8. match' < Ahead /\ (match' > 0 => best' < Back) /\ match' \in 0 .. Level /\ best' \in Nat
    BY <1>1, <1>2, <1>4, <2>1
  <2>9. CursorTypes'
    BY <1>1, <1>3, <2>1, <2>6, <2>7, <2>8 DEF CursorTypes
  <2>10. SearchState'
    BY <1>2, <1>3, <1>4, <2>6, <2>7, <2>8 DEF SearchState
  <2> QED BY <1>1, <1>6, <2>1, <2>9, <2>10 DEF SearchInv, EmitState
<1> QED BY <1>7, <1>8

LEMMA SearchEndSearch == SearchInv /\ SearchEnd => SearchInv'
<1> SUFFICES ASSUME SearchInv, SearchEnd
             PROVE  SearchInv'
  OBVIOUS
<1>1. CursorTypes /\ cur <= len /\ slot < Slots /\ phase = "search" /\ x >= Back /\ phase' = "emit"
  BY DEF SearchInv, LoopState, InLoop, SearchEnd
<1>2. /\ Ahead' = Ahead /\ Back' = Back /\ len' = len /\ Ahead \in Nat /\ Back \in Nat /\ x \in Nat /\ match \in Nat
      /\ UNCHANGED <<input, cur, slot, table, ti, tx, x, i, match, best>>
  BY <1>1, Spans DEF SearchEnd, Ahead, Back, len, encoder, CursorTypes
<1>3. /\ Ahead > 2 /\ Back > Ahead /\ match < Ahead
      /\ match > 0 => best < Back
      /\ BestOf(input, cur, Back, x, match, best)
  BY <1>1 DEF SearchInv, SearchState
<1>4. BestOf(input, cur, Back, Back, match, best)
  <2>1. \A q \in 0 .. Back - 1 : q \in 0 .. x - 1
    BY <1>1, <1>2
  <2> QED BY <1>3, <2>1 DEF BestOf
<1>5. EmitState'
  BY <1>1, <1>2, <1>3, <1>4 DEF EmitState, BestOf
<1>6. CursorTypes'
  BY <1>1, <1>2 DEF CursorTypes, Phases
<1>7. LoopState'
  BY <1>1, <1>2 DEF LoopState
<1> QED BY <1>1, <1>5, <1>6, <1>7 DEF SearchInv, TableState, SearchState

LEMMA EmitSearch == SearchInv /\ Emit => SearchInv'
<1> SUFFICES ASSUME SearchInv, Emit
             PROVE  SearchInv'
  OBVIOUS
<1>1. CursorTypes /\ cur <= len /\ slot < Slots /\ phase = "emit"
  BY DEF SearchInv, LoopState, InLoop, Emit
<1>2. /\ UNCHANGED <<input, table, ti, tx, x, i, match, best>>
      /\ cur' = IF Accepted THEN cur + match ELSE cur + 1
      /\ \/ cur' >= len /\ phase' = "group" /\ slot' = slot
         \/ ~(cur' >= len) /\ slot' = slot + 1 /\ (phase' = "group" \/ (phase' = "prepare" /\ ~LastSlot))
  BY DEF Emit, Put
<1>3. len \in Nat /\ len' = len /\ cur' \in Nat /\ slot \in Nat /\ Slots \in Nat
  BY <1>1, <1>2, Spans, CodecAssumption DEF CursorTypes, len
<1>4. CursorTypes'
  BY <1>1, <1>2, <1>3 DEF CursorTypes, Phases
<1>5. LoopState'
  BY <1>1, <1>2, <1>3 DEF LoopState, InLoop, LastSlot
<1> QED BY <1>2, <1>4, <1>5 DEF SearchInv, TableState, SearchState, EmitState

LEMMA OpenGroupSearch == SearchInv /\ OpenGroup => SearchInv'
<1> SUFFICES ASSUME SearchInv, OpenGroup
             PROVE  SearchInv'
  OBVIOUS
<1>1. /\ CursorTypes /\ cur <= len /\ slot' = 0 /\ phase' = "prepare"
      /\ UNCHANGED <<input, cur, table, ti, tx, x, i, match, best>>
  BY DEF SearchInv, OpenGroup
<1>2. CursorTypes'
  BY <1>1, CodecAssumption DEF CursorTypes, Phases
<1>3. LoopState'
  BY <1>1, CodecAssumption DEF LoopState, len
<1> QED BY <1>1, <1>2, <1>3 DEF SearchInv, TableState, SearchState, EmitState

(* The decoders leave the search alone. *)
LEMMA RestSearch ==
  ASSUME SearchInv, UNCHANGED <<input, encoder>>, phase' \in {"control", "item", "copy", "decoded", "lost"}
  PROVE  SearchInv'
<1>1. UNCHANGED <<input, cur, slot, table, ti, tx, x, i, match, best>>
  BY DEF encoder
<1>2. CursorTypes'
  BY <1>1 DEF SearchInv, CursorTypes, Phases
<1> QED BY <1>2 DEF SearchInv, LoopState, InLoop, TableState, SearchState, EmitState

LEMMA SearchInvStep == SearchInv /\ [Next]_vars => SearchInv'
<1> SUFFICES ASSUME SearchInv, [Next]_vars
             PROVE  SearchInv'
  OBVIOUS
<1>1. CASE Compress
  <2>1. CASE Finish
    BY <2>1, RestSearch DEF Finish
  <2> QED BY <1>1, <2>1, OpenGroupSearch, PrepareSearch, TableStepSearch, TableEndSearch, SearchStepSearch,
             SearchEndSearch, EmitSearch DEF Compress
<1>2. CASE Decompress
  <2>1. UNCHANGED <<input, encoder>> /\ phase' \in {"control", "item", "copy", "decoded", "lost"}
    BY <1>2 DEF Decompress, StopAtControl, ReadControl, StopAtItem, CopyLiteral, ReadReference, CopyByte, EndCopy,
                NextBit
  <2> QED BY <2>1, RestSearch
<1>3. CASE UNCHANGED vars
  <2>1. UNCHANGED <<input, phase, cur, slot, table, ti, tx, x, i, match, best>>
    BY <1>3 DEF vars, encoder
  <2>2. Ahead' = Ahead /\ Back' = Back /\ len' = len
    BY <2>1 DEF Ahead, Back, len
  <2> QED BY <2>1, <2>2 DEF SearchInv, CursorTypes, LoopState, InLoop, TableState, SearchState, EmitState
<1> QED BY <1>1, <1>2, <1>3 DEF Next

LEMMA SearchInvariant == Spec => []SearchInv
BY SearchInvInit, SearchInvStep, PTL DEF Spec

(* The table of GenerateTable holds the longest proper border of each prefix
   of the text to find, whatever an earlier search has left behind in it: for
   every input, every LEVEL and every window. *)
THEOREM TableHoldsBorders == Spec => []TableIsBorder
<1>1. SearchInv => TableIsBorder
  <2> SUFFICES ASSUME SearchInv, phase = "search", NEW k \in 2 .. Ahead - 1
               PROVE  IsBorder(table[k], k) /\ \A b \in table[k] + 1 .. k - 1 : ~IsBorder(b, k)
    BY DEF TableIsBorder
  <2>1. \A b : IsBorder(b, k) <=> Border(input, cur, b, k)
    BY DEF IsBorder, Border, Comp
  <2>2. k \in 1 .. Ahead - 1
    OBVIOUS
  <2>3. LongestBorder(input, cur, table[k], k)
    BY <2>2 DEF SearchInv, SearchState, Tabled
  <2> QED BY <2>1, <2>3 DEF LongestBorder
<1> QED BY <1>1, SearchInvariant, PTL

(* What is written is decided by the longest match in the window, and by the
   farthest of the longest, whenever SearchData searches at all. *)
THEOREM MatchIsLongest == Spec => []LongestMatch
<1>1. SearchInv => LongestMatch
  <2> SUFFICES ASSUME SearchInv, phase = "emit", Ahead > 2, Back > Ahead
               PROVE  /\ MatchesAt(best, match)
                      /\ \A p \in 0 .. Back - 1 : /\ match < Ahead => ~MatchesAt(p, match + 1)
                                                  /\ p < best => ~MatchesAt(p, match)
    BY DEF LongestMatch
  <2>1. \A p, n \in Int : MatchesAt(p, n) <=> Fits(input, cur, Back, p, n)
    <3> SUFFICES ASSUME NEW p \in Int, NEW n \in Int
                 PROVE  MatchesAt(p, n) <=> Fits(input, cur, Back, p, n)
      OBVIOUS
    <3>1. Back \in Int /\ cur \in Int
      BY Spans DEF SearchInv, CursorTypes
    <3>2. ASSUME NEW k \in 0 .. n - 1
          PROVE  Comp(k) = input[cur + k + 1] /\ Ptr(p + k) = input[cur - Back + p + k + 1]
      BY <3>1 DEF Comp, Ptr
    <3> QED BY <3>2 DEF MatchesAt, Fits
  <2>2. best \in Nat /\ match \in Nat
    BY DEF SearchInv, CursorTypes
  <2>3. /\ Fits(input, cur, Back, best, match)
        /\ match < Ahead => BestOf(input, cur, Back, Back, match, best)
        /\ \A q \in 0 .. best - 1 : ~Fits(input, cur, Back, q, match)
    BY DEF SearchInv, EmitState
  <2>4. ASSUME NEW p \in 0 .. Back - 1
        PROVE  /\ match < Ahead => ~MatchesAt(p, match + 1)
               /\ p < best => ~MatchesAt(p, match)
    <3>1. p \in Int /\ match + 1 \in Int /\ (p < best => p \in 0 .. best - 1)
      BY <2>2
    <3> QED BY <2>1, <2>2, <2>3, <3>1 DEF BestOf
  <2> QED BY <2>1, <2>2, <2>3, <2>4
<1> QED BY <1>1, SearchInvariant, PTL

-----------------------------------------------------------------------------
(* The code.  p[n] is the number of bytes the items before the n-th give, w[n]
   the number they take in the file, and g[n] the place of the n-th in its
   group, 0 for the control byte. *)

(* Item e of bit s of a control byte with the bits B stands for the symbols of
   u behind the first a, up to b, in d bytes. *)
Writes(e, B, s, u, a, b, d) ==
  \/ /\ e.kind = "literal" /\ s \in B /\ e.sym \in Symbols
     /\ b = a + 1 /\ d = 1
     /\ a < Len(u) => e.sym = u[a + 1]
  \/ /\ e.kind = "reference" /\ s \notin B
     /\ b = a + e.size + 2 /\ d = 2 /\ b <= Len(u)
     /\ e.dist \in 1 .. a
     /\ \A k \in 0 .. e.size + 1 : u[a + k + 1] = u[a + k + 1 - e.dist]

ControlRight(cd, u, p, g, w, n) ==
  /\ g[n] = 0 /\ cd[n].kind = "control"
  /\ n = 1 \/ g[n - 1] = Slots \/ p[n] = Len(u)
  /\ p[n + 1] = p[n] /\ w[n + 1] = w[n] + 1
DataRight(cd, u, p, g, w, n) ==
  /\ g[n] \in 1 .. n - 1 /\ g[n] = g[n - 1] + 1 /\ p[n] <= Len(u)
  /\ Writes(cd[n], cd[n - g[n]].bits, g[n] - 1, u, p[n], p[n + 1], w[n + 1] - w[n])

Layout(cd, u, p, g, w) ==
  /\ p \in [1 .. Len(cd) + 1 -> Nat] /\ w \in [1 .. Len(cd) + 1 -> Nat] /\ g \in [1 .. Len(cd) -> 0 .. Slots]
  /\ p[1] = 0 /\ w[1] = 0
  /\ \A n \in 1 .. Len(cd) : ControlRight(cd, u, p, g, w, n) \/ DataRight(cd, u, p, g, w, n)
  /\ \A m, n \in 1 .. Len(cd) + 1 : m <= n => p[m] <= p[n] /\ w[m] <= w[n]

Refs(cd) == Cardinality({n \in DOMAIN cd : cd[n].kind = "reference"})

LEMMA RefsGrow ==
  ASSUME NEW S, NEW cd \in Seq(S), NEW ce \in Seq(S), Len(ce) = Len(cd) + 1,
         \A n \in 1 .. Len(cd) : ce[n].kind = cd[n].kind
  PROVE  /\ Refs(cd) \in Nat
         /\ Refs(ce) = IF ce[Len(cd) + 1].kind = "reference" THEN Refs(cd) + 1 ELSE Refs(cd)
<1> DEFINE R == {n \in DOMAIN cd : cd[n].kind = "reference"}
           m == Len(cd) + 1
<1>1. Len(cd) \in Nat /\ DOMAIN cd = 1 .. Len(cd) /\ DOMAIN ce = 1 .. Len(cd) + 1
  BY LenProperties
<1>2. IsFiniteSet(R) /\ m \notin R
  <2>1. IsFiniteSet(1 .. Len(cd))
    BY <1>1, FS_Interval
  <2>2. R \subseteq 1 .. Len(cd) /\ m \notin 1 .. Len(cd)
    BY <1>1
  <2> QED BY <2>1, <2>2, FS_Subset
<1>3. {n \in DOMAIN ce : ce[n].kind = "reference"} = IF ce[m].kind = "reference" THEN R \cup {m} ELSE R
  <2>1. \A n : n \in 1 .. Len(cd) + 1 <=> n \in 1 .. Len(cd) \/ n = m
    BY <1>1
  <2> QED BY <1>1, <2>1
<1> HIDE DEF R, m
<1>4. Cardinality(R) \in Nat /\ Cardinality(R \cup {m}) = Cardinality(R) + 1
  BY <1>2, FS_CardinalityType, FS_AddElement
<1>5. Refs(cd) = Cardinality(R)
  BY DEF Refs, R
<1> QED BY <1>3, <1>4, <1>5 DEF Refs, m

(* ce has one item more than the L of cd; nothing of the others is changed, and
   no bit that was set or left for one of them. *)
OneMore(cd, ce, g, L) ==
  /\ Len(cd) = L /\ Len(ce) = L + 1
  /\ \A n \in 1 .. L : /\ ce[n].kind = cd[n].kind /\ ce[n].sym = cd[n].sym
                       /\ ce[n].dist = cd[n].dist /\ ce[n].size = cd[n].size
  /\ \A n \in 1 .. L : g[n] > 0 => (g[n] - 1 \in ce[n - g[n]].bits <=> g[n] - 1 \in cd[n - g[n]].bits)

(* f2 is f with v behind the first n values. *)
Extended(f, f2, n, v, S) ==
  /\ f2 \in [1 .. n + 1 -> S] /\ f2[n + 1] = v
  /\ \A k \in 1 .. n : f2[k] = f[k]

LEMMA Extensions ==
  ASSUME NEW S, NEW n \in Nat, NEW f \in [1 .. n -> S], NEW v \in S
  PROVE  \E f2 : Extended(f, f2, n, v, S)
<1> DEFINE f2 == [k \in 1 .. n + 1 |-> IF k <= n THEN f[k] ELSE v]
<1>1. \A k \in 1 .. n + 1 : k <= n => k \in 1 .. n
  OBVIOUS
<1>2. f2 \in [1 .. n + 1 -> S]
  BY <1>1
<1>3. n + 1 \in 1 .. n + 1 /\ ~(n + 1 <= n) /\ \A k \in 1 .. n : k \in 1 .. n + 1 /\ k <= n
  OBVIOUS
<1>4. f2[n + 1] = v /\ \A k \in 1 .. n : f2[k] = f[k]
  BY <1>3
<1> HIDE DEF f2
<1> QED BY <1>2, <1>4 DEF Extended

LEMMA Monotone ==
  ASSUME NEW n \in Nat, n >= 1, NEW f \in [1 .. n -> Nat], NEW f2, NEW v \in Nat, Extended(f, f2, n, v, Nat),
         \A j, k \in 1 .. n : j <= k => f[j] <= f[k], f[n] <= v
  PROVE  \A j, k \in 1 .. n + 1 : j <= k => f2[j] <= f2[k]
<1> SUFFICES ASSUME NEW j \in 1 .. n + 1, NEW k \in 1 .. n + 1, j <= k
             PROVE  f2[j] <= f2[k]
  OBVIOUS
<1>1. f2[n + 1] = v /\ \A m \in 1 .. n : f2[m] = f[m]
  BY DEF Extended
<1>2. CASE k = n + 1 /\ j = n + 1
  BY <1>1, <1>2
<1>3. CASE k = n + 1 /\ j # n + 1
  <2>1. j \in 1 .. n /\ n \in 1 .. n /\ j <= n
    BY <1>3
  <2>2. f[j] <= f[n] /\ f[j] \in Nat /\ f[n] \in Nat
    BY <2>1
  <2> QED BY <1>1, <1>3, <2>1, <2>2
<1>4. CASE k # n + 1
  <2>1. j \in 1 .. n /\ k \in 1 .. n
    BY <1>4
  <2> QED BY <1>1, <2>1
<1> QED BY <1>2, <1>3, <1>4

(* The items before the new one are still right. *)
LEMMA OldItems ==
  ASSUME NEW cd, NEW ce, NEW L \in Nat, NEW u, NEW p, NEW g, NEW w, NEW p2, NEW g2, NEW w2,
         OneMore(cd, ce, g, L),
         \A k \in 1 .. L + 1 : p2[k] = p[k] /\ w2[k] = w[k],
         \A k \in 1 .. L : g2[k] = g[k],
         NEW n \in 1 .. L, ControlRight(cd, u, p, g, w, n) \/ DataRight(cd, u, p, g, w, n)
  PROVE  ControlRight(ce, u, p2, g2, w2, n) \/ DataRight(ce, u, p2, g2, w2, n)
<1>1. n \in 1 .. L + 1 /\ n + 1 \in 1 .. L + 1 /\ (n # 1 => n - 1 \in 1 .. L) /\ n \in Int
  OBVIOUS
<1>2. /\ p2[n] = p[n] /\ p2[n + 1] = p[n + 1] /\ w2[n] = w[n] /\ w2[n + 1] = w[n + 1] /\ g2[n] = g[n]
      /\ n # 1 => g2[n - 1] = g[n - 1]
  BY <1>1
<1>3. ce[n].kind = cd[n].kind /\ ce[n].sym = cd[n].sym /\ ce[n].dist = cd[n].dist /\ ce[n].size = cd[n].size
  BY DEF OneMore
<1>4. CASE ControlRight(cd, u, p, g, w, n)
  BY <1>2, <1>3, <1>4 DEF ControlRight
<1>5. CASE DataRight(cd, u, p, g, w, n)
  <2>1. /\ g[n] \in 1 .. n - 1 /\ g[n] = g[n - 1] + 1 /\ p[n] <= Len(u) /\ n # 1
        /\ Writes(cd[n], cd[n - g[n]].bits, g[n] - 1, u, p[n], p[n + 1], w[n + 1] - w[n])
    BY <1>1, <1>5 DEF DataRight
  <2>2. g[n] - 1 \in ce[n - g[n]].bits <=> g[n] - 1 \in cd[n - g[n]].bits
    BY <1>1, <2>1 DEF OneMore
  <2>3. Writes(ce[n], ce[n - g[n]].bits, g[n] - 1, u, p[n], p[n + 1], w[n + 1] - w[n])
    BY <1>3, <2>1, <2>2 DEF Writes
  <2> QED BY <1>2, <2>1, <2>3 DEF DataRight
<1> QED BY <1>4, <1>5

LEMMA LayoutGrows ==
  ASSUME NEW cd, NEW ce, NEW L \in Nat, NEW K \in Nat, K = L + 1, NEW u, NEW p, NEW g, NEW w,
         Layout(cd, u, p, g, w), OneMore(cd, ce, g, L),
         NEW a \in Nat, NEW q \in 0 .. Slots, NEW d \in Nat, p[K] <= a, w[K] <= d,
         NEW p2, NEW g2, NEW w2,
         Extended(p, p2, K, a, Nat), Extended(g, g2, L, q, 0 .. Slots), Extended(w, w2, K, d, Nat),
         ControlRight(ce, u, p2, g2, w2, K) \/ DataRight(ce, u, p2, g2, w2, K)
  PROVE  Layout(ce, u, p2, g2, w2)
<1>1. Len(cd) = L /\ Len(ce) = L + 1
  BY DEF OneMore
<1>2. /\ p \in [1 .. K -> Nat] /\ w \in [1 .. K -> Nat] /\ g \in [1 .. L -> 0 .. Slots]
      /\ p[1] = 0 /\ w[1] = 0
      /\ \A m, n \in 1 .. K : m <= n => p[m] <= p[n] /\ w[m] <= w[n]
      /\ \A n \in 1 .. L : ControlRight(cd, u, p, g, w, n) \/ DataRight(cd, u, p, g, w, n)
  BY <1>1 DEF Layout
<1>3. /\ p2 \in [1 .. K + 1 -> Nat] /\ w2 \in [1 .. K + 1 -> Nat] /\ g2 \in [1 .. K -> 0 .. Slots]
      /\ \A k \in 1 .. K : p2[k] = p[k] /\ w2[k] = w[k]
      /\ \A k \in 1 .. L : g2[k] = g[k]
  BY DEF Extended
<1>4. p2[1] = 0 /\ w2[1] = 0
  BY <1>2, <1>3
<1>5. \A m, n \in 1 .. K + 1 : m <= n => p2[m] <= p2[n] /\ w2[m] <= w2[n]
  <2>1. K >= 1
    OBVIOUS
  <2>2. \A m, n \in 1 .. K + 1 : m <= n => p2[m] <= p2[n]
    BY <1>2, <2>1, Monotone
  <2>3. \A m, n \in 1 .. K + 1 : m <= n => w2[m] <= w2[n]
    BY <1>2, <2>1, Monotone
  <2> QED BY <2>2, <2>3
<1>6. \A n \in 1 .. L : ControlRight(ce, u, p2, g2, w2, n) \/ DataRight(ce, u, p2, g2, w2, n)
  BY <1>2, <1>3, OldItems
<1>7. \A n \in 1 .. K : n \in 1 .. L \/ n = K
  OBVIOUS
<1>8. \A n \in 1 .. K : ControlRight(ce, u, p2, g2, w2, n) \/ DataRight(ce, u, p2, g2, w2, n)
  BY <1>6, <1>7
<1> QED BY <1>1, <1>3, <1>4, <1>5, <1>8 DEF Layout

-----------------------------------------------------------------------------
(* The invariant of the code. *)

(* In the loops of CompressData: the last control byte is being filled, the
   recorded size lacks the byte of the item that ended the input. *)
Filling(p, g, w) ==
  /\ Len(code) > 0 /\ g[Len(code)] = slot /\ slot < Len(code)
  /\ code[Len(code) - slot].bits \subseteq 0 .. slot - 1
  /\ cur < len => /\ outlen = w[Len(code) + 1]
                  /\ 2 * w[Len(code) + 1] + slot <= 3 * cur + 2
  /\ cur = len => /\ slot = 0 /\ 2 * w[Len(code) + 1] <= 3 * len + 3
                  /\ \/ len = 0 /\ Len(code) = 1 /\ outlen = 1
                     \/ /\ len > 0 /\ Len(code) > 1 /\ p[Len(code) - 1] < len
                        /\ outlen + 1 = w[Len(code) + 1]

(* The code is whole: a control byte and a literal are behind the item that
   ended the input; the literal is not recorded, nor is one byte of that item. *)
Closed(p, w) ==
  /\ Len(code) >= 2 /\ cur = len + 1 /\ 2 * w[Len(code) + 1] <= 3 * len + 5
  /\ len = 0 => Len(code) = 2 /\ outlen = 1 /\ w[2] = 1
  /\ len > 0 => /\ Len(code) >= 3 /\ p[Len(code) - 2] < len
                /\ p[Len(code) - 1] = len /\ p[Len(code)] = len
                /\ outlen = w[Len(code) - 1] /\ w[Len(code)] = outlen + 1

(* At the head of the while loop. *)
Between(p, g, w) ==
  /\ cur < len => /\ 2 * w[Len(code) + 1] <= 3 * cur
                  /\ \/ Len(code) = 0 /\ outlen = 0
                     \/ Len(code) > 0 /\ g[Len(code)] = Slots /\ outlen = w[Len(code) + 1]
  /\ cur = len => /\ 2 * w[Len(code) + 1] <= 3 * len + 1
                  /\ \/ Len(code) = 0 /\ outlen = 0 /\ len = 0
                     \/ len > 0 /\ Len(code) > 0 /\ p[Len(code)] < len /\ outlen + 1 = w[Len(code) + 1]
  /\ cur > len => Closed(p, w)

Coding(p, g, w) ==
  /\ Layout(code, input, p, g, w)
  /\ p[Len(code) + 1] = cur /\ w[Len(code) + 1] = Len(code) + Refs(code)
  /\ InLoop => Filling(p, g, w)
  /\ phase = "group" => Between(p, g, w)
  /\ ~InLoop /\ phase # "group" => Closed(p, w)

(* Item n of the code is the next: the control byte of its group was read. *)
InGroup(g, n) == used < Slots /\ g[n - 1] = used /\ n > 1 /\ used < n - 1 /\ bits = code[n - 1 - used].bits

(* What is decoded stands at the head of the input, and the next item gives
   what follows it there. *)
Reading(p, g, w) ==
  ~InLoop /\ phase # "group" =>
    /\ rd \in 1 .. Len(code) /\ reader # "none"
    /\ Len(out) <= len /\ \A k \in 1 .. Len(out) : out[k] = input[k]
    /\ reader = "DecompressData" /\ len > 0 => rd < Len(code)
    /\ phase = "control" =>
         /\ Len(out) = p[rd] /\ taken = w[rd]
         /\ g[rd] = 0 \/ (reader = "DecompressData" /\ Len(out) = len)
    /\ phase = "item" => Len(out) = p[rd] /\ taken = w[rd] /\ InGroup(g, rd)
    /\ phase = "copy" =>
         /\ code[rd].kind = "reference" /\ g[rd] = used + 1 /\ InGroup(g, rd)
         /\ p[rd] <= Len(out) /\ Len(out) + left = p[rd + 1] /\ taken = w[rd + 1]
    /\ phase = "decoded" =>
         /\ Len(out) = len
         /\ taken <= outlen + (IF reader = "decompress_data" THEN 1 ELSE 0)
         /\ reader = "DecompressData" /\ len > 0 => taken = outlen

CodeTypes ==
  /\ code \in Seq(Items) /\ outlen \in Nat
  /\ reader \in {"none", "DecompressData", "decompress_data"}
  /\ rd \in Nat \ {0} /\ bits \in SUBSET (0 .. Slots - 1) /\ used \in 0 .. Slots
  /\ left \in 0 .. Nibble + 1 /\ taken \in Nat /\ out \in Seq(Symbols)
  /\ phase # "lost"
  /\ InLoop \/ phase = "group" => rd = 1 /\ taken = 0 /\ out = <<>>

CodeInv == CodeTypes /\ \E p, g, w : Coding(p, g, w) /\ Reading(p, g, w)

LEMMA CodecNumbers ==
  /\ Slots \in Nat /\ Slots >= 2 /\ Nibble \in Nat /\ Nibble >= 2 /\ Level \in Nat /\ Level <= Nibble + 1
  /\ Window \in Nat /\ Level < Window
BY CodecAssumption DEF AcceptLevel

LEMMA CodeInvInit == Init => CodeInv
<1> SUFFICES ASSUME Init
             PROVE  CodeInv
  OBVIOUS
<1>2. CodeTypes
  BY CodecNumbers DEF Init, CodeTypes, InLoop
<1>3. input \in Seq(Symbols) /\ len \in Nat
  BY SearchInvInit, Spans DEF SearchInv, CursorTypes
<1> DEFINE p == [n \in 1 .. 1 |-> 0]
           g == [n \in 1 .. 0 |-> 0]
<1>4. Len(code) = 0 /\ cur = 0 /\ outlen = 0 /\ phase = "group" /\ ~InLoop /\ Refs(code) = 0
  <2>1. code = <<>>
    BY DEF Init
  <2>2. DOMAIN code = {}
    BY <2>1
  <2>3. Refs(code) = 0
    BY <2>2, FS_EmptySet DEF Refs
  <2> QED BY <2>1, <2>3 DEF Init, InLoop
<1>5. Layout(code, input, p, g, p)
  <2>1. p \in [1 .. 0 + 1 -> Nat] /\ g \in [1 .. 0 -> 0 .. Slots] /\ p[1] = 0
    OBVIOUS
  <2>2. \A m, n \in 1 .. 0 + 1 : m <= n => p[m] <= p[n]
    OBVIOUS
  <2>3. \A n \in 1 .. 0 : FALSE
    OBVIOUS
  <2> HIDE DEF p, g
  <2> QED BY <1>4, <2>1, <2>2, <2>3 DEF Layout
<1>6. Between(p, g, p)
  BY <1>3, <1>4 DEF Between
<1>7. Coding(p, g, p)
  BY <1>4, <1>5, <1>6 DEF Coding
<1>8. Reading(p, g, p)
  BY <1>4 DEF Reading
<1> QED BY <1>2, <1>7, <1>8 DEF CodeInv

(* A loop that writes nothing leaves the code as it is. *)
LEMMA QuietCode ==
  ASSUME CodeInv, InLoop, InLoop', UNCHANGED <<input, cur, slot, code, outlen, decoder>>
  PROVE  CodeInv'
<1>1. len' = len /\ Len(code') = Len(code) /\ UNCHANGED <<rd, taken, out, reader, bits, used, left>>
  BY DEF len, decoder
<1>2. PICK p, g, w : Coding(p, g, w) /\ Reading(p, g, w)
  BY DEF CodeInv
<1>3. phase # "group" /\ phase' # "group" /\ phase' # "lost"
  BY DEF InLoop
<1>4. Filling(p, g, w)'
  BY <1>1, <1>2 DEF Coding, Filling
<1>5. Coding(p, g, w)'
  BY <1>1, <1>2, <1>3, <1>4 DEF Coding
<1>6. Reading(p, g, w)'
  BY DEF Reading
<1>7. CodeTypes'
  BY <1>1, <1>3 DEF CodeInv, CodeTypes
<1> QED BY <1>5, <1>6, <1>7 DEF CodeInv

LEMMA LayoutLengths ==
  ASSUME NEW cd, NEW u, NEW p, NEW g, NEW w, Layout(cd, u, p, g, w), NEW L \in Nat, L = Len(cd)
  PROVE  /\ p \in [1 .. L + 1 -> Nat] /\ w \in [1 .. L + 1 -> Nat] /\ g \in [1 .. L -> 0 .. Slots]
         /\ p[L + 1] \in Nat /\ w[L + 1] \in Nat
BY DEF Layout

LEMMA OpenGroupCode == SearchInv /\ CodeInv /\ OpenGroup => CodeInv'
<1> SUFFICES ASSUME SearchInv, CodeInv, OpenGroup
             PROVE  CodeInv'
  OBVIOUS
<1>1. /\ phase = "group" /\ cur <= len /\ outlen' = outlen + 1 /\ slot' = 0 /\ phase' = "prepare"
      /\ code' = Append(code, Control({}))
      /\ UNCHANGED <<input, cur, rd, taken, out, reader, bits, used, left>>
  BY DEF OpenGroup, decoder
<1>2. len \in Nat /\ cur \in Nat /\ len' = len /\ len = Len(input)
  BY <1>1, Spans DEF SearchInv, CursorTypes, len
<1>3. ~InLoop /\ InLoop'
  BY <1>1 DEF InLoop
<1>4. PICK p, g, w : Coding(p, g, w) /\ Reading(p, g, w)
  BY DEF CodeInv
<1>5. code \in Seq(Items) /\ outlen \in Nat
  BY DEF CodeInv, CodeTypes
<1>6. PICK L \in Nat : L = Len(code)
  BY <1>5, LenProperties
<1>7. PICK K \in Nat : K = L + 1
  BY <1>6
<1>8. Control({}) \in Items
  BY CodecNumbers DEF Control, Items
<1>9. /\ code' \in Seq(Items) /\ Len(code') = K /\ code'[K] = Control({})
      /\ \A n \in 1 .. L : code'[n] = code[n]
  BY <1>1, <1>5, <1>6, <1>7, <1>8, AppendProperties
<1>10. /\ Layout(code, input, p, g, w) /\ p[K] = cur /\ w[K] = L + Refs(code) /\ Between(p, g, w)
  BY <1>1, <1>4, <1>6, <1>7 DEF Coding
<1>26. Between(p, g, w) /\ L \in Nat /\ L = Len(code)
  BY <1>6, <1>10
<1>27. cur < len => /\ 2 * w[K] <= 3 * cur
                    /\ \/ L = 0 /\ outlen = 0
                       \/ L > 0 /\ g[L] = Slots /\ outlen = w[K]
  <2>1. cur < len => /\ 2 * w[Len(code) + 1] <= 3 * cur
                     /\ \/ Len(code) = 0 /\ outlen = 0
                        \/ Len(code) > 0 /\ g[Len(code)] = Slots /\ outlen = w[Len(code) + 1]
    BY <1>26 DEF Between
  <2>2. Len(code) = L /\ Len(code) + 1 = K
    BY <1>7, <1>26
  <2> QED BY <2>1, <2>2, Zenon
<1>28. cur = len => /\ 2 * w[K] <= 3 * len + 1
                    /\ \/ L = 0 /\ outlen = 0 /\ len = 0
                       \/ len > 0 /\ L > 0 /\ p[L] < len /\ outlen + 1 = w[K]
  <2>1. cur = len => /\ 2 * w[Len(code) + 1] <= 3 * len + 1
                     /\ \/ Len(code) = 0 /\ outlen = 0 /\ len = 0
                        \/ len > 0 /\ Len(code) > 0 /\ p[Len(code)] < len /\ outlen + 1 = w[Len(code) + 1]
    BY <1>26 DEF Between
  <2>2. Len(code) = L /\ Len(code) + 1 = K
    BY <1>7, <1>26
  <2> QED BY <2>1, <2>2, Zenon
<1>11. p \in [1 .. K -> Nat] /\ w \in [1 .. K -> Nat] /\ g \in [1 .. L -> 0 .. Slots] /\ p[K] \in Nat /\ w[K] \in Nat
  BY <1>6, <1>7, <1>10, LayoutLengths
<1>12. OneMore(code, code', g, L)
  <2>1. ASSUME NEW n \in 1 .. L, g[n] > 0
        PROVE  g[n] - 1 \in code'[n - g[n]].bits <=> g[n] - 1 \in code[n - g[n]].bits
    <3>1. ControlRight(code, input, p, g, w, n) \/ DataRight(code, input, p, g, w, n)
      BY <1>6, <1>10 DEF Layout
    <3>2. g[n] \in 1 .. n - 1
      BY <2>1, <3>1 DEF ControlRight, DataRight
    <3>3. n - g[n] \in 1 .. L
      BY <3>2
    <3> QED BY <1>9, <3>3
  <2> QED BY <1>6, <1>7, <1>9, <2>1 DEF OneMore
<1>13. PICK p2 : Extended(p, p2, K, cur, Nat)
  BY <1>2, <1>11, Extensions
<1>14. PICK d \in Nat : d = w[K] + 1
  BY <1>11
<1>15. PICK w2 : Extended(w, w2, K, d, Nat)
  BY <1>11, Extensions
<1>16. 0 \in 0 .. Slots
  BY CodecNumbers
<1>17. PICK g2 : Extended(g, g2, L, 0, 0 .. Slots)
  BY <1>11, <1>16, Extensions
<1>18. /\ p2[K + 1] = cur /\ w2[K + 1] = w[K] + 1 /\ g2[K] = 0
       /\ \A k \in 1 .. K : p2[k] = p[k] /\ w2[k] = w[k]
       /\ \A k \in 1 .. L : g2[k] = g[k]
  BY <1>7, <1>13, <1>14, <1>15, <1>17 DEF Extended
<1>19. ControlRight(code', input, p2, g2, w2, K)
  <2>1. K \in 1 .. K /\ (L > 0 => L \in 1 .. L /\ K - 1 = L) /\ (L = 0 => K = 1)
    BY <1>7
  <2>2. K = 1 \/ g2[K - 1] = Slots \/ cur = Len(input)
    BY <1>1, <1>2, <1>6, <1>10, <1>18, <2>1 DEF Between
  <2>3. code'[K].kind = "control"
    BY <1>9 DEF Control
  <2> QED BY <1>10, <1>18, <2>1, <2>2, <2>3 DEF ControlRight
<1>20. Layout(code', input, p2, g2, w2)
  <2>1. p[K] <= cur /\ w[K] <= d
    BY <1>2, <1>10, <1>11, <1>14
  <2> QED BY <1>2, <1>7, <1>10, <1>12, <1>13, <1>14, <1>15, <1>16, <1>17, <1>19, <2>1, LayoutGrows
<1>21. w2[K + 1] = K + Refs(code')
  <2>1. Refs(code') = Refs(code) /\ Refs(code) \in Nat
    <3>1. code'[L + 1].kind # "reference" /\ \A n \in 1 .. L : code'[n].kind = code[n].kind
      BY <1>7, <1>9 DEF Control
    <3> QED BY <1>5, <1>6, <1>7, <1>9, <3>1, RefsGrow
  <2> QED BY <1>7, <1>10, <1>18, <2>1
<1>22. Filling(p2, g2, w2)'
  <2>1. /\ K > 0 /\ K - 0 = K /\ g2[K] = 0 /\ 0 < K /\ code'[K].bits \subseteq 0 .. 0 - 1
    BY <1>7, <1>9, <1>18 DEF Control
  <2>2. cur < len => outlen + 1 = w2[K + 1] /\ 2 * w2[K + 1] + 0 <= 3 * cur + 2
    <3> SUFFICES ASSUME cur < len
                 PROVE  outlen + 1 = w2[K + 1] /\ 2 * w2[K + 1] + 0 <= 3 * cur + 2
      OBVIOUS
    <3>1. L = 0 => w[K] = 0
      BY <1>7, <1>10 DEF Layout
    <3>2. 2 * w[K] <= 3 * cur /\ ((L = 0 /\ outlen = 0) \/ (L > 0 /\ outlen = w[K]))
      BY <1>7, <1>27, <1>28
    <3>3. w2[K + 1] = w[K] + 1 /\ w[K] \in Nat
      BY <1>11, <1>18
    <3>4. outlen = w[K]
      BY <1>6, <3>1, <3>2
    <3>5. PICK v \in Nat : v = w[K]
      BY <3>3
    <3>6. 2 * v <= 3 * cur /\ w2[K + 1] = v + 1 /\ outlen = v
      BY <3>2, <3>3, <3>4, <3>5
    <3> QED BY <1>2, <3>6
  <2>3. cur = len => /\ 2 * w2[K + 1] <= 3 * len + 3
                     /\ \/ len = 0 /\ K = 1 /\ outlen + 1 = 1
                        \/ len > 0 /\ K > 1 /\ p2[K - 1] < len /\ (outlen + 1) + 1 = w2[K + 1]
    <3> SUFFICES ASSUME cur = len
                 PROVE  /\ 2 * w2[K + 1] <= 3 * len + 3
                        /\ \/ len = 0 /\ K = 1 /\ outlen + 1 = 1
                           \/ len > 0 /\ K > 1 /\ p2[K - 1] < len /\ (outlen + 1) + 1 = w2[K + 1]
      OBVIOUS
    <3>1. /\ 2 * w[K] <= 3 * len + 1
          /\ \/ L = 0 /\ outlen = 0 /\ len = 0
             \/ len > 0 /\ L > 0 /\ p[L] < len /\ outlen + 1 = w[K]
      BY <1>7, <1>27, <1>28
    <3>2. w2[K + 1] = w[K] + 1 /\ w[K] \in Nat
      BY <1>11, <1>18
    <3>3. 2 * w2[K + 1] <= 3 * len + 3
      BY <1>2, <3>1, <3>2
    <3>4. CASE L = 0 /\ outlen = 0 /\ len = 0
      BY <1>7, <3>3, <3>4
    <3>5. CASE len > 0 /\ L > 0 /\ p[L] < len /\ outlen + 1 = w[K]
      <4>1. L \in 1 .. K /\ K - 1 = L /\ K > 1
        BY <1>7, <3>5
      <4>2. p2[K - 1] < len
        BY <1>18, <3>5, <4>1
      <4>3. (outlen + 1) + 1 = w2[K + 1]
        BY <3>2, <3>5
      <4> QED BY <3>3, <3>5, <4>1, <4>2, <4>3
    <3> QED BY <3>1, <3>4, <3>5
  <2> QED BY <1>1, <1>2, <1>9, <2>1, <2>2, <2>3 DEF Filling
<1>23. Coding(p2, g2, w2)'
  BY <1>1, <1>3, <1>9, <1>18, <1>20, <1>21, <1>22 DEF Coding
<1>24. Reading(p2, g2, w2)'
  BY <1>3 DEF Reading
<1>25. CodeTypes'
  BY <1>1, <1>3, <1>9 DEF CodeInv, CodeTypes
<1> QED BY <1>23, <1>24, <1>25 DEF CodeInv

(* ce is cd and one item of d bytes, which decodes to the symbols of u from c
   to c2 and may set the bit s, its own, of the open control byte. *)
NewItem(cd, ce, u, s, c, c2, L, K, d) ==
  /\ L = Len(cd) /\ K = L + 1 /\ Len(ce) = K /\ ce \in Seq(Items) /\ d \in {1, 2}
  /\ \A n \in 1 .. L :
       /\ ce[n].kind = cd[n].kind /\ ce[n].sym = cd[n].sym
       /\ ce[n].dist = cd[n].dist /\ ce[n].size = cd[n].size
       /\ \A b : b # s \/ n # L - s => (b \in ce[n].bits <=> b \in cd[n].bits)
  /\ ce[L - s].bits \subseteq 0 .. s
  /\ Writes(ce[K], ce[L - s].bits, s, u, c, c2, d)
  /\ ce[K].kind = (IF d = 2 THEN "reference" ELSE "literal")
  /\ c2 \in Nat /\ c2 >= c + d /\ (d = 2 => c2 >= c + 3)
  /\ c2 <= Len(u) \/ (c = Len(u) /\ c2 = Len(u) + 1 /\ d = 1)

(* The new bit belongs to none of the items before it. *)
LEMMA NewItemIsOneMore ==
  ASSUME NEW cd, NEW ce, NEW u, NEW s \in Nat, NEW c, NEW c2, NEW L \in Nat, NEW K, NEW d,
         NewItem(cd, ce, u, s, c, c2, L, K, d), NEW p, NEW g, NEW w, Layout(cd, u, p, g, w)
  PROVE  OneMore(cd, ce, g, L)
<1>1. L = Len(cd) /\ Len(ce) = L + 1
  BY DEF NewItem
<1>2. ASSUME NEW n \in 1 .. L, g[n] > 0
      PROVE  g[n] - 1 \in ce[n - g[n]].bits <=> g[n] - 1 \in cd[n - g[n]].bits
  <2>1. ControlRight(cd, u, p, g, w, n) \/ DataRight(cd, u, p, g, w, n)
    BY <1>1 DEF Layout
  <2>2. g[n] \in 1 .. n - 1
    BY <1>2, <2>1 DEF ControlRight, DataRight
  <2>3. PICK m \in 1 .. L : m = n - g[n]
    BY <2>2
  <2>4. PICK b \in Nat : b = g[n] - 1
    BY <2>2
  <2>5. b # s \/ m # L - s
    BY <2>2, <2>3, <2>4
  <2>6. b \in ce[m].bits <=> b \in cd[m].bits
    BY <2>5 DEF NewItem
  <2> QED BY <2>3, <2>4, <2>6
<1>3. \A n \in 1 .. L : /\ ce[n].kind = cd[n].kind /\ ce[n].sym = cd[n].sym
                       /\ ce[n].dist = cd[n].dist /\ ce[n].size = cd[n].size
  BY DEF NewItem
<1> QED BY <1>1, <1>2, <1>3 DEF OneMore

(* Three halves of the bytes an item stands for pay for it and for the bit. *)
LEMMA ItemSize ==
  ASSUME NEW a \in Nat, NEW b \in Nat, NEW m \in Nat, NEW d \in {1, 2}, b >= a + d, d = 2 => b >= a + 3,
         NEW v \in Nat, NEW e \in Nat, e = v + d, 2 * v + m <= 3 * a + 2
  PROVE  2 * e + (m + 1) <= 3 * b + 2
OBVIOUS

Recorded(d) == outlen' = outlen + Counted(d)

(* What both branches of Put come to: one item of d bytes for the symbols from
   cur to cur'. *)
LEMMA ItemWritten ==
  ASSUME SearchInv, CodeInv, Emit, NEW L \in Nat, NEW K \in Nat, NEW d \in Nat,
         NewItem(code, code', input, slot, cur, cur', L, K, d), Recorded(d)
  PROVE  CodeInv'
<1>0. L = Len(code) /\ K = L + 1 /\ Len(code') = K
  BY DEF NewItem
<1> USE <1>0
<1>01. code' \in Seq(Items)
  BY DEF NewItem
<1>1. /\ phase = "emit" /\ InLoop
      /\ \/ cur' >= len /\ phase' = "group" /\ slot' = slot
         \/ ~(cur' >= len) /\ slot' = slot + 1 /\ phase' = (IF LastSlot THEN "group" ELSE "prepare")
      /\ UNCHANGED <<input, rd, taken, out, reader, bits, used, left>>
  BY DEF Emit, decoder, InLoop
<1>2. len \in Nat /\ cur \in Nat /\ len' = len /\ len = Len(input) /\ cur <= len /\ slot < Slots /\ slot \in Nat
  BY <1>1, Spans DEF SearchInv, CursorTypes, LoopState, len
<1>3. PICK p, g, w : Coding(p, g, w) /\ Reading(p, g, w)
  BY DEF CodeInv
<1>4. code \in Seq(Items) /\ outlen \in Nat
  BY DEF CodeInv, CodeTypes
<1>5. Layout(code, input, p, g, w) /\ p[K] = cur /\ w[K] = L + Refs(code) /\ Filling(p, g, w)
  BY <1>1, <1>3 DEF Coding
<1>6. /\ p \in [1 .. K -> Nat] /\ w \in [1 .. K -> Nat] /\ g \in [1 .. L -> 0 .. Slots] /\ p[K] \in Nat /\ w[K] \in Nat
      /\ OneMore(code, code', g, L)
  BY <1>2, <1>5, LayoutLengths, NewItemIsOneMore, SMTT(60)
<1>62. /\ d \in {1, 2} /\ cur' \in Nat /\ cur' >= cur + d /\ (d = 2 => cur' >= cur + 3)
       /\ cur' <= len \/ (cur = len /\ cur' = len + 1 /\ d = 1)
  BY <1>2 DEF NewItem
<1>63. /\ Writes(code'[K], code'[L - slot].bits, slot, input, cur, cur', d)
       /\ code'[K].kind = (IF d = 2 THEN "reference" ELSE "literal")
       /\ code'[L - slot].bits \subseteq 0 .. slot
  BY <1>2 DEF NewItem
<1>7. /\ L > 0 /\ g[L] = slot /\ slot < L
      /\ cur < len => outlen = w[K] /\ 2 * w[K] + slot <= 3 * cur + 2
      /\ cur = len => /\ slot = 0 /\ 2 * w[K] <= 3 * len + 3
                      /\ \/ len = 0 /\ L = 1 /\ outlen = 1
                         \/ len > 0 /\ L > 1 /\ p[L - 1] < len /\ outlen + 1 = w[K]
  BY <1>5 DEF Filling
<1>71. cur = len => \/ len = 0 /\ L = 1 /\ outlen = 1
                    \/ len > 0 /\ L > 1 /\ p[L - 1] < len /\ outlen + 1 = w[K]
  BY <1>7
<1>72. ASSUME cur = len, len = 0
       PROVE  L = 1 /\ K = 2 /\ outlen = 1
  <2>1. ~(len > 0)
    BY <1>72
  <2>2. L = 1 /\ outlen = 1
    BY <1>71, <1>72, <2>1
  <2> QED BY <2>2
<1>73. ASSUME cur = len, len > 0
       PROVE  L > 1 /\ p[L - 1] < len /\ outlen + 1 = w[K]
  <2>1. ~(len = 0)
    BY <1>2, <1>73
  <2> QED BY <1>71, <1>73, <2>1
<1>8. PICK p2 : Extended(p, p2, K, cur', Nat)
  BY <1>2, <1>6, <1>62, Extensions
<1>9. PICK e \in Nat : e = w[K] + d
  BY <1>6
<1>10. PICK w2 : Extended(w, w2, K, e, Nat)
  BY <1>6, Extensions
<1>11. PICK q \in 0 .. Slots : q = slot + 1
  BY <1>2, <1>62, CodecNumbers
<1>12. PICK g2 : Extended(g, g2, L, q, 0 .. Slots)
  BY <1>6, Extensions
<1>13. /\ p2[K + 1] = cur' /\ w2[K + 1] = w[K] + d /\ g2[K] = slot + 1
       /\ \A k \in 1 .. K : p2[k] = p[k] /\ w2[k] = w[k]
       /\ \A k \in 1 .. L : g2[k] = g[k]
  BY <1>8, <1>9, <1>10, <1>11, <1>12 DEF Extended
<1>14. DataRight(code', input, p2, g2, w2, K)
  <2>1. K \in 1 .. K /\ L \in 1 .. L /\ K - 1 = L /\ slot + 1 \in 1 .. K - 1 /\ K - (slot + 1) = L - slot
        /\ (slot + 1) - 1 = slot
    BY <1>2, <1>62, <1>7
  <2>2. p2[K] = cur /\ g2[K - 1] = slot /\ w2[K + 1] - w2[K] = d
    BY <1>5, <1>6, <1>7, <1>13, <2>1
  <2> QED BY <1>2, <1>62, <1>63, <1>13, <2>1, <2>2 DEF DataRight
<1>15. Layout(code', input, p2, g2, w2)
  <2>1. p[K] <= cur' /\ w[K] <= e
    BY <1>2, <1>5, <1>6, <1>62, <1>9
  <2> QED BY <1>2, <1>62, <1>5, <1>6, <1>8, <1>9, <1>10, <1>11, <1>12, <1>14, <2>1, LayoutGrows
<1>16. w2[K + 1] = K + Refs(code')
  <2>1. /\ Refs(code) \in Nat
        /\ Refs(code') = IF code'[K].kind = "reference" THEN Refs(code) + 1 ELSE Refs(code)
    <3>1. \A n \in 1 .. L : code'[n].kind = code[n].kind
      BY <1>6 DEF OneMore
    <3> QED BY <1>01, <1>4, <3>1, RefsGrow
  <2> QED BY <1>5, <1>62, <1>63, <1>13, <2>1
<1>64. 2 * w[K] + slot <= 3 * cur + 2 => 2 * e + (slot + 1) <= 3 * cur' + 2
  <2>1. PICK v \in Nat : v = w[K]
    BY <1>6
  <2>2. e = v + d /\ d \in {1, 2} /\ cur' \in Nat /\ cur' >= cur + d /\ (d = 2 => cur' >= cur + 3)
    BY <1>9, <1>62, <2>1
  <2>3. cur \in Nat /\ slot \in Nat
    BY <1>2
  <2>4. 2 * v + slot <= 3 * cur + 2 => 2 * e + (slot + 1) <= 3 * cur' + 2
    BY <2>2, <2>3, ItemSize
  <2> QED BY <2>1, <2>4
<1>17. CASE cur < len /\ cur' < len
  <2>1. /\ slot' = slot + 1 /\ phase' = (IF slot + 1 = Slots THEN "group" ELSE "prepare")
        /\ outlen' = outlen + d
    BY <1>1, <1>2, <1>62, <1>4, <1>17 DEF Recorded, LastSlot, Counted
  <2>2. outlen' = w2[K + 1] /\ 2 * w2[K + 1] + (slot + 1) <= 3 * cur' + 2
    <3>1. outlen = w[K] /\ 2 * w[K] + slot <= 3 * cur + 2 /\ w2[K + 1] = e /\ outlen' = e /\ w[K] \in Nat
      BY <1>4, <1>6, <1>7, <1>9, <1>13, <1>17, <2>1
    <3>2. 2 * e + (slot + 1) <= 3 * cur' + 2
      BY <1>64, <3>1
    <3> QED BY <1>2, <1>62, <3>1, <3>2
  <2>3. CASE slot + 1 = Slots
    <3>1. 2 * w2[K + 1] <= 3 * cur' /\ g2[K] = Slots
      <4>1. w2[K + 1] = e
        BY <1>9, <1>13
      <4> QED BY <1>62, <1>13, <2>2, <2>3, <4>1, CodecNumbers, SMTT(60)
    <3>2. Between(p2, g2, w2)'
      BY <1>2, <1>62, <1>4, <1>17, <2>2, <3>1, SMTT(60) DEF Between
    <3>3. ~InLoop' /\ phase' = "group"
      BY <2>1, <2>3 DEF InLoop
    <3>4. Coding(p2, g2, w2)' /\ Reading(p2, g2, w2)'
      BY <1>1, <1>4, <1>13, <1>15, <1>16, <3>2, <3>3 DEF Coding, Reading
    <3>5. CodeTypes'
      BY <1>01, <1>1, <1>4, <2>1, <3>3 DEF CodeInv, CodeTypes
    <3> QED BY <3>4, <3>5 DEF CodeInv
  <2>4. CASE slot + 1 # Slots
    <3>1. phase' = "prepare" /\ InLoop'
      BY <2>1, <2>4 DEF InLoop
    <3>2. Filling(p2, g2, w2)'
      <4>1. K - (slot + 1) = L - slot /\ K > 0 /\ slot + 1 < K
        BY <1>2, <1>62, <1>7
      <4>2. code'[K - (slot + 1)].bits \subseteq 0 .. (slot + 1) - 1
        BY <1>2, <1>63, <4>1
      <4>3. code'[Len(code') - slot'].bits \subseteq 0 .. slot' - 1 /\ g2[Len(code')] = slot' /\ slot' < Len(code')
        BY <1>13, <2>1, <4>1, <4>2
      <4>4. cur' < len => outlen' = w2[Len(code') + 1] /\ 2 * w2[Len(code') + 1] + slot' <= 3 * cur' + 2
        BY <2>1, <2>2
      <4>5. cur' # len
        BY <1>2, <1>62, <1>17
      <4> QED BY <1>2, <4>1, <4>3, <4>4, <4>5 DEF Filling
    <3>3. Coding(p2, g2, w2)' /\ Reading(p2, g2, w2)'
      BY <1>1, <1>4, <1>13, <1>15, <1>16, <3>1, <3>2 DEF Coding, Reading
    <3>4. CodeTypes'
      BY <1>01, <1>1, <1>4, <2>1, <3>1 DEF CodeInv, CodeTypes
    <3> QED BY <3>3, <3>4 DEF CodeInv
  <2> QED BY <2>3, <2>4
<1>18. CASE cur < len /\ cur' = len
  <2>1. phase' = "group" /\ ~InLoop' /\ outlen' = outlen + (d - 1)
    BY <1>1, <1>2, <1>62, <1>4, <1>18 DEF Recorded, Counted, InLoop
  <2>2. /\ outlen' + 1 = w2[K + 1] /\ 2 * w2[K + 1] <= 3 * len + 1 /\ p2[K] < len /\ len > 0 /\ K > 0
        /\ outlen' \in Nat
    <3>1. K \in 1 .. K
      BY <1>7
    <3>2. outlen = w[K] /\ 2 * w[K] + slot <= 3 * cur + 2 /\ w2[K + 1] = e /\ outlen' + 1 = e /\ w[K] \in Nat /\ e >= 1
      BY <1>4, <1>6, <1>62, <1>7, <1>9, <1>13, <1>18, <2>1, SMTT(60)
    <3>3. 2 * e + (slot + 1) <= 3 * cur' + 2
      BY <1>64, <3>2
    <3>4. outlen' \in Nat
      BY <1>4, <1>62, <2>1
    <3>5. p2[K] < len /\ len > 0 /\ K > 0
      BY <1>2, <1>5, <1>13, <1>18, <3>1
    <3>6. 2 * e <= 3 * len + 1
      BY <1>2, <1>18, <3>3
    <3> QED BY <1>2, <3>2, <3>4, <3>5, <3>6
  <2>3. Between(p2, g2, w2)'
    BY <1>2, <1>62, <1>4, <1>18, <2>2 DEF Between
  <2>4. Coding(p2, g2, w2)' /\ Reading(p2, g2, w2)'
    BY <1>1, <1>4, <1>13, <1>15, <1>16, <2>1, <2>3 DEF Coding, Reading
  <2>5. CodeTypes'
    BY <1>01, <1>1, <1>4, <2>1, <2>2 DEF CodeInv, CodeTypes
  <2> QED BY <2>4, <2>5 DEF CodeInv
<1>19. CASE cur = len
  <2>1. /\ phase' = "group" /\ ~InLoop' /\ outlen' = outlen /\ cur' = len + 1 /\ d = 1 /\ slot = 0
    BY <1>1, <1>2, <1>4, <1>62, <1>7, <1>19 DEF Recorded, Counted, InLoop
  <2>2. p[L] = len /\ w[K] = w[L] + 1
    <3>1. L \in 1 .. L /\ g[L] = 0
      BY <1>7, <2>1
    <3>2. ControlRight(code, input, p, g, w, L)
      BY <1>5, <3>1 DEF Layout, DataRight
    <3> QED BY <1>5, <1>19, <3>2 DEF ControlRight
  <2>3. /\ L \in 1 .. K /\ K \in 1 .. K /\ K - 1 = L /\ (L > 1 => K - 2 = L - 1 /\ L - 1 \in 1 .. K)
    BY <1>7
  <2>4. w[L] \in Nat
    BY <1>6, <2>3
  <2>5. Closed(p2, w2)'
    <3>1. K >= 2 /\ 2 * w2[K + 1] <= 3 * len + 5
      <4>1. w2[K + 1] = e /\ w[K] \in Nat /\ 2 * w[K] <= 3 * len + 3
        BY <1>6, <1>7, <1>9, <1>13, <1>19
      <4>2. 2 * e <= 3 * len + 5
        <5>1. PICK v \in Nat : v = w[K]
          BY <4>1
        <5>2. 2 * v <= 3 * len + 3 /\ e = v + 1
          BY <1>9, <2>1, <4>1, <5>1
        <5> QED BY <1>2, <5>2
      <4> QED BY <1>7, <4>1, <4>2
    <3>2. len = 0 => K = 2 /\ outlen = 1 /\ w2[2] = 1
      <4>1. ASSUME len = 0
            PROVE  w2[2] = 1
        <5>1. L = 1 /\ K = 2
          BY <1>72, <1>19, <4>1
        <5>2. w[1] = 0
          BY <1>5 DEF Layout
        <5>3. w[K] = 1 /\ w2[K] = w[K]
          BY <1>13, <2>2, <2>3, <5>1, <5>2
        <5> QED BY <5>1, <5>3
      <4> QED BY <1>72, <1>19, <4>1
    <3>3. len > 0 => /\ K >= 3 /\ p2[K - 2] < len /\ p2[K - 1] = len /\ p2[K] = len
                     /\ outlen = w2[K - 1] /\ w2[K] = outlen + 1
      <4>1. ASSUME len > 0
            PROVE  L > 1 /\ p[L - 1] < len /\ outlen + 1 = w[K] /\ K - 2 = L - 1 /\ K - 1 = L /\ L - 1 \in 1 .. K
        <5>1. L > 1 /\ p[L - 1] < len /\ outlen + 1 = w[K]
          BY <1>73, <1>19, <4>1
        <5> QED BY <2>3, <5>1
      <4>2. ASSUME len > 0
            PROVE  p2[K - 2] < len /\ p2[K - 1] = len /\ p2[K] = len
        BY <1>5, <1>13, <1>19, <2>2, <2>3, <4>1, <4>2
      <4>3. ASSUME len > 0
            PROVE  w2[K - 1] = w[L] /\ w2[K] = w[K]
        BY <1>13, <2>3, <4>1, <4>3
      <4>4. len > 0 => outlen = w[L] /\ K >= 3
        BY <1>4, <2>2, <2>4, <4>1
      <4> QED BY <4>1, <4>2, <4>3, <4>4
    <3> QED BY <1>2, <1>62, <1>4, <2>1, <3>1, <3>2, <3>3 DEF Closed
  <2>6. Between(p2, g2, w2)'
    BY <1>2, <1>62, <2>1, <2>5 DEF Between
  <2>7. Coding(p2, g2, w2)' /\ Reading(p2, g2, w2)'
    BY <1>1, <1>4, <1>13, <1>15, <1>16, <2>1, <2>6 DEF Coding, Reading
  <2>8. CodeTypes'
    BY <1>01, <1>1, <1>4, <2>1 DEF CodeInv, CodeTypes
  <2> QED BY <2>7, <2>8 DEF CodeInv
<1> QED BY <1>2, <1>62, <1>17, <1>18, <1>19

LEMMA Residue ==
  ASSUME NEW a \in Nat, NEW c \in Nat, a < c
  PROVE  a % c = a
OBVIOUS

(* An accepted match fits the fields of the reference. *)
LEMMA ReferenceItem ==
  ASSUME SearchInv, CodeInv, Emit, Accepted, NEW L \in Nat, L = Len(code), NEW K \in Nat, K = L + 1
  PROVE  /\ NewItem(code, code', input, slot, cur, cur', L, K, 2)
         /\ Recorded(2)
<1>1. /\ phase = "emit" /\ InLoop /\ match >= AcceptLevel /\ match \in Nat /\ best \in Nat
      /\ code' = Append(code, Reference(Back - best, match - 2)) /\ cur' = cur + match
      /\ outlen' = outlen + Counted(2)
  BY DEF Emit, Put, Accepted, InLoop, SearchInv, CursorTypes
<1>2. /\ len \in Nat /\ cur \in Nat /\ len = Len(input) /\ slot \in 0 .. Slots - 1 /\ slot \in Nat
      /\ Back \in Nat /\ Back <= Window /\ Back <= cur /\ Ahead \in Nat /\ Ahead <= Level /\ cur + Ahead <= len
  BY <1>1, Spans, CodecNumbers, SMTT(60) DEF SearchInv, CursorTypes, LoopState, len
<1>3. match <= Ahead /\ best < Back /\ Fits(input, cur, Back, best, match) /\ match >= 3
  BY <1>1, CodecNumbers DEF SearchInv, EmitState, AcceptLevel
<1>4. PICK a \in Nat : a = Back - best
  BY <1>1, <1>2, <1>3
<1>5. PICK n \in Nat : n = match - 2
  BY <1>1, <1>3
<1>6. a >= 1 /\ a <= cur /\ a < Window + 1 /\ n < Nibble
  BY <1>1, <1>2, <1>3, <1>4, <1>5, CodecNumbers
<1>7. a % (Window + 1) = a /\ n % Nibble = n
  <2>1. Window + 1 \in Nat /\ Nibble \in Nat
    BY CodecNumbers
  <2> QED BY <1>6, <2>1, Residue
<1>8. DEFINE e == [kind |-> "reference", bits |-> {}, sym |-> 0, dist |-> a, size |-> n]
<1>9. Reference(Back - best, match - 2) = e
  BY <1>4, <1>5, <1>7 DEF Reference
<1>10. e \in Items
  BY <1>6, CodecNumbers DEF Items
<1>11. e.kind = "reference" /\ e.dist = a /\ e.size = n
  OBVIOUS
<1> HIDE DEF e
<1>12. code \in Seq(Items)
  BY DEF CodeInv, CodeTypes
<1>13. /\ code' \in Seq(Items) /\ Len(code') = K /\ code'[K] = e
       /\ \A k \in 1 .. L : code'[k] = code[k]
  BY <1>1, <1>9, <1>10, <1>12, AppendProperties
<1>14. L > 0 /\ slot < L /\ code[L - slot].bits \subseteq 0 .. slot - 1
  BY <1>1 DEF CodeInv, Coding, Filling
<1>15. code'[L - slot].bits = code[L - slot].bits
  BY <1>2, <1>13, <1>14
<1>16. slot \notin code[L - slot].bits /\ code[L - slot].bits \subseteq 0 .. slot
  <2>1. slot \notin 0 .. slot - 1 /\ 0 .. slot - 1 \subseteq 0 .. slot
    BY <1>2
  <2> QED BY <1>14, <2>1
<1>17. cur' \in Nat /\ cur' = cur + n + 2 /\ cur' <= len /\ cur' >= cur + 3
  BY <1>1, <1>2, <1>3, <1>5, SMTT(60)
<1>18. ASSUME NEW k \in 0 .. n + 1
       PROVE  input[cur + k + 1] = input[cur + k + 1 - a]
  <2>1. k \in 0 .. match - 1 /\ cur - Back + best + k + 1 = cur + k + 1 - a
    BY <1>1, <1>2, <1>4, <1>5
  <2>2. input[cur + k + 1] = input[cur - Back + best + k + 1]
    BY <1>3, <2>1 DEF Fits
  <2> QED BY <2>1, <2>2
<1>19. Writes(e, code[L - slot].bits, slot, input, cur, cur', 2)
  <2>1. a \in 1 .. cur
    BY <1>2, <1>6
  <2> QED BY <1>2, <1>11, <1>16, <1>17, <1>18, <2>1 DEF Writes
<1>20. NewItem(code, code', input, slot, cur, cur', L, K, 2)
  <2>1. cur' >= cur + 2 /\ cur' <= Len(input)
    BY <1>2, <1>17
  <2> QED BY <1>11, <1>13, <1>15, <1>16, <1>17, <1>19, <2>1 DEF NewItem
<1> QED BY <1>1, <1>20 DEF Recorded

(* A literal sets its bit in the control byte of its group. *)
LEMMA LiteralItem ==
  ASSUME SearchInv, CodeInv, Emit, ~Accepted, NEW L \in Nat, L = Len(code), NEW K \in Nat, K = L + 1
  PROVE  /\ NewItem(code, code', input, slot, cur, cur', L, K, 1)
         /\ Recorded(1)
<1>1. /\ phase = "emit" /\ InLoop /\ cur' = cur + 1 /\ outlen' = outlen + Counted(1)
  BY DEF Emit, Put, InLoop
<1>2. PICK s \in Symbols :
        /\ cur < len => s = Comp(0)
        /\ code' = Append([code EXCEPT ![Open].bits = @ \cup {slot}], Literal(s))
  BY DEF Emit, Put
<1>3. /\ len \in Nat /\ cur \in Nat /\ len = Len(input) /\ slot \in 0 .. Slots - 1 /\ slot \in Nat /\ cur <= len
  BY <1>1, Spans, CodecNumbers DEF SearchInv, CursorTypes, LoopState, len
<1>4. code \in Seq(Items)
  BY DEF CodeInv, CodeTypes
<1>5. L > 0 /\ slot < L /\ code[L - slot].bits \subseteq 0 .. slot - 1
  BY <1>1 DEF CodeInv, Coding, Filling
<1>6. PICK o \in 1 .. L : o = L - slot
  BY <1>3, <1>5
<1> DEFINE f == [code[o] EXCEPT !.bits = @ \cup {slot}]
           cd == [code EXCEPT ![o] = f]
           e == Literal(s)
<1>7. Open = o
  BY <1>6 DEF Open
<1>8. code' = Append(cd, e)
  BY <1>2, <1>7
<1>9. code[o] \in Items
  BY <1>4, ElementOfSeq
<1>10. /\ f \in Items /\ f.bits = code[o].bits \cup {slot}
       /\ f.kind = code[o].kind /\ f.sym = code[o].sym /\ f.dist = code[o].dist /\ f.size = code[o].size
  BY <1>3, <1>9 DEF Items
<1>11. e \in Items /\ e.kind = "literal" /\ e.sym = s
  BY CodecNumbers DEF Literal, Items
<1> HIDE DEF f, e
<1>12. cd \in Seq(Items) /\ Len(cd) = L /\ cd[o] = f /\ \A k \in 1 .. L : k # o => cd[k] = code[k]
  BY <1>4, <1>10, ExceptSeq
<1> HIDE DEF cd
<1>13. /\ code' \in Seq(Items) /\ Len(code') = K /\ code'[K] = e
       /\ \A k \in 1 .. L : code'[k] = cd[k]
  BY <1>8, <1>11, <1>12, AppendProperties
<1>14. code'[L - slot].bits = code[o].bits \cup {slot}
  BY <1>6, <1>10, <1>12, <1>13
<1>15. slot \in code'[L - slot].bits /\ code'[L - slot].bits \subseteq 0 .. slot
  <2>1. slot \in 0 .. slot /\ 0 .. slot - 1 \subseteq 0 .. slot
    BY <1>3
  <2>2. code[o].bits \subseteq 0 .. slot - 1
    BY <1>5, <1>6
  <2> QED BY <1>14, <2>1, <2>2
<1>16. ASSUME NEW n \in 1 .. L
       PROVE  /\ code'[n].kind = code[n].kind /\ code'[n].sym = code[n].sym
              /\ code'[n].dist = code[n].dist /\ code'[n].size = code[n].size
              /\ \A b : b # slot \/ n # L - slot => (b \in code'[n].bits <=> b \in code[n].bits)
  <2>1. CASE n = o
    BY <1>6, <1>10, <1>12, <1>13, <2>1
  <2>2. CASE n # o
    BY <1>12, <1>13, <2>2
  <2> QED BY <2>1, <2>2
<1>17. cur < Len(input) => s = input[cur + 1]
  BY <1>2, <1>3 DEF Comp
<1>18. Writes(e, code'[L - slot].bits, slot, input, cur, cur', 1)
  BY <1>1, <1>11, <1>15, <1>17 DEF Writes
<1>19. cur' \in Nat /\ cur' >= cur + 1 /\ (cur' <= Len(input) \/ (cur = Len(input) /\ cur' = Len(input) + 1))
  BY <1>1, <1>3
<1>20. NewItem(code, code', input, slot, cur, cur', L, K, 1)
  BY <1>11, <1>13, <1>15, <1>16, <1>18, <1>19 DEF NewItem
<1> QED BY <1>1, <1>20 DEF Recorded

LEMMA EmitCode == SearchInv /\ CodeInv /\ Emit => CodeInv'
<1> SUFFICES ASSUME SearchInv, CodeInv, Emit
             PROVE  CodeInv'
  OBVIOUS
<1>1. code \in Seq(Items)
  BY DEF CodeInv, CodeTypes
<1>2. PICK L \in Nat : L = Len(code)
  BY <1>1, LenProperties
<1>3. PICK K \in Nat : K = L + 1
  BY <1>2
<1>4. CASE Accepted
  BY <1>2, <1>3, <1>4, ReferenceItem, ItemWritten
<1>5. CASE ~Accepted
  BY <1>2, <1>3, <1>5, LiteralItem, ItemWritten
<1> QED BY <1>4, <1>5

(* The steps of the search write nothing. *)
LEMMA SearchCode ==
  SearchInv /\ CodeInv /\ (Prepare \/ TableStep \/ TableEnd \/ SearchStep \/ SearchEnd) => CodeInv'
<1>1. ASSUME CodeInv, Prepare \/ TableStep \/ TableEnd \/ SearchStep \/ SearchEnd
      PROVE  InLoop /\ InLoop' /\ UNCHANGED <<input, cur, slot, code, outlen, decoder>>
  <2>1. CASE Prepare
    BY <2>1 DEF Prepare, InLoop
  <2>2. CASE TableStep
    BY <2>2 DEF TableStep, InLoop
  <2>3. CASE TableEnd
    BY <2>3 DEF TableEnd, InLoop, encoder
  <2>4. CASE SearchStep
    BY <2>4 DEF SearchStep, InLoop
  <2>5. CASE SearchEnd
    BY <2>5 DEF SearchEnd, InLoop, encoder
  <2> QED BY <1>1, <2>1, <2>2, <2>3, <2>4, <2>5
<1> QED BY <1>1, QuietCode

-----------------------------------------------------------------------------
(* The code is whole: what the decoders meet in it. *)

LEMMA ItemKinds ==
  ASSUME NEW cd, NEW u, NEW p, NEW g, NEW w, NEW L \in Nat, L = Len(cd), Layout(cd, u, p, g, w),
         NEW n \in 1 .. L
  PROVE  (g[n] = 0 => ControlRight(cd, u, p, g, w, n)) /\ (g[n] # 0 => DataRight(cd, u, p, g, w, n))
<1>1. ControlRight(cd, u, p, g, w, n) \/ DataRight(cd, u, p, g, w, n)
  BY DEF Layout
<1>2. ControlRight(cd, u, p, g, w, n) => g[n] = 0
  BY DEF ControlRight
<1>3. DataRight(cd, u, p, g, w, n) => g[n] \in 1 .. n - 1
  BY DEF DataRight
<1>4. 0 \notin 1 .. n - 1
  OBVIOUS
<1> QED BY <1>1, <1>2, <1>3, <1>4

LEMMA FirstIsControl ==
  ASSUME NEW cd, NEW u, NEW p, NEW g, NEW w, NEW L \in Nat, L = Len(cd), L > 0, Layout(cd, u, p, g, w)
  PROVE  g[1] = 0 /\ p[2] = 0
<1>1. 1 \in 1 .. L /\ ~ \E k : k \in 1 .. 1 - 1
  OBVIOUS
<1>2. g[1] = 0
  BY <1>1, ItemKinds DEF DataRight
<1>3. ControlRight(cd, u, p, g, w, 1) /\ p[1] = 0
  BY <1>1, <1>2, ItemKinds DEF Layout
<1> QED BY <1>2, <1>3 DEF ControlRight

(* The item that ends the input is followed by a control byte and a literal. *)
Whole(p, g, w, L, N) ==
  /\ p \in [1 .. L + 1 -> Nat] /\ w \in [1 .. L + 1 -> Nat] /\ g \in [1 .. L -> 0 .. Slots]
  /\ L >= 2 /\ (N > 0 => L >= 3) /\ p[1] = 0 /\ w[1] = 0 /\ g[1] = 0
  /\ \A n \in 1 .. L : /\ p[n] <= N /\ w[n] <= outlen + 1
                       /\ p[n] < N => n + 2 <= L
                       /\ g[n] = 0 => n < L
                       /\ N = 0 \/ n < L => w[n] <= outlen
                       /\ N > 0 /\ n < L /\ p[n] = N => w[n] = outlen

LEMMA CodeIsWhole ==
  ASSUME NEW p, NEW g, NEW w, NEW L \in Nat, L = Len(code), NEW N \in Nat, N = len, N = Len(input), outlen \in Nat,
         Layout(code, input, p, g, w), Closed(p, w), p[L + 1] = cur
  PROVE  Whole(p, g, w, L, N)
<1>1. /\ p \in [1 .. L + 1 -> Nat] /\ w \in [1 .. L + 1 -> Nat] /\ g \in [1 .. L -> 0 .. Slots]
      /\ p[1] = 0 /\ w[1] = 0
      /\ \A m, n \in 1 .. L + 1 : m <= n => p[m] <= p[n] /\ w[m] <= w[n]
  BY DEF Layout
<1>2. /\ L >= 2 /\ p[L + 1] = N + 1
      /\ N = 0 => L = 2 /\ outlen = 1 /\ w[2] = 1
      /\ N > 0 => L >= 3 /\ p[L - 2] < N /\ p[L - 1] = N /\ p[L] = N /\ outlen = w[L - 1] /\ w[L] = outlen + 1
  BY DEF Closed
<1>3. g[1] = 0 /\ p[2] = 0
  BY <1>2, FirstIsControl
<1>4. p[L] = N /\ w[L] <= outlen + 1 /\ (N = 0 => w[L] <= outlen)
  <2>1. CASE N = 0
    <3>1. p[L] = 0 /\ w[L] = 1 /\ outlen = 1
      BY <1>2, <1>3, <2>1
    <3> QED BY <2>1, <3>1
  <2>2. CASE N > 0
    <3>1. p[L] = N /\ w[L] = outlen + 1
      BY <1>2, <2>2
    <3> QED BY <2>2, <3>1
  <2> QED BY <2>1, <2>2
<1>5. ASSUME NEW n \in 1 .. L
      PROVE  /\ p[n] <= N /\ w[n] <= outlen + 1
             /\ p[n] < N => n + 2 <= L
             /\ g[n] = 0 => n < L
             /\ N = 0 \/ n < L => w[n] <= outlen
             /\ N > 0 /\ n < L /\ p[n] = N => w[n] = outlen
  <2>1. n \in 1 .. L + 1 /\ L \in 1 .. L + 1 /\ n <= L
    BY <1>2
  <2>2. p[n] <= p[L] /\ w[n] <= w[L] /\ p[n] \in Nat /\ w[n] \in Nat /\ w[L] \in Nat
    BY <1>1, <2>1
  <2>3. p[n] <= N /\ w[n] <= outlen + 1 /\ (N = 0 => w[n] <= outlen)
    BY <1>4, <2>2
  <2>7. ASSUME n < L, N > 0
        PROVE  w[n] <= outlen
    <3>1. L - 1 \in 1 .. L + 1 /\ n <= L - 1
      BY <1>2, <2>7
    <3>2. w[n] <= w[L - 1] /\ w[L - 1] = outlen
      BY <1>1, <1>2, <2>1, <2>7, <3>1
    <3> QED BY <3>2
  <2>8. N = 0 \/ n < L => w[n] <= outlen
    <3>1. N = 0 \/ N > 0
      OBVIOUS
    <3> QED BY <2>3, <2>7, <3>1
  <2>4. ASSUME p[n] < N, ~(n + 2 <= L)
        PROVE  FALSE
    <3>1. N > 0
      BY <2>2, <2>4
    <3>2. L - 1 \in 1 .. L + 1 /\ L - 1 <= n
      BY <1>2, <2>4
    <3>3. p[L - 1] <= p[n] /\ p[L - 1] = N
      BY <1>1, <1>2, <2>1, <3>1, <3>2
    <3> QED BY <2>2, <2>4, <3>3
  <2>5. ASSUME g[n] = 0, ~(n < L)
        PROVE  FALSE
    <3>1. n = L
      BY <2>5
    <3>2. ControlRight(code, input, p, g, w, n)
      BY <2>5, ItemKinds
    <3>3. p[L + 1] = p[L]
      BY <3>1, <3>2 DEF ControlRight
    <3> QED BY <1>2, <1>4, <3>3
  <2>6. ASSUME N > 0, n < L, p[n] = N
        PROVE  w[n] = outlen
    <3>1. ~(n <= L - 2)
      <4>1. ASSUME n <= L - 2
            PROVE  FALSE
        <5>1. L - 2 \in 1 .. L + 1
          BY <1>2, <2>6
        <5>2. p[n] <= p[L - 2] /\ p[L - 2] < N /\ p[L - 2] \in Nat
          BY <1>1, <1>2, <2>1, <2>6, <4>1, <5>1
        <5> QED BY <2>6, <5>2
      <4> QED BY <4>1
    <3>2. n = L - 1
      BY <2>6, <3>1
    <3> QED BY <1>2, <2>6, <3>2
  <2> QED BY <2>3, <2>4, <2>5, <2>6, <2>8
<1> QED BY <1>1, <1>2, <1>3, <1>5 DEF Whole

LEMMA FinishCode == SearchInv /\ CodeInv /\ Finish => CodeInv'
<1> SUFFICES ASSUME SearchInv, CodeInv, Finish
             PROVE  CodeInv'
  OBVIOUS
<1>1. /\ phase = "group" /\ cur > len /\ phase' = "control"
      /\ reader' \in {"DecompressData", "decompress_data"}
      /\ UNCHANGED <<input, cur, slot, code, outlen, rd, bits, used, left, taken, out>>
  BY DEF Finish, encoder
<1>2. PICK p, g, w : Coding(p, g, w) /\ Reading(p, g, w)
  BY DEF CodeInv
<1>3. /\ len \in Nat /\ len' = len /\ len = Len(input) /\ code \in Seq(Items) /\ outlen \in Nat /\ out = <<>>
      /\ rd = 1 /\ taken = 0
  BY <1>1, Spans DEF SearchInv, CursorTypes, len, CodeInv, CodeTypes
<1>4. PICK L \in Nat : L = Len(code)
  BY <1>3, LenProperties
<1>5. Closed(p, w) /\ Layout(code, input, p, g, w) /\ p[L + 1] = cur
  BY <1>1, <1>2, <1>4 DEF Coding, Between
<1>6. Whole(p, g, w, L, len)
  BY <1>3, <1>4, <1>5, CodeIsWhole
<1>7. ~InLoop' /\ phase' # "group"
  BY <1>1 DEF InLoop
<1>8. Coding(p, g, w)'
  BY <1>1, <1>2, <1>3, <1>5, <1>7 DEF Coding, Closed
<1>9. Reading(p, g, w)'
  <2>1. rd' \in 1 .. Len(code') /\ (len > 0 => rd' < Len(code'))
    <3>1. L >= 2 /\ (len > 0 => L >= 3)
      BY <1>6 DEF Whole
    <3>2. rd' = 1 /\ Len(code') = L
      BY <1>1, <1>3, <1>4
    <3> QED BY <3>1, <3>2
  <2>2. Len(out') = 0 /\ \A k \in 1 .. Len(out') : out'[k] = input'[k]
    BY <1>1, <1>3
  <2>3. p[1] = 0 /\ w[1] = 0 /\ g[1] = 0
    BY <1>6 DEF Whole
  <2> QED BY <1>1, <1>3, <2>1, <2>2, <2>3 DEF Reading
<1>10. CodeTypes'
  BY <1>1, <1>7 DEF CodeInv, CodeTypes
<1> QED BY <1>8, <1>9, <1>10 DEF CodeInv

-----------------------------------------------------------------------------
(* The decoders. *)

Decoding == phase \in {"control", "item", "copy", "decoded"}

LEMMA WholeCode ==
  ASSUME SearchInv, CodeInv, Decoding
  PROVE  /\ len \in Nat /\ len = Len(input) /\ outlen \in Nat /\ code \in Seq(Items) /\ out \in Seq(Symbols)
         /\ Len(out) \in Nat /\ used \in Nat /\ Slots \in Nat /\ input \in Seq(Symbols)
         /\ \E p, g, w : \E L \in Nat :
              /\ L = Len(code) /\ Coding(p, g, w) /\ Reading(p, g, w)
              /\ Layout(code, input, p, g, w) /\ Whole(p, g, w, L, len)
<1>1. /\ len \in Nat /\ len = Len(input) /\ outlen \in Nat /\ code \in Seq(Items) /\ out \in Seq(Symbols)
      /\ input \in Seq(Symbols) /\ used \in Nat
  BY Spans, CodecNumbers DEF SearchInv, CursorTypes, len, CodeInv, CodeTypes
<1>2. PICK p, g, w : Coding(p, g, w) /\ Reading(p, g, w)
  BY DEF CodeInv
<1>3. Len(out) \in Nat
  BY <1>1, LenProperties
<1>4. PICK L \in Nat : L = Len(code)
  BY <1>1, LenProperties
<1>5. Closed(p, w) /\ Layout(code, input, p, g, w) /\ p[L + 1] = cur
  BY <1>2, <1>4 DEF Coding, Decoding, InLoop
<1>6. Whole(p, g, w, L, len)
  BY <1>1, <1>4, <1>5, CodeIsWhole
<1> QED BY <1>1, <1>2, <1>3, <1>4, <1>5, <1>6, CodecNumbers

(* A step of a decoder leaves the code as it is. *)
LEMMA DecoderStep ==
  ASSUME Decoding, Decoding', UNCHANGED <<input, encoder>>,
         NEW p, NEW g, NEW w, Coding(p, g, w), Reading(p, g, w)',
         CodeInv, bits' \in SUBSET (0 .. Slots - 1), rd' \in Nat \ {0}, used' \in 0 .. Slots,
         left' \in 0 .. Nibble + 1, taken' \in Nat, out' \in Seq(Symbols), reader' = reader
  PROVE  CodeInv'
<1>1. UNCHANGED <<cur, slot, code, outlen>> /\ len' = len
  BY DEF encoder, len
<1>2. ~InLoop /\ phase # "group" /\ ~InLoop' /\ phase' # "group" /\ phase' # "lost"
  BY DEF Decoding, InLoop
<1>3. Coding(p, g, w)'
  BY <1>1, <1>2 DEF Coding, Closed
<1>4. CodeTypes'
  BY <1>1, <1>2 DEF CodeInv, CodeTypes
<1> QED BY <1>3, <1>4 DEF CodeInv

(* The item a decoder is about to read is data of the group it is in. *)
LEMMA ItemRead ==
  ASSUME NEW p, NEW g, NEW w, NEW L \in Nat, L = Len(code), NEW N \in Nat, N = Len(input), Layout(code, input, p, g, w),
         Whole(p, g, w, L, N), NEW n \in 1 .. L, p[n] < N, InGroup(g, n), used \in Nat, Slots \in Nat
  PROVE  /\ DataRight(code, input, p, g, w, n) /\ g[n] = used + 1
         /\ Writes(code[n], bits, used, input, p[n], p[n + 1], w[n + 1] - w[n])
         /\ n + 2 <= L
<1>1. used < Slots /\ g[n - 1] = used /\ n > 1 /\ used < n - 1 /\ bits = code[n - 1 - used].bits
  BY DEF InGroup
<1>2. p[n] \in Nat /\ n + 2 <= L
  BY SMTT(60) DEF Whole
<1>3. ~ControlRight(code, input, p, g, w, n)
  BY <1>1, <1>2 DEF ControlRight
<1>4. DataRight(code, input, p, g, w, n)
  BY <1>3, ItemKinds
<1>5. g[n] = used + 1
  BY <1>1, <1>4 DEF DataRight
<1>6. n - g[n] = n - 1 - used /\ g[n] - 1 = used
  BY <1>1, <1>5
<1>7. Writes(code[n], bits, used, input, p[n], p[n + 1], w[n + 1] - w[n])
  BY <1>1, <1>4, <1>6 DEF DataRight
<1> QED BY <1>2, <1>4, <1>5, <1>7

(* Behind it is the next item of the group, or a control byte. *)
LEMMA ItemBehind ==
  ASSUME NEW p, NEW g, NEW w, NEW L \in Nat, L = Len(code), NEW N \in Nat, Layout(code, input, p, g, w),
         Whole(p, g, w, L, N), NEW n \in 1 .. L, n + 2 <= L, g[n] = used + 1, InGroup(g, n),
         used \in Nat, Slots \in Nat, used' = used + 1, UNCHANGED <<bits, code>>
  PROVE  /\ used + 1 = Slots => g[n + 1] = 0
         /\ used + 1 # Slots => InGroup(g, n + 1)'
         /\ used' \in 0 .. Slots
<1>1. used < Slots /\ n > 1 /\ used < n - 1 /\ bits = code[n - 1 - used].bits
  BY DEF InGroup
<1>2. n + 1 \in 1 .. L /\ (n + 1) - 1 = n /\ (n + 1) - 1 - (used + 1) = n - 1 - used
  BY <1>1
<1>3. ASSUME used + 1 = Slots, g[n + 1] # 0
      PROVE  FALSE
  <2>1. DataRight(code, input, p, g, w, n + 1)
    BY <1>2, <1>3, ItemKinds
  <2>2. g[n + 1] = Slots + 1 /\ g[n + 1] \in 0 .. Slots
    BY <1>2, <1>3, <2>1 DEF DataRight, Whole
  <2> QED BY <2>2
<1>4. used + 1 # Slots => InGroup(g, n + 1)'
  BY <1>1, <1>2 DEF InGroup
<1>5. used' \in 0 .. Slots
  BY <1>1
<1> QED BY <1>3, <1>4, <1>5

LEMMA StopAtControlCode == SearchInv /\ CodeInv /\ StopAtControl => CodeInv'
<1> SUFFICES ASSUME SearchInv, CodeInv, StopAtControl
             PROVE  CodeInv'
  OBVIOUS
<1>1. /\ phase = "control" /\ phase' = "decoded" /\ reader = "DecompressData" /\ Len(out) >= len
      /\ UNCHANGED <<input, encoder, code, outlen, reader, rd, bits, used, left, taken, out>>
  BY DEF StopAtControl, encoder, decoder
<1>2. Decoding /\ Decoding'
  BY <1>1 DEF Decoding
<1>3. /\ len \in Nat /\ outlen \in Nat /\ Len(out) \in Nat /\ len' = len
      /\ taken \in Nat /\ rd \in Nat \ {0} /\ bits \in SUBSET (0 .. Slots - 1) /\ used \in 0 .. Slots
      /\ left \in 0 .. Nibble + 1 /\ out \in Seq(Symbols)
  BY <1>1, <1>2, WholeCode DEF CodeInv, CodeTypes, len
<1>4. PICK p, g, w : \E L \in Nat :
        /\ L = Len(code) /\ Coding(p, g, w) /\ Reading(p, g, w)
        /\ Layout(code, input, p, g, w) /\ Whole(p, g, w, L, len)
  BY <1>2, WholeCode
<1>5. PICK L \in Nat : L = Len(code) /\ Whole(p, g, w, L, len)
  BY <1>4
<1>6. /\ rd \in 1 .. L /\ reader # "none" /\ Len(out) <= len /\ \A k \in 1 .. Len(out) : out[k] = input[k]
      /\ len > 0 => rd < L
      /\ Len(out) = p[rd] /\ taken = w[rd]
  BY <1>1, <1>2, <1>4, <1>5 DEF Reading, Decoding, InLoop
<1>7. Len(out) = len
  BY <1>1, <1>3, <1>6
<1>8. taken <= outlen /\ (len > 0 => taken = outlen)
  <2>1. CASE len = 0
    BY <1>5, <1>6, <2>1 DEF Whole
  <2>2. CASE len > 0
    <3>1. w[rd] = outlen
      BY <1>5, <1>6, <1>7, <2>2 DEF Whole
    <3> QED BY <1>3, <1>6, <3>1
  <2> QED BY <1>3, <2>1, <2>2
<1>9. Reading(p, g, w)'
  BY <1>1, <1>3, <1>5, <1>6, <1>7, <1>8 DEF Reading
<1> QED BY <1>1, <1>2, <1>3, <1>4, <1>9, DecoderStep

LEMMA ReadControlCode == SearchInv /\ CodeInv /\ ReadControl => CodeInv'
<1> SUFFICES ASSUME SearchInv, CodeInv, ReadControl
             PROVE  CodeInv'
  OBVIOUS
<1>1. /\ phase = "control" /\ (reader = "DecompressData" => Len(out) < len)
      /\ UNCHANGED <<input, encoder, code, outlen, reader, left, out>>
  BY DEF ReadControl, encoder
<1>2. Decoding
  BY <1>1 DEF Decoding
<1>3. /\ len \in Nat /\ len' = len /\ Len(out) \in Nat /\ code \in Seq(Items) /\ Slots \in Nat
      /\ taken \in Nat /\ left \in 0 .. Nibble + 1 /\ out \in Seq(Symbols)
  BY <1>1, <1>2, WholeCode DEF CodeInv, CodeTypes, len
<1>4. PICK p, g, w : \E L \in Nat :
        /\ L = Len(code) /\ Coding(p, g, w) /\ Reading(p, g, w)
        /\ Layout(code, input, p, g, w) /\ Whole(p, g, w, L, len)
  BY <1>2, WholeCode
<1>5. PICK L \in Nat : L = Len(code) /\ Whole(p, g, w, L, len)
  BY <1>4
<1>6. /\ rd \in 1 .. L /\ reader # "none" /\ Len(out) <= len /\ \A k \in 1 .. Len(out) : out[k] = input[k]
      /\ Len(out) = p[rd] /\ taken = w[rd]
      /\ g[rd] = 0 \/ (reader = "DecompressData" /\ Len(out) = len)
  BY <1>1, <1>2, <1>4, <1>5 DEF Reading, Decoding, InLoop
<1>7. g[rd] = 0
  BY <1>1, <1>3, <1>6
<1>8. ControlRight(code, input, p, g, w, rd)
  BY <1>4, <1>5, <1>6, <1>7, ItemKinds
<1>9. code[rd].kind = "control" /\ p[rd + 1] = p[rd] /\ w[rd + 1] = w[rd] + 1
  BY <1>8 DEF ControlRight
<1>10. rd <= Len(code) /\ rd < L /\ rd + 1 \in 1 .. L
  BY <1>5, <1>6, <1>7 DEF Whole
<1>11. bits' = code[rd].bits /\ used' = 0 /\ rd' = rd + 1 /\ taken' = taken + 1 /\ phase' = "item"
  BY <1>9, <1>10 DEF ReadControl, Reads
<1>12. bits' \in SUBSET (0 .. Slots - 1) /\ used' \in 0 .. Slots /\ rd' \in Nat \ {0} /\ taken' \in Nat
  <2>1. code[rd] \in Items
    BY <1>3, <1>5, <1>6, ElementOfSeq
  <2>2. bits' \in SUBSET (0 .. Slots - 1)
    BY <1>11, <2>1 DEF Items
  <2>3. used' \in 0 .. Slots /\ rd' \in Nat \ {0} /\ taken' \in Nat
    BY <1>3, <1>5, <1>6, <1>11
  <2> QED BY <2>2, <2>3
<1>13. reader = "DecompressData" /\ len > 0 => rd + 1 < L
  BY <1>1, <1>5, <1>6 DEF Whole
<1>14. PICK n \in Nat : n = rd + 1
  BY <1>5, <1>6
<1>17. InGroup(g, n)'
  <2>1. n - 1 = rd /\ n - 1 - 0 = rd /\ n > 1 /\ 0 < n - 1 /\ 0 < Slots
    BY <1>5, <1>6, <1>14, CodecNumbers
  <2> QED BY <1>1, <1>7, <1>11, <2>1 DEF InGroup
<1>15. Decoding'
  BY <1>11 DEF Decoding
<1>16. Reading(p, g, w)'
  <2>1. /\ rd' = n /\ n \in 1 .. Len(code') /\ reader' # "none" /\ Len(out') <= len'
        /\ \A k \in 1 .. Len(out') : out'[k] = input'[k]
        /\ reader' = "DecompressData" /\ len' > 0 => n < Len(code')
    BY <1>1, <1>3, <1>5, <1>6, <1>10, <1>11, <1>13, <1>14
  <2>2. Len(out') = p[n] /\ taken' = w[n]
    BY <1>1, <1>6, <1>9, <1>11, <1>14
  <2> QED BY <1>11, <1>17, <2>1, <2>2 DEF Reading, InGroup
<1> QED BY <1>1, <1>2, <1>3, <1>4, <1>12, <1>15, <1>16, DecoderStep

LEMMA StopAtItemCode == SearchInv /\ CodeInv /\ StopAtItem => CodeInv'
<1> SUFFICES ASSUME SearchInv, CodeInv, StopAtItem
             PROVE  CodeInv'
  OBVIOUS
<1>1. /\ phase = "item" /\ Len(out) = len
      /\ phase' = IF reader = "DecompressData" THEN "control" ELSE "decoded"
      /\ UNCHANGED <<input, encoder, code, outlen, reader, rd, bits, used, left, taken, out>>
  BY DEF StopAtItem, encoder, decoder
<1>2. Decoding /\ Decoding'
  BY <1>1 DEF Decoding
<1>3. /\ len \in Nat /\ outlen \in Nat /\ Len(out) \in Nat /\ len' = len
      /\ taken \in Nat /\ rd \in Nat \ {0} /\ bits \in SUBSET (0 .. Slots - 1) /\ used \in 0 .. Slots
      /\ left \in 0 .. Nibble + 1 /\ out \in Seq(Symbols) /\ reader \in {"none", "DecompressData", "decompress_data"}
  BY <1>1, <1>2, WholeCode DEF CodeInv, CodeTypes, len
<1>4. PICK p, g, w : \E L \in Nat :
        /\ L = Len(code) /\ Coding(p, g, w) /\ Reading(p, g, w)
        /\ Layout(code, input, p, g, w) /\ Whole(p, g, w, L, len)
  BY <1>2, WholeCode
<1>5. PICK L \in Nat : L = Len(code) /\ Whole(p, g, w, L, len)
  BY <1>4
<1>6. /\ rd \in 1 .. L /\ reader # "none" /\ Len(out) <= len /\ \A k \in 1 .. Len(out) : out[k] = input[k]
      /\ reader = "DecompressData" /\ len > 0 => rd < L
      /\ Len(out) = p[rd] /\ taken = w[rd]
  BY <1>1, <1>2, <1>4, <1>5 DEF Reading, Decoding, InLoop
<1>7. CASE reader = "DecompressData"
  <2>1. phase' = "control"
    BY <1>1, <1>7
  <2>2. Reading(p, g, w)'
    BY <1>1, <1>3, <1>5, <1>6, <1>7, <2>1 DEF Reading
  <2> QED BY <1>1, <1>2, <1>3, <1>4, <2>2, DecoderStep
<1>8. CASE reader # "DecompressData"
  <2>1. phase' = "decoded"
    BY <1>1, <1>8
  <2>2. taken <= outlen + 1 /\ reader = "decompress_data"
    BY <1>3, <1>5, <1>6, <1>8 DEF Whole
  <2>3. Reading(p, g, w)'
    BY <1>1, <1>3, <1>5, <1>6, <1>8, <2>1, <2>2 DEF Reading
  <2> QED BY <1>1, <1>2, <1>3, <1>4, <2>3, DecoderStep
<1> QED BY <1>7, <1>8

(* The decoder goes on to the next item, after the whole of the one it read. *)
LEMMA GoOn ==
  ASSUME SearchInv, CodeInv, Decoding, UNCHANGED <<input, encoder, reader, bits, left>>, NextBit,
         NEW p, NEW g, NEW w, Coding(p, g, w), NEW L \in Nat, L = Len(code),
         Layout(code, input, p, g, w), Whole(p, g, w, L, len),
         NEW n \in 1 .. L, n = rd, n + 2 <= L, g[n] = used + 1, InGroup(g, n),
         rd' = rd + 1, Len(out') = p[n + 1], Len(out') <= len, \A k \in 1 .. Len(out') : out'[k] = input[k],
         out' \in Seq(Symbols), taken' = w[n + 1], reader # "none"
  PROVE  CodeInv'
<1>1. /\ len \in Nat /\ len' = len /\ len = Len(input) /\ code' = code /\ outlen' = outlen
      /\ bits \in SUBSET (0 .. Slots - 1) /\ left \in 0 .. Nibble + 1 /\ used \in Nat /\ Slots \in Nat
  BY WholeCode DEF CodeInv, CodeTypes, len, encoder
<1>2. used' = used + 1 /\ phase' = (IF used + 1 = Slots THEN "control" ELSE "item")
  BY DEF NextBit
<1>3. Decoding'
  BY <1>2 DEF Decoding
<1>4. /\ used + 1 = Slots => g[n + 1] = 0
      /\ used + 1 # Slots => InGroup(g, n + 1)'
      /\ used' \in 0 .. Slots
  BY <1>1, <1>2, ItemBehind
<1>5. n + 1 \in 1 .. L /\ n + 1 < L /\ n + 1 \in Nat \ {0} /\ rd' = n + 1
  OBVIOUS
<1>6. w[n + 1] \in Nat
  <2>1. n + 1 \in 1 .. L + 1
    BY <1>5
  <2> QED BY <2>1 DEF Whole
<1>7. Reading(p, g, w)'
  <2>1. PICK m \in 1 .. L : m = n + 1
    BY <1>5
  <2>2. /\ rd' = m /\ m < L /\ Len(out') = p[m] /\ taken' = w[m] /\ Len(code') = L
        /\ phase' = "control" => g[m] = 0
        /\ phase' = "item" => InGroup(g, m)'
    BY <1>1, <1>2, <1>4, <1>5, <2>1
  <2>3. phase' \in {"control", "item"}
    BY <1>2
  <2> QED BY <1>1, <2>2, <2>3 DEF Reading, InGroup
<1> QED BY <1>1, <1>3, <1>4, <1>5, <1>6, <1>7, DecoderStep

LEMMA CopyLiteralCode == SearchInv /\ CodeInv /\ CopyLiteral => CodeInv'
<1> SUFFICES ASSUME SearchInv, CodeInv, CopyLiteral
             PROVE  CodeInv'
  OBVIOUS
<1>1. /\ phase = "item" /\ Len(out) # len /\ used \in bits
      /\ UNCHANGED <<input, encoder, reader, bits, left>>
  BY DEF CopyLiteral
<1>2. Decoding
  BY <1>1 DEF Decoding
<1>3. /\ len \in Nat /\ len = Len(input) /\ Len(out) \in Nat /\ used \in Nat /\ Slots \in Nat /\ out \in Seq(Symbols)
      /\ taken \in Nat
  BY <1>2, WholeCode DEF CodeInv, CodeTypes
<1>4. PICK p, g, w : \E L \in Nat :
        /\ L = Len(code) /\ Coding(p, g, w) /\ Reading(p, g, w)
        /\ Layout(code, input, p, g, w) /\ Whole(p, g, w, L, len)
  BY <1>2, WholeCode
<1>5. PICK L \in Nat : L = Len(code) /\ Whole(p, g, w, L, len)
  BY <1>4
<1>6. /\ rd \in 1 .. L /\ reader # "none" /\ Len(out) <= len /\ \A k \in 1 .. Len(out) : out[k] = input[k]
      /\ Len(out) = p[rd] /\ taken = w[rd] /\ InGroup(g, rd)
  BY <1>1, <1>2, <1>4, <1>5 DEF Reading, Decoding, InLoop
<1>7. PICK n \in 1 .. L : n = rd
  BY <1>6
<1>8. p[n] < len
  BY <1>1, <1>3, <1>6, <1>7
<1>9. /\ g[n] = used + 1 /\ n + 2 <= L
      /\ Writes(code[n], bits, used, input, p[n], p[n + 1], w[n + 1] - w[n])
  BY <1>3, <1>4, <1>5, <1>6, <1>7, <1>8, ItemRead
<1>10. /\ code[n].kind = "literal" /\ code[n].sym \in Symbols /\ code[n].sym = input[p[n] + 1]
       /\ p[n + 1] = p[n] + 1 /\ w[n + 1] - w[n] = 1
  BY <1>1, <1>3, <1>8, <1>9 DEF Writes
<1>11. out' = Append(out, code[n].sym) /\ rd' = rd + 1 /\ taken' = taken + 1 /\ NextBit
  <2>1. Reads("literal")
    BY <1>5, <1>7, <1>10 DEF Reads
  <2> QED BY <1>7, <2>1 DEF CopyLiteral
<1>12. taken' = w[n + 1]
  <2>1. n \in 1 .. L + 1 /\ n + 1 \in 1 .. L + 1
    BY <1>5
  <2>2. w[n] \in Nat /\ w[n + 1] \in Nat
    BY <1>5, <2>1 DEF Whole
  <2> QED BY <1>6, <1>7, <1>10, <1>11, <2>2
<1>13. /\ out' \in Seq(Symbols) /\ Len(out') = Len(out) + 1 /\ out'[Len(out) + 1] = code[n].sym
       /\ \A k \in 1 .. Len(out) : out'[k] = out[k]
  BY <1>3, <1>10, <1>11, AppendProperties
<1>14. Len(out') = p[n + 1] /\ Len(out') <= len
  BY <1>3, <1>6, <1>7, <1>8, <1>10, <1>13
<1>15. \A k \in 1 .. Len(out') : out'[k] = input[k]
  <2>1. \A k \in 1 .. Len(out') : k \in 1 .. Len(out) \/ k = Len(out) + 1
    BY <1>3, <1>13
  <2>2. out'[Len(out) + 1] = input[Len(out) + 1]
    BY <1>6, <1>7, <1>10, <1>13
  <2> QED BY <1>6, <1>13, <2>1, <2>2
<1> QED BY <1>1, <1>2, <1>4, <1>5, <1>6, <1>7, <1>9, <1>11, <1>12, <1>13, <1>14, <1>15, GoOn

LEMMA ReadReferenceCode == SearchInv /\ CodeInv /\ ReadReference => CodeInv'
<1> SUFFICES ASSUME SearchInv, CodeInv, ReadReference
             PROVE  CodeInv'
  OBVIOUS
<1>1. /\ phase = "item" /\ Len(out) # len /\ used \notin bits
      /\ UNCHANGED <<input, encoder, reader, rd, bits, used, out>>
  BY DEF ReadReference
<1>2. Decoding
  BY <1>1 DEF Decoding
<1>3. /\ len \in Nat /\ len = Len(input) /\ Len(out) \in Nat /\ used \in Nat /\ Slots \in Nat /\ code \in Seq(Items)
      /\ taken \in Nat /\ rd \in Nat \ {0} /\ bits \in SUBSET (0 .. Slots - 1) /\ used \in 0 .. Slots
      /\ out \in Seq(Symbols)
  BY <1>2, WholeCode DEF CodeInv, CodeTypes
<1>4. PICK p, g, w : \E L \in Nat :
        /\ L = Len(code) /\ Coding(p, g, w) /\ Reading(p, g, w)
        /\ Layout(code, input, p, g, w) /\ Whole(p, g, w, L, len)
  BY <1>2, WholeCode
<1>5. PICK L \in Nat : L = Len(code) /\ Whole(p, g, w, L, len)
  BY <1>4
<1>6. /\ rd \in 1 .. L /\ reader # "none" /\ Len(out) <= len /\ \A k \in 1 .. Len(out) : out[k] = input[k]
      /\ reader = "DecompressData" /\ len > 0 => rd < L
      /\ Len(out) = p[rd] /\ taken = w[rd] /\ InGroup(g, rd)
  BY <1>1, <1>2, <1>4, <1>5 DEF Reading, Decoding, InLoop
<1>7. PICK n \in 1 .. L : n = rd
  BY <1>6
<1>8. p[n] < len
  BY <1>1, <1>3, <1>6, <1>7
<1>9. /\ g[n] = used + 1 /\ n + 2 <= L
      /\ Writes(code[n], bits, used, input, p[n], p[n + 1], w[n + 1] - w[n])
  BY <1>3, <1>4, <1>5, <1>6, <1>7, <1>8, ItemRead
<1>10. /\ code[n].kind = "reference" /\ code[n].dist \in 1 .. p[n]
       /\ p[n + 1] = p[n] + code[n].size + 2 /\ w[n + 1] - w[n] = 2
  BY <1>1, <1>9 DEF Writes
<1>11. code[n].size \in 0 .. Nibble - 1
  <2>1. code[n] \in Items
    BY <1>3, <1>5, ElementOfSeq
  <2> QED BY <2>1 DEF Items
<1>12. left' = code[n].size + 2 /\ taken' = taken + 2 /\ phase' = "copy"
  <2>1. Reads("reference") /\ code[rd].dist \in 1 .. Len(out)
    BY <1>5, <1>6, <1>7, <1>10 DEF Reads
  <2> QED BY <1>7, <2>1 DEF ReadReference
<1>13. taken' = w[n + 1] /\ taken' \in Nat
  <2>1. n \in 1 .. L + 1 /\ n + 1 \in 1 .. L + 1
    BY <1>5
  <2>2. w[n] \in Nat /\ w[n + 1] \in Nat
    BY <1>5, <2>1 DEF Whole
  <2> QED BY <1>6, <1>7, <1>10, <1>12, <2>2
<1>14. left' \in 0 .. Nibble + 1 /\ Len(out) + left' = p[n + 1]
  <2>1. PICK z \in 0 .. Nibble - 1 : z = code[n].size
    BY <1>11
  <2>2. z + 2 \in 0 .. Nibble + 1
    BY <2>1, CodecNumbers
  <2>3. Len(out) + (z + 2) = p[n + 1]
    <3>1. p[n + 1] = Len(out) + z + 2
      BY <1>6, <1>7, <1>10, <2>1
    <3> QED BY <1>3, <2>1, <3>1
  <2>4. left' = z + 2
    BY <1>12, <2>1
  <2> QED BY <2>2, <2>3, <2>4
<1>15. Decoding' /\ UNCHANGED <<code, outlen>> /\ len' = len
  BY <1>1, <1>12 DEF Decoding, encoder, len
<1>16. Reading(p, g, w)'
  <2>1. InGroup(g, n)'
    BY <1>1, <1>6, <1>7, <1>15 DEF InGroup
  <2>2. p[n] <= Len(out)
    BY <1>3, <1>6, <1>7
  <2> QED BY <1>1, <1>5, <1>6, <1>7, <1>9, <1>10, <1>12, <1>13, <1>14, <1>15, <2>1, <2>2 DEF Reading, InGroup
<1> QED BY <1>1, <1>2, <1>3, <1>4, <1>13, <1>14, <1>15, <1>16, DecoderStep

(* Item n of the code copies the z + 2 symbols that are d before them. *)
Copies(p, n, N, d, z) ==
  /\ d = code[n].dist /\ d \in 1 .. p[n] /\ z = code[n].size
  /\ p[n + 1] = p[n] + z + 2 /\ p[n + 1] <= N
  /\ \A k \in 0 .. z + 1 : input[p[n] + k + 1] = input[p[n] + k + 1 - d]

(* A reference being copied gives no more than the input. *)
LEMMA CopiedItem ==
  ASSUME NEW p, NEW g, NEW w, NEW L \in Nat, L = Len(code), NEW N \in Nat, N = Len(input), code \in Seq(Items),
         Layout(code, input, p, g, w), Whole(p, g, w, L, N), NEW n \in 1 .. L,
         code[n].kind = "reference", used \in Nat, g[n] = used + 1
  PROVE  \E d, z \in Nat : Copies(p, n, N, d, z)
<1>1. g[n] # 0
  OBVIOUS
<1>2. DataRight(code, input, p, g, w, n)
  BY <1>1, ItemKinds
<1>3. /\ code[n].dist \in 1 .. p[n]
      /\ p[n + 1] = p[n] + code[n].size + 2 /\ p[n + 1] <= N
      /\ \A k \in 0 .. code[n].size + 1 : input[p[n] + k + 1] = input[p[n] + k + 1 - code[n].dist]
  BY <1>2 DEF DataRight, Writes
<1>4. code[n].dist \in Nat /\ code[n].size \in Nat
  <2>1. code[n] \in Items
    BY ElementOfSeq
  <2> QED BY <2>1, CodecNumbers, SMTT(60) DEF Items
<1> QED BY <1>3, <1>4 DEF Copies

LEMMA CopyByteCode == SearchInv /\ CodeInv /\ CopyByte => CodeInv'
<1> SUFFICES ASSUME SearchInv, CodeInv, CopyByte
             PROVE  CodeInv'
  OBVIOUS
<1>1. /\ phase = "copy" /\ phase' = "copy" /\ left > 0 /\ left' = left - 1
      /\ out' = Append(out, out[Len(out) + 1 - code[rd].dist])
      /\ UNCHANGED <<input, encoder, code, outlen, reader, rd, bits, used, taken>>
  BY DEF CopyByte, encoder
<1>2. Decoding /\ Decoding'
  BY <1>1 DEF Decoding
<1>3. /\ len \in Nat /\ len = Len(input) /\ len' = len /\ Len(out) \in Nat /\ out \in Seq(Symbols)
      /\ input \in Seq(Symbols) /\ Slots \in Nat /\ code \in Seq(Items)
      /\ taken \in Nat /\ rd \in Nat \ {0} /\ bits \in SUBSET (0 .. Slots - 1) /\ used \in 0 .. Slots /\ used \in Nat
      /\ left \in 0 .. Nibble + 1 /\ Nibble \in Nat
  BY <1>1, <1>2, WholeCode, CodecNumbers DEF CodeInv, CodeTypes, len
<1>4. PICK p, g, w : \E L \in Nat :
        /\ L = Len(code) /\ Coding(p, g, w) /\ Reading(p, g, w)
        /\ Layout(code, input, p, g, w) /\ Whole(p, g, w, L, len)
  BY <1>2, WholeCode
<1>5. PICK L \in Nat : L = Len(code) /\ Layout(code, input, p, g, w) /\ Whole(p, g, w, L, len)
  BY <1>4
<1>6. /\ rd \in 1 .. L /\ reader # "none" /\ Len(out) <= len /\ \A k \in 1 .. Len(out) : out[k] = input[k]
      /\ reader = "DecompressData" /\ len > 0 => rd < L
      /\ code[rd].kind = "reference" /\ g[rd] = used + 1 /\ InGroup(g, rd)
      /\ p[rd] <= Len(out) /\ Len(out) + left = p[rd + 1] /\ taken = w[rd + 1]
  BY <1>1, <1>2, <1>4, <1>5 DEF Reading, Decoding, InLoop
<1>7. PICK n \in 1 .. L : n = rd
  BY <1>6
<1>21. PICK d, z \in Nat : Copies(p, n, len, d, z)
  <2>1. code[n].kind = "reference" /\ g[n] = used + 1
    BY <1>6, <1>7
  <2> QED BY <1>3, <1>5, <2>1, CopiedItem
<1>8. /\ d = code[n].dist /\ d \in 1 .. p[n] /\ z = code[n].size /\ d \in Nat /\ z \in Nat
      /\ p[n + 1] = p[n] + z + 2 /\ p[n + 1] <= len
      /\ \A k \in 0 .. z + 1 : input[p[n] + k + 1] = input[p[n] + k + 1 - d]
  BY <1>21 DEF Copies
<1>9. p[n] \in Nat
  BY <1>5 DEF Whole
<1>10. PICK a \in Nat : a = p[n]
  BY <1>9
<1>11. PICK o \in Nat : o = Len(out)
  BY <1>3
<1>12. /\ a <= o /\ o + left = a + z + 2 /\ a + z + 2 <= len /\ d >= 1 /\ d <= a /\ left \in Nat
  BY <1>3, <1>6, <1>7, <1>8, <1>10, <1>11, SMTT(60)
<1>13. PICK k \in 0 .. z + 1 : a + k = o
  <2>1. o - a \in 0 .. z + 1 /\ a + (o - a) = o
    BY <1>1, <1>3, <1>12
  <2> QED BY <2>1
<1>14. PICK m \in 1 .. o : m = o + 1 - d
  BY <1>12
<1>15. out[m] = input[o + 1] /\ out[m] \in Symbols
  <2>1. input[a + k + 1] = input[a + k + 1 - d]
    BY <1>8, <1>10, <1>13
  <2>2. a + k + 1 = o + 1 /\ a + k + 1 - d = m
    BY <1>13, <1>14
  <2>3. out[m] = input[m] /\ out[m] \in Symbols
    BY <1>3, <1>6, <1>11, <1>14, ElementOfSeq
  <2> QED BY <2>1, <2>2, <2>3
<1>16. out' = Append(out, out[m])
  BY <1>1, <1>7, <1>8, <1>11, <1>14
<1>17. /\ out' \in Seq(Symbols) /\ Len(out') = o + 1 /\ out'[o + 1] = out[m]
       /\ \A j \in 1 .. o : out'[j] = out[j]
  BY <1>3, <1>11, <1>15, <1>16, AppendProperties
<1>18. \A j \in 1 .. Len(out') : out'[j] = input[j]
  <2>1. \A j \in 1 .. Len(out') : j \in 1 .. o \/ j = o + 1
    BY <1>17
  <2> QED BY <1>6, <1>11, <1>15, <1>17, <2>1
<1>19. /\ Len(out') <= len /\ p[n] <= Len(out') /\ Len(out') + left' = p[n + 1] /\ left' \in 0 .. Nibble + 1
  <2>1. o + 1 <= len /\ a <= o + 1 /\ (o + 1) + (left - 1) = a + z + 2 /\ left - 1 \in 0 .. Nibble + 1
    BY <1>1, <1>3, <1>12
  <2> QED BY <1>1, <1>8, <1>10, <1>17, <2>1
<1>20. Reading(p, g, w)'
  <2>1. InGroup(g, n)'
    BY <1>1, <1>6, <1>7 DEF InGroup
  <2> QED BY <1>1, <1>3, <1>5, <1>6, <1>7, <1>18, <1>19, <2>1 DEF Reading, InGroup
<1> QED BY <1>1, <1>2, <1>3, <1>4, <1>17, <1>19, <1>20, DecoderStep

LEMMA EndCopyCode == SearchInv /\ CodeInv /\ EndCopy => CodeInv'
<1> SUFFICES ASSUME SearchInv, CodeInv, EndCopy
             PROVE  CodeInv'
  OBVIOUS
<1>1. /\ phase = "copy" /\ left = 0 /\ rd' = rd + 1 /\ NextBit
      /\ UNCHANGED <<input, encoder, reader, bits, left, taken, out>>
  BY DEF EndCopy
<1>2. Decoding
  BY <1>1 DEF Decoding
<1>3. /\ len \in Nat /\ len = Len(input) /\ Len(out) \in Nat /\ out \in Seq(Symbols) /\ code \in Seq(Items)
      /\ used \in Nat
  BY <1>2, WholeCode
<1>4. PICK p, g, w : \E L \in Nat :
        /\ L = Len(code) /\ Coding(p, g, w) /\ Reading(p, g, w)
        /\ Layout(code, input, p, g, w) /\ Whole(p, g, w, L, len)
  BY <1>2, WholeCode
<1>5. PICK L \in Nat : L = Len(code) /\ Whole(p, g, w, L, len)
  BY <1>4
<1>6. /\ rd \in 1 .. L /\ reader # "none" /\ Len(out) <= len /\ \A k \in 1 .. Len(out) : out[k] = input[k]
      /\ code[rd].kind = "reference" /\ g[rd] = used + 1 /\ InGroup(g, rd)
      /\ p[rd] <= Len(out) /\ Len(out) + left = p[rd + 1] /\ taken = w[rd + 1]
  BY <1>1, <1>2, <1>4, <1>5 DEF Reading, Decoding, InLoop
<1>7. PICK n \in 1 .. L : n = rd
  BY <1>6
<1>8. PICK z \in Nat : p[n + 1] = p[n] + z + 2 /\ p[n + 1] <= len
  BY <1>3, <1>4, <1>5, <1>6, <1>7, CopiedItem DEF Copies
<1>9. n + 2 <= L
  <2>1. p[n] \in Nat
    BY <1>5 DEF Whole
  <2>2. p[n] < len
    BY <1>3, <1>8, <2>1
  <2> QED BY <1>5, <2>2 DEF Whole
<1>10. Len(out) = p[n + 1]
  BY <1>1, <1>3, <1>6, <1>7
<1> QED BY <1>1, <1>2, <1>3, <1>4, <1>5, <1>6, <1>7, <1>9, <1>10, GoOn

LEMMA CodeInvStep == SearchInv /\ CodeInv /\ [Next]_vars => CodeInv'
<1> SUFFICES ASSUME SearchInv, CodeInv, [Next]_vars
             PROVE  CodeInv'
  OBVIOUS
<1>1. CASE Compress
  BY <1>1, OpenGroupCode, SearchCode, EmitCode, FinishCode DEF Compress
<1>2. CASE Decompress
  BY <1>2, StopAtControlCode, ReadControlCode, StopAtItemCode, CopyLiteralCode, ReadReferenceCode,
     CopyByteCode, EndCopyCode DEF Decompress
<1>3. CASE UNCHANGED vars
  <2>1. /\ UNCHANGED <<input, phase, cur, slot, code, outlen, reader, rd, bits, used, left, taken, out>>
        /\ len' = len
    BY <1>3 DEF vars, encoder, decoder, len
  <2>2. PICK p, g, w : Coding(p, g, w) /\ Reading(p, g, w)
    BY DEF CodeInv
  <2>3. Coding(p, g, w)'
    BY <2>1, <2>2 DEF Coding, InLoop, Filling, Between, Closed
  <2>4. Reading(p, g, w)'
    BY <2>1, <2>2 DEF Reading, InLoop, InGroup
  <2>5. CodeTypes'
    BY <2>1 DEF CodeInv, CodeTypes, InLoop
  <2> QED BY <2>3, <2>4, <2>5 DEF CodeInv
<1> QED BY <1>1, <1>2, <1>3 DEF Next

LEMMA CodeInvariant == Spec => [](SearchInv /\ CodeInv)
<1>1. Init => SearchInv /\ CodeInv
  BY SearchInvInit, CodeInvInit
<1>2. SearchInv /\ CodeInv /\ [Next]_vars => (SearchInv /\ CodeInv)'
  BY SearchInvStep, CodeInvStep
<1> QED BY <1>1, <1>2, PTL DEF Spec

(* The cursors of the search stay in the table, the items written fit their
   fields, and what a decoder reads of them stays in its types. *)
THEOREM CodecTypes == Spec => []TypeOK
<1>1. SearchInv /\ CodeInv => TypeOK
  BY DEF SearchInv, CursorTypes, CodeInv, CodeTypes, TypeOK
<1> QED BY <1>1, CodeInvariant, PTL

(* DecompressData and decompress_data both give back what CompressData was
   given, and neither ever takes an item for one of another kind or copies from
   before the output: for every input, every size of the window, of the longest
   match and of a group. *)
THEOREM CodecGivesBack == Spec => []RoundTrip
<1>1. SearchInv /\ CodeInv => RoundTrip
  <2> SUFFICES ASSUME SearchInv, CodeInv
               PROVE  RoundTrip
    OBVIOUS
  <2>1. phase # "lost"
    BY DEF CodeInv, CodeTypes
  <2>2. ASSUME phase = "decoded"
        PROVE  out = input
    <3>1. Decoding
      BY <2>2 DEF Decoding
    <3>2. out \in Seq(Symbols) /\ input \in Seq(Symbols) /\ len = Len(input)
      BY <3>1, WholeCode
    <3>3. Len(out) = Len(input) /\ \A k \in 1 .. Len(out) : out[k] = input[k]
      BY <2>2, <3>1, <3>2 DEF CodeInv, Reading, Decoding, InLoop
    <3> QED BY <3>2, <3>3, SeqEqual
  <2> QED BY <2>1, <2>2 DEF RoundTrip
<1> QED BY <1>1, CodeInvariant, PTL

(* The size CompressData puts in the header, one byte short at the last item
   and without the control byte and the literal past the end, is what
   DecompressData reads; decompress_data reads at most a control byte more. *)
THEOREM RecordedSizeIsRead == Spec => []RecordedIsRead
<1>1. SearchInv /\ CodeInv => RecordedIsRead
  <2> SUFFICES ASSUME SearchInv, CodeInv, phase \in {"item", "copy", "decoded"}
               PROVE  /\ taken <= outlen + (IF reader = "decompress_data" THEN 1 ELSE 0)
                      /\ phase = "decoded" /\ reader = "DecompressData" /\ len > 0 => taken = outlen
    BY DEF RecordedIsRead
  <2>1. Decoding
    BY DEF Decoding
  <2>2. /\ len \in Nat /\ len = Len(input) /\ outlen \in Nat /\ Len(out) \in Nat /\ used \in Nat
        /\ code \in Seq(Items) /\ reader \in {"none", "DecompressData", "decompress_data"} /\ taken \in Nat
    BY <2>1, WholeCode DEF CodeInv, CodeTypes
  <2>3. PICK p, g, w : \E L \in Nat :
          /\ L = Len(code) /\ Coding(p, g, w) /\ Reading(p, g, w)
          /\ Layout(code, input, p, g, w) /\ Whole(p, g, w, L, len)
    BY <2>1, WholeCode
  <2>4. PICK L \in Nat : L = Len(code) /\ Layout(code, input, p, g, w) /\ Whole(p, g, w, L, len)
    BY <2>3
  <2>5. rd \in 1 .. L /\ reader # "none" /\ (reader = "DecompressData" /\ len > 0 => rd < L)
    BY <2>1, <2>3, <2>4 DEF Reading, Decoding, InLoop
  <2>6. CASE phase = "item"
    <3>1. taken = w[rd] /\ w[rd] <= outlen + 1 /\ (len = 0 \/ rd < L => w[rd] <= outlen)
      BY <2>1, <2>3, <2>4, <2>5, <2>6 DEF Reading, Decoding, InLoop, Whole
    <3>2. reader = "DecompressData" => taken <= outlen
      BY <2>2, <2>5, <3>1
    <3> QED BY <2>2, <2>5, <2>6, <3>1, <3>2
  <2>7. CASE phase = "copy"
    <3>1. code[rd].kind = "reference" /\ g[rd] = used + 1 /\ taken = w[rd + 1]
      BY <2>1, <2>3, <2>7 DEF Reading, Decoding, InLoop
    <3>2. PICK n \in 1 .. L : n = rd
      BY <2>5
    <3>3. PICK z \in Nat : p[n + 1] = p[n] + z + 2 /\ p[n + 1] <= len
      BY <2>2, <2>4, <3>1, <3>2, CopiedItem DEF Copies
    <3>4. n + 2 <= L
      <4>1. p[n] \in Nat
        BY <2>4 DEF Whole
      <4>2. p[n] < len
        BY <2>2, <3>3, <4>1
      <4> QED BY <2>4, <4>2 DEF Whole
    <3>5. taken <= outlen
      <4>1. n + 1 \in 1 .. L /\ n + 1 < L
        BY <2>4, <3>4
      <4> QED BY <2>4, <3>1, <3>2, <4>1 DEF Whole
    <3> QED BY <2>2, <2>7, <3>5
  <2>8. CASE phase = "decoded"
    BY <2>1, <2>3, <2>8 DEF Reading, Decoding, InLoop
  <2> QED BY <2>6, <2>7, <2>8
<1> QED BY <1>1, CodeInvariant, PTL

(* The header and the code of an input of four bytes or more fit the four times
   its size that CompressData allocates. *)
THEOREM CodeFits == Spec => []FitsAllocation
<1>1. SearchInv /\ CodeInv => FitsAllocation
  <2> SUFFICES ASSUME SearchInv, CodeInv, len >= 4
               PROVE  8 + Len(code) + References <= 4 * len
    BY DEF FitsAllocation
  <2>1. len \in Nat /\ cur \in Nat /\ slot \in Nat /\ code \in Seq(Items) /\ (InLoop => cur <= len)
    BY Spans, CodecNumbers DEF SearchInv, CursorTypes, LoopState, CodeInv, CodeTypes
  <2>2. PICK p, g, w : Coding(p, g, w) /\ Reading(p, g, w)
    BY DEF CodeInv
  <2>3. PICK L \in Nat : L = Len(code)
    BY <2>1, LenProperties
  <2>4. Layout(code, input, p, g, w) /\ w[L + 1] = L + Refs(code)
    BY <2>2, <2>3 DEF Coding
  <2>5. PICK v \in Nat : v = w[L + 1]
    BY <2>3, <2>4, LayoutLengths
  <2>6. 2 * v <= 3 * len + 5
    <3>1. CASE InLoop
      <4>1. Filling(p, g, w)
        BY <2>2, <3>1 DEF Coding
      <4>2. /\ cur < len => 2 * v + slot <= 3 * cur + 2
            /\ cur = len => 2 * v <= 3 * len + 3
        BY <2>3, <2>5, <4>1 DEF Filling
      <4> QED BY <2>1, <3>1, <4>2
    <3>2. CASE phase = "group"
      <4>1. Between(p, g, w)
        BY <2>2, <3>2 DEF Coding
      <4>2. /\ cur < len => 2 * v <= 3 * cur
            /\ cur = len => 2 * v <= 3 * len + 1
            /\ cur > len => 2 * v <= 3 * len + 5
        BY <2>3, <2>5, <4>1 DEF Between, Closed
      <4> QED BY <2>1, <4>2
    <3>3. CASE ~InLoop /\ phase # "group"
      BY <2>2, <2>3, <2>5, <3>3 DEF Coding, Closed
    <3> QED BY <3>1, <3>2, <3>3
  <2>7. Refs(code) = References
    BY DEF Refs, References
  <2>8. 8 + v <= 4 * len
    BY <2>1, <2>6
  <2>9. Refs(code) \in Nat
    <3>1. IsFiniteSet({n \in DOMAIN code : code[n].kind = "reference"})
      <4>1. DOMAIN code = 1 .. L /\ IsFiniteSet(1 .. L)
        BY <2>1, <2>3, LenProperties, FS_Interval
      <4> QED BY <4>1, FS_Subset
    <3> QED BY <3>1, FS_CardinalityType DEF Refs
  <2> QED BY <2>1, <2>3, <2>4, <2>5, <2>7, <2>8, <2>9
<1> QED BY <1>1, CodeInvariant, PTL
=============================================================================
