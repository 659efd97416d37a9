------------------------------ MODULE VideoProofs ------------------------------
(***************************************************************************)
(* The loops that turn a video into pictures.  The argument follows a      *)
(* frame from the file to its picture: the buffer of libogg holds what was *)
(* read of the file behind the pages passed (Synced), the queue of packets *)
(* the frames of those pages that are not drawn yet (Gathered), and the    *)
(* pictures are the frames before them (Drawn).  The arithmetic of pages   *)
(* comes first, then what PageOut returns, then the ranks of frames; each  *)
(* action has one lemma, and NextWatched puts them together.               *)
(***************************************************************************)
EXTENDS MediaProofs

-----------------------------------------------------------------------------
(* The pictures of a video.  First where the pages end. *)
Edge(j) == j * pagesize

Measured ==
  /\ Len(pages) \in Nat \ {0} /\ pagesize \in Nat \ {0}
  /\ filesize \in Nat \ {0} /\ filesize <= Edge(Len(pages))

(* Pages lie one behind the other, each as long as the next. *)
LEMMA EdgeFacts ==
  ASSUME Measured
  PROVE  /\ Edge(0) = 0
         /\ \A i \in Nat : Edge(i) \in Nat /\ Edge(i + 1) = Edge(i) + pagesize
         /\ \A i, j \in Nat : i < j => Edge(i) + pagesize <= Edge(j)
         /\ \A i, j \in Nat : i <= j => Edge(i) <= Edge(j)
<1>1. PICK z \in Nat \ {0} : z = pagesize
  BY DEF Measured
<1>2. 0 * z = 0
  OBVIOUS
<1>3. \A i \in Nat : i * z \in Nat /\ (i + 1) * z = i * z + z
  OBVIOUS
<1>4. ASSUME NEW i \in Nat, NEW j \in Nat, i < j
      PROVE  i * z + z <= j * z
  <2>1. PICK c \in Nat : j = (i + 1) + c
    <3>1. j = (i + 1) + (j - (i + 1)) /\ j - (i + 1) \in Nat
      BY <1>4
    <3> QED BY <3>1
  <2>2. j * z = i * z + z + c * z /\ c * z \in Nat /\ i * z \in Nat
    BY <2>1
  <2> QED BY <2>2
<1>5. ASSUME NEW i \in Nat, NEW j \in Nat, i <= j
      PROVE  i * z <= j * z
  <2>1. CASE i = j
    BY <1>3, <2>1
  <2>2. CASE i # j
    <3>1. i < j
      BY <1>5, <2>2
    <3>2. i * z + z <= j * z
      BY <1>4, <3>1
    <3>3. i * z \in Nat /\ j * z \in Nat
      OBVIOUS
    <3> QED BY <3>2, <3>3
  <2> QED BY <2>1, <2>2
<1> QED BY <1>1, <1>2, <1>3, <1>4, <1>5 DEF Edge

(* The quotient by the units of a page, by its bounds. *)
LEMMA Quotient ==
  ASSUME NEW z \in Nat \ {0}, NEW p \in Nat, NEW i \in 0 .. z - 1
  PROVE  (p * z + i) \div z = p /\ (p * z + i) % z = i
OBVIOUS

(* Every unit has a quotient and a remainder. *)
LEMMA Division ==
  ASSUME NEW z \in Nat \ {0}, NEW u \in Nat
  PROVE  \E p \in Nat : \E i \in 0 .. z - 1 : u = p * z + i
<1> DEFINE q == u \div z
           r == u % z
<1>1. u = q * z + r /\ r \in 0 .. z - 1 /\ q \in Nat
  OBVIOUS
<1> HIDE DEF q, r
<1> QED BY <1>1

UnitAt(u) == Video!Unit(1 + (u \div pagesize), 1 + (u % pagesize))

(* Unit i of page p is where it should be, and no other. *)
LEMMA UnitIs ==
  ASSUME Measured, NEW p \in Nat, NEW i \in 0 .. pagesize - 1
  PROVE  UnitAt(Edge(p) + i) = <<p + 1, i + 1>>
<1>1. PICK z \in Nat \ {0} : z = pagesize
  BY DEF Measured
<1>2. (p * z + i) \div z = p /\ (p * z + i) % z = i
  <2>1. i \in 0 .. z - 1
    BY <1>1
  <2> QED BY <2>1, Quotient
<1> QED BY <1>1, <1>2 DEF UnitAt, Edge, Video!Unit

(* Every unit is one of a page. *)
LEMMA PageFound ==
  ASSUME Measured, NEW u \in Nat
  PROVE  \E p \in Nat : \E i \in 0 .. pagesize - 1 : u = Edge(p) + i
<1>1. PICK z \in Nat \ {0} : z = pagesize
  BY DEF Measured
<1>2. PICK p \in Nat, i \in 0 .. z - 1 : u = p * z + i
  BY Division
<1> QED BY <1>1, <1>2 DEF Edge

(* The pages that the file holds whole. *)
LEMMA InFileIs ==
  ASSUME Measured
  PROVE  Video!InFile \in Nat /\ Edge(Video!InFile) <= filesize /\ filesize < Edge(Video!InFile + 1)
         /\ Video!InFile <= Len(pages)
<1>1. PICK p \in Nat, i \in 0 .. pagesize - 1 : filesize = Edge(p) + i
  BY PageFound DEF Measured
<1>2. PICK z \in Nat \ {0} : z = pagesize
  BY DEF Measured
<1>3. (p * z + i) \div z = p
  <2>1. i \in 0 .. z - 1
    BY <1>2
  <2> QED BY <2>1, Quotient
<1>4. Video!InFile = p
  BY <1>1, <1>2, <1>3 DEF Video!InFile, Edge
<1>5. PICK e \in Nat, e1 \in Nat, f \in Nat : e = Edge(p) /\ e1 = Edge(p + 1) /\ e1 = e + z /\ f = filesize
  <2>1. p + 1 \in Nat /\ filesize \in Nat
    BY DEF Measured
  <2>2. Edge(p) \in Nat /\ Edge(p + 1) \in Nat /\ Edge(p + 1) = Edge(p) + z
    BY <1>2, <2>1, EdgeFacts
  <2> QED BY <2>1, <2>2
<1>6. e <= f /\ f < e1
  BY <1>1, <1>2, <1>5
<1>7. p <= Len(pages)
  <2> SUFFICES ASSUME ~(p <= Len(pages))
               PROVE  FALSE
    OBVIOUS
  <2>1. PICK n \in Nat : n = Len(pages)
    BY DEF Measured
  <2>2. Edge(n) + pagesize <= Edge(p)
    BY <2>1, EdgeFacts
  <2>3. Edge(n) >= f /\ Edge(n) \in Nat
    BY <1>5, <2>1, EdgeFacts DEF Measured
  <2> QED BY <1>2, <1>5, <1>6, <2>2, <2>3
<1> QED BY <1>4, <1>5, <1>6, <1>7

Torn(p) == pages[p].damaged

(* What is buffered is the video from a place up to the position in the file,
   and z old bytes behind its end. *)
LiesAt(reached, x, from, z) ==
  /\ reached \in Nat /\ reached <= filesize
  /\ from \in 0 .. reached /\ z \in Nat /\ (z > 0 => reached = filesize)
  /\ x \in Seq(Nat \X Nat) /\ Len(x) = (reached - from) + z
  /\ \A k \in 1 .. reached - from : x[k] = UnitAt(from + k - 1)
  /\ \A k \in reached - from + 1 .. Len(x) : x[k] = Video!Stale

SyncLies(x, from, z) == LiesAt(position, x, from, z)

(* The first q pages are passed: the buffer starts behind them, or in the last
   of them, which is torn; or at the end of the file. *)
AtPage(from, q) ==
  /\ q \in 0 .. Len(pages)
  /\ \/ /\ from <= Edge(q) /\ (from < Edge(q) => Torn(q))
        /\ q > 0 => Edge(q - 1) < from
     \/ from = position /\ from = filesize /\ q = Video!InFile

(* Where a page starts in the buffer, it is one of the video, not damaged; it is in the
   buffer as a whole if and only if the file is read up to its end. *)
LEMMA StartIs ==
  ASSUME Measured, NEW from, NEW z, SyncLies(sync, from, z), NEW k \in 1 .. Len(sync), Video!Starts(k)
  PROVE  \E p \in 0 .. Len(pages) - 1 :
           /\ k <= position - from /\ from + k - 1 = Edge(p) /\ sync[k][1] = p + 1 /\ ~Torn(p + 1)
           /\ k + pagesize - 1 <= Len(sync) => Edge(p + 1) <= position
           /\ ~(k + pagesize - 1 <= Len(sync)) => position < Edge(p + 1)
<1> DEFINE x == position - from
           L == Len(sync)
<1>1. PICK P \in Nat, f \in Nat, S \in Nat \ {0} :
        P = position /\ f = from /\ S = pagesize /\ x = P - f /\ x \in Nat
  <2>1. position \in Nat /\ from \in 0 .. position
    BY DEF SyncLies, LiesAt
  <2>2. pagesize \in Nat \ {0}
    BY DEF Measured
  <2> QED BY <2>1, <2>2
<1>2. z \in Nat /\ P <= filesize /\ L = x + z /\ L \in Nat
  BY <1>1 DEF SyncLies, LiesAt
<1>3. k <= x
  <2> SUFFICES ASSUME ~(k <= x)
               PROVE  FALSE
    OBVIOUS
  <2>1. sync[k] = Video!Stale
    <3>1. k \in x + 1 .. L
      BY <1>1
    <3> QED BY <1>1, <3>1 DEF SyncLies, LiesAt
  <2>2. sync[k][1] = 0
    BY <2>1 DEF Video!Stale
  <2> QED BY <2>2 DEF Video!Starts
<1>4. PICK p \in Nat, i \in 0 .. pagesize - 1 : f + k - 1 = Edge(p) + i
  <2>1. f + k - 1 \in Nat
    BY <1>1
  <2> QED BY <2>1, PageFound
<1>5. i = 0 /\ sync[k][1] = p + 1
  <2>1. sync[k] = UnitAt(from + k - 1)
    BY <1>1, <1>3 DEF SyncLies, LiesAt
  <2>2. sync[k] = <<p + 1, i + 1>>
    BY <1>1, <1>4, <2>1, UnitIs
  <2>3. sync[k][2] = 1
    BY DEF Video!Starts
  <2>4. i + 1 = 1
    BY <2>2, <2>3
  <2> QED BY <1>1, <2>2, <2>4
<1>6. PICK e \in Nat, e1 \in Nat : e = Edge(p) /\ e1 = Edge(p + 1) /\ e1 = e + S
  <2>1. p + 1 \in Nat
    OBVIOUS
  <2>2. Edge(p) \in Nat /\ Edge(p + 1) \in Nat /\ Edge(p + 1) = Edge(p) + S
    BY <1>1, <2>1, EdgeFacts
  <2> QED BY <2>2
<1>7. f + k - 1 = e
  BY <1>4, <1>5, <1>6
<1>8. p \in 0 .. Len(pages) - 1
  <2>1. PICK n \in Nat : n = Len(pages) /\ filesize <= Edge(n)
    BY DEF Measured
  <2>2. ~(n <= p)
    <3> SUFFICES ASSUME n <= p
                 PROVE  FALSE
      OBVIOUS
    <3>1. Edge(n) <= Edge(p) /\ Edge(n) \in Nat
      BY <2>1, EdgeFacts
    <3>2. e < P
      BY <1>1, <1>3, <1>7
    <3>3. filesize \in Nat
      BY DEF Measured
    <3>4. P <= filesize /\ filesize <= Edge(n) /\ Edge(n) <= e
      BY <1>2, <1>6, <2>1, <3>1
    <3> QED BY <3>1, <3>2, <3>3, <3>4
  <2> QED BY <2>1, <2>2
<1>9. ~Torn(p + 1)
  BY <1>5 DEF Video!Starts, Torn
<1>10. ASSUME k + S - 1 <= L
       PROVE  e1 <= P
  <2> SUFFICES ASSUME ~(e1 <= P)
               PROVE  FALSE
    OBVIOUS
  <2>1. PICK j \in 1 .. S - 1 : k + j = x + 1
    <3>1. x = P - f /\ f \in Nat /\ P \in Nat /\ k \in Nat /\ x \in Nat
      BY <1>1
    <3>2. (P - f) + 1 - k = P - e /\ P - e < S
      <4> HIDE DEF x
      <4>1. (P - f) + 1 - k = P - e
        BY <1>7, <3>1
      <4>2. S \in Nat
        BY <1>1
      <4>3. P - e < S
        BY <1>6, <3>1, <4>2
      <4> QED BY <4>1, <4>3
    <3> HIDE DEF x
    <3>3. x + 1 - k = P - e
      BY <3>1, <3>2
    <3>4. x + 1 - k >= 1 /\ x + 1 - k \in Nat /\ k + (x + 1 - k) = x + 1
      BY <1>3, <3>1
    <3>5. x + 1 - k \in 1 .. S - 1
      BY <1>1, <3>2, <3>3, <3>4
    <3> QED BY <3>4, <3>5
  <2>2. x + 1 \in x + 1 .. L
    BY <1>1, <1>3, <1>10, <2>1
  <2>3. sync[x + 1] = Video!Stale
    BY <1>1, <2>2 DEF SyncLies, LiesAt
  <2>4. sync[k + j] = Video!Unit(sync[k][1], j + 1)
    BY <1>1, <2>1, <2>2 DEF Video!Starts
  <2>5. p + 1 = 0
    BY <1>5, <2>1, <2>3, <2>4 DEF Video!Stale, Video!Unit
  <2> QED BY <2>5
<1>11. ~(k + S - 1 <= L) => P < e1
  BY <1>1, <1>2, <1>6, <1>7
<1> QED BY <1>1, <1>3, <1>5, <1>6, <1>7, <1>8, <1>9, <1>10, <1>11

(* Where a page of the video lies in the buffer, it starts. *)
LEMMA StartsHere ==
  ASSUME Measured, NEW from, NEW z, SyncLies(sync, from, z), NEW p \in Nat, ~Torn(p + 1),
         from <= Edge(p), Edge(p) < position, Edge(p + 1) <= position \/ z = 0
  PROVE  \E k \in 1 .. Len(sync) : from + k - 1 = Edge(p) /\ Video!Starts(k)
<1>1. PICK P \in Nat, f \in Nat, x \in Nat, L \in Nat, S \in Nat \ {0} :
        P = position /\ f = from /\ f <= P /\ x = P - f /\ L = Len(sync) /\ L = x + z /\ S = pagesize
  BY DEF SyncLies, LiesAt, Measured
<1>2. z \in Nat
  BY DEF SyncLies, LiesAt
<1>3. PICK e \in Nat, e1 \in Nat : e = Edge(p) /\ e1 = Edge(p + 1) /\ e1 = e + S
  BY <1>1, EdgeFacts
<1>4. PICK k \in 1 .. x : k = e - f + 1
  BY <1>1, <1>3
<1>5. \A i \in 0 .. S - 1 : k + i <= x => sync[k + i] = <<p + 1, i + 1>>
  <2> TAKE i \in 0 .. S - 1
  <2> HAVE k + i <= x
  <2>1. k + i \in 1 .. x /\ f + (k + i) - 1 = e + i
    BY <1>4
  <2>2. sync[k + i] = UnitAt(from + (k + i) - 1)
    BY <1>1, <2>1 DEF SyncLies, LiesAt
  <2>3. UnitAt(Edge(p) + i) = <<p + 1, i + 1>>
    BY <1>1, UnitIs
  <2> QED BY <1>1, <1>3, <2>1, <2>2, <2>3
<1>6. sync[k] = <<p + 1, 1>>
  <2>1. 0 \in 0 .. S - 1 /\ k + 0 = k /\ k + 0 <= x /\ 0 + 1 = 1
    OBVIOUS
  <2>2. sync[k + 0] = <<p + 1, 0 + 1>>
    BY <1>5, <2>1
  <2> QED BY <2>1, <2>2
<1>7. \A j \in 1 .. S - 1 : k + j <= L => sync[k + j] = Video!Unit(p + 1, j + 1)
  <2> TAKE j \in 1 .. S - 1
  <2> HAVE k + j <= L
  <2>1. k + j <= x
    BY <1>1, <1>2, <1>3, <1>4
  <2>2. j \in 0 .. S - 1
    OBVIOUS
  <2> QED BY <1>5, <2>1, <2>2 DEF Video!Unit
<1>8. Video!Starts(k)
  <2>1. sync[k][1] = p + 1 /\ sync[k][2] = 1 /\ p + 1 > 0
    BY <1>6
  <2>2. ~pages[p + 1].damaged
    BY DEF Torn
  <2> QED BY <1>1, <1>7, <2>1, <2>2 DEF Video!Starts
<1>9. k \in 1 .. Len(sync) /\ from + k - 1 = Edge(p)
  BY <1>1, <1>2, <1>3, <1>4
<1> QED BY <1>8, <1>9

(* The numbers of the buffer. *)
LEMMA SyncTypes ==
  ASSUME Measured, NEW y, NEW from, NEW z, SyncLies(y, from, z)
  PROVE  /\ position \in Nat /\ from \in Nat /\ from <= position /\ z \in Nat
         /\ position <= filesize /\ filesize \in Nat
         /\ pagesize \in Nat \ {0} /\ Len(pages) \in Nat \ {0}
         /\ position - from \in Nat /\ Len(y) = (position - from) + z /\ Len(y) \in Nat
<1>1. position \in Nat /\ from \in 0 .. position /\ z \in Nat /\ position <= filesize
  BY DEF SyncLies, LiesAt
<1>2. pagesize \in Nat \ {0} /\ Len(pages) \in Nat \ {0} /\ filesize \in Nat
  BY DEF Measured
<1>3. Len(y) = (position - from) + z
  BY DEF SyncLies, LiesAt
<1> QED BY <1>1, <1>2, <1>3

(* The first place of the buffer where a page starts. *)
FirstStart(k) ==
  /\ k \in 1 .. Len(sync) /\ Video!Starts(k) /\ \A m \in 1 .. k - 1 : ~Video!Starts(m)

(* All pages behind the first q, up to p, are torn. *)
TornPages(q, p) == \A n \in q + 1 .. p : Torn(n)

(* The first page that starts in the buffer: all pages behind those passed, up to it, are torn. *)
LEMMA FirstIs ==
  ASSUME Measured, NEW from, NEW z, NEW q, SyncLies(sync, from, z), AtPage(from, q),
         NEW k, FirstStart(k)
  PROVE  \E p \in 0 .. Len(pages) - 1 :
           /\ k <= position - from /\ from + k - 1 = Edge(p) /\ sync[k][1] = p + 1 /\ ~Torn(p + 1)
           /\ k + pagesize - 1 <= Len(sync) => Edge(p + 1) <= position
           /\ ~(k + pagesize - 1 <= Len(sync)) => position < Edge(p + 1)
           /\ q <= p /\ TornPages(q, p)
           /\ k > 1 => \E n \in 1 .. q + 1 : Torn(n)
<1>1. k \in 1 .. Len(sync) /\ Video!Starts(k)
  BY DEF FirstStart
<1>2. PICK p \in 0 .. Len(pages) - 1 :
        /\ k <= position - from /\ from + k - 1 = Edge(p) /\ sync[k][1] = p + 1 /\ ~Torn(p + 1)
        /\ k + pagesize - 1 <= Len(sync) => Edge(p + 1) <= position
        /\ ~(k + pagesize - 1 <= Len(sync)) => position < Edge(p + 1)
  BY <1>1, StartIs
<1>3. PICK P \in Nat, f \in Nat, n \in Nat, S \in Nat \ {0} :
        P = position /\ f = from /\ f <= P /\ n = Len(pages) /\ S = pagesize
  BY SyncTypes
<1>4. p \in Nat /\ k \in Nat \ {0} /\ q \in Nat /\ k <= P - f /\ f + k - 1 = Edge(p)
  BY <1>1, <1>2, <1>3 DEF AtPage
<1>5. f # P
  BY <1>3, <1>4
<1>6. /\ f <= Edge(q) /\ (f < Edge(q) => Torn(q))
      /\ q > 0 => Edge(q - 1) < f
  BY <1>3, <1>5 DEF AtPage
<1>7. q <= p
  <2> SUFFICES ASSUME p < q
               PROVE  FALSE
    BY <1>4
  <2>1. q - 1 \in Nat /\ p <= q - 1
    BY <1>4
  <2>2. Edge(p) <= Edge(q - 1) /\ Edge(p) \in Nat /\ Edge(q - 1) \in Nat
    BY <1>4, <2>1, EdgeFacts
  <2>3. CASE q - 1 = p
    <3>1. Edge(q - 1) < f
      BY <1>4, <1>6
    <3> QED BY <1>3, <1>4, <2>2, <3>1
  <2>4. Edge(q - 1) < f
    BY <1>4, <1>6
  <2> QED BY <1>3, <1>4, <2>2, <2>4
<1>8. ASSUME NEW m \in q + 1 .. p
      PROVE  Torn(m)
  <2> SUFFICES ASSUME ~Torn(m)
               PROVE  FALSE
    OBVIOUS
  <2>1. PICK i \in Nat : i = m - 1 /\ i + 1 = m /\ q <= i /\ i < p /\ m <= p
    <3>1. m - 1 \in Nat /\ (m - 1) + 1 = m /\ q <= m - 1 /\ m - 1 < p /\ m <= p
      BY <1>4
    <3> QED BY <3>1
  <2>2. /\ Edge(q) <= Edge(i) /\ Edge(i) + S <= Edge(p)
        /\ Edge(q) \in Nat /\ Edge(i) \in Nat /\ Edge(p) \in Nat
    BY <1>3, <1>4, <2>1, EdgeFacts
  <2>3. Edge(i + 1) = Edge(i) + S
    BY <1>3, <2>1, EdgeFacts
  <2>4. from <= Edge(i) /\ Edge(i) < position /\ Edge(i + 1) <= position
    <3>1. Edge(p) <= P
      BY <1>3, <1>4
    <3>2. f \in Nat /\ f = from /\ P \in Nat /\ P = position /\ S \in Nat \ {0}
      BY <1>3
    <3>3. from <= Edge(i)
      BY <1>6, <2>2, <3>2
    <3>4. Edge(i) + S <= P
      BY <2>2, <3>1, <3>2
    <3> QED BY <2>2, <2>3, <3>2, <3>3, <3>4
  <2>5. PICK l \in 1 .. Len(sync) : from + l - 1 = Edge(i) /\ Video!Starts(l)
    <3>1. ~Torn(i + 1)
      BY <2>1
    <3> QED BY <2>1, <2>4, <3>1, StartsHere
  <2>6. l \in 1 .. k - 1
    <3>1. l \in Nat /\ l >= 1 /\ f + l - 1 = Edge(i)
      BY <1>3, <2>5
    <3>2. k \in Nat /\ f \in Nat /\ f + k - 1 = Edge(p)
      BY <1>3, <1>4
    <3>3. Edge(i) < Edge(p)
      BY <1>3, <2>2
    <3>4. l < k
      BY <2>2, <3>1, <3>2, <3>3
    <3> QED BY <3>1, <3>2, <3>4
  <2> QED BY <2>5, <2>6 DEF FirstStart
<1>9. ASSUME k > 1
      PROVE  \E m \in 1 .. q + 1 : Torn(m)
  <2>1. CASE f < Edge(q)
    <3>1. q # 0
      BY <1>3, <2>1, EdgeFacts
    <3>2. q \in 1 .. q + 1
      BY <1>4, <3>1
    <3> QED BY <1>6, <2>1, <3>2
  <2>2. CASE f = Edge(q)
    <3>1. p # q
      BY <1>3, <1>4, <1>9, <2>2
    <3>2. q + 1 \in q + 1 .. p /\ q + 1 \in 1 .. q + 1
      BY <1>4, <1>7, <3>1
    <3> QED BY <1>8, <3>2
  <2>3. Edge(q) \in Nat
    BY <1>4, EdgeFacts
  <2> QED BY <1>3, <1>6, <2>1, <2>2, <2>3
<1> QED BY <1>2, <1>7, <1>8, <1>9 DEF TornPages

(* If no page starts in the buffer, the file is read up to or into page q2. *)
LEMMA NoStartIs ==
  ASSUME Measured, NEW from, NEW z, NEW q, SyncLies(sync, from, z), AtPage(from, q),
         \A m \in 1 .. Len(sync) : ~Video!Starts(m)
  PROVE  \E q2 \in Nat : /\ AtPage(position, q2) /\ q <= q2 /\ TornPages(q, q2)
                         /\ position < Edge(q2 + 1)
<1>1. PICK P \in Nat, f \in Nat, n \in Nat, S \in Nat \ {0}, l \in Nat :
        P = position /\ f = from /\ f <= P /\ n = Len(pages) /\ S = pagesize /\ l = filesize /\ P <= l
  BY SyncTypes
<1>2. q \in Nat /\ q <= n
  BY <1>1 DEF AtPage
<1>3. l <= Edge(n)
  BY <1>1 DEF Measured
<1>4. CASE f = P /\ P = l /\ q = Video!InFile
  <2>1. AtPage(position, q)
    BY <1>1, <1>4 DEF AtPage
  <2>2. P < Edge(q + 1)
    BY <1>1, <1>4, InFileIs
  <2>3. TornPages(q, q)
    BY <1>2 DEF TornPages
  <2> QED BY <1>1, <1>2, <2>1, <2>2, <2>3
<1>5. CASE ~(f = P /\ P = l /\ q = Video!InFile)
  <2>1. /\ f <= Edge(q) /\ (f < Edge(q) => Torn(q))
        /\ q > 0 => Edge(q - 1) < f
    BY <1>1, <1>5 DEF AtPage
  <2>2. PICK p \in Nat, i \in 0 .. S - 1 : P = Edge(p) + i
    BY <1>1, PageFound
  <2>3. PICK e \in Nat, e1 \in Nat : e = Edge(p) /\ e1 = Edge(p + 1) /\ e1 = e + S
    <3>1. p + 1 \in Nat
      OBVIOUS
    <3>2. Edge(p) \in Nat /\ Edge(p + 1) \in Nat /\ Edge(p + 1) = Edge(p) + S
      BY <1>1, <3>1, EdgeFacts
    <3> QED BY <3>2
  <2>10. e <= P /\ P < e1 /\ (i > 0 => e < P)
    <3>1. P = e + i /\ e1 = e + S
      BY <2>2, <2>3
    <3>2. i \in Nat /\ i < S
      BY <2>2
    <3> QED BY <3>1, <3>2
  <2>4. q <= p + 1
    <3> SUFFICES ASSUME p + 1 < q
                 PROVE  FALSE
      BY <1>2
    <3>1. q - 1 \in Nat /\ p < q - 1
      BY <1>2
    <3>2. PICK g \in Nat : g = Edge(q - 1) /\ e1 <= g
      <4>1. Edge(p) + S <= Edge(q - 1) /\ Edge(q - 1) \in Nat
        BY <1>1, <3>1, EdgeFacts
      <4> QED BY <2>3, <4>1
    <3>3. g < f
      BY <1>2, <2>1, <3>2
    <3>4. f <= P
      BY <1>1
    <3> QED BY <2>10, <3>2, <3>3, <3>4
  <2>5. p <= n /\ (i > 0 => p + 1 <= n)
    <3>1. ASSUME n < p
          PROVE  FALSE
      <4>1. Edge(n) + S <= Edge(p) /\ Edge(n) \in Nat
        BY <1>1, <3>1, EdgeFacts
      <4>2. PICK g \in Nat : g = Edge(n) /\ l <= g /\ g + S <= e
        BY <1>3, <2>3, <4>1
      <4>3. P <= l /\ S > 0
        BY <1>1
      <4> QED BY <2>10, <4>2, <4>3
    <3>2. ASSUME i > 0, p = n
          PROVE  FALSE
      <4>1. P <= l /\ l <= e /\ e < P
        BY <1>1, <1>3, <2>3, <2>10, <3>2
      <4> QED BY <4>1
    <3> QED BY <3>1, <3>2
  <2>6. TornPages(q, p)
    <3> SUFFICES ASSUME NEW m \in q + 1 .. p, ~Torn(m)
                 PROVE  FALSE
      BY DEF TornPages
    <3>1. PICK j \in Nat : j + 1 = m /\ q <= j /\ j < p
      <4>1. m - 1 \in Nat /\ (m - 1) + 1 = m /\ q <= m - 1 /\ m - 1 < p
        BY <1>2
      <4> QED BY <4>1
    <3>2. /\ Edge(q) <= Edge(j) /\ Edge(j) + S <= Edge(p)
          /\ Edge(q) \in Nat /\ Edge(j) \in Nat /\ Edge(j + 1) = Edge(j) + S
      BY <1>1, <1>2, <3>1, EdgeFacts
    <3>3. from <= Edge(j) /\ Edge(j) < position /\ Edge(j + 1) <= position
      <4>1. f <= Edge(q) /\ Edge(p) <= P /\ Edge(p) \in Nat
        BY <2>1, <2>2, <2>3
      <4> QED BY <1>1, <3>2, <4>1
    <3>4. ~Torn(j + 1)
      BY <3>1
    <3>5. PICK k \in 1 .. Len(sync) : Video!Starts(k)
      BY <3>1, <3>3, <3>4, StartsHere
    <3> QED BY <3>5
  <2>7. CASE i = 0
    <3>1. P = Edge(p) /\ P < Edge(p + 1)
      BY <1>1, <2>2, <2>3, <2>7
    <3>2. p > 0 => Edge(p - 1) < P
      <4> SUFFICES ASSUME p > 0
                   PROVE  Edge(p - 1) < P
        OBVIOUS
      <4>1. p - 1 \in Nat /\ p - 1 < p
        OBVIOUS
      <4>2. Edge(p - 1) + S <= Edge(p) /\ Edge(p - 1) \in Nat
        BY <1>1, <4>1, EdgeFacts
      <4> QED BY <1>1, <3>1, <4>2
    <3>3. AtPage(position, p)
      BY <1>1, <2>5, <3>1, <3>2 DEF AtPage
    <3>4. q <= p
      <4> SUFFICES ASSUME q = p + 1
                   PROVE  FALSE
        BY <1>2, <2>4
      <4>1. Edge(p) < f
        <5>1. q > 0 /\ q - 1 = p
          OBVIOUS
        <5> QED BY <2>1, <5>1
      <4> QED BY <1>1, <3>1, <4>1
    <3> QED BY <1>1, <2>6, <3>1, <3>3, <3>4
  <2>8. CASE i > 0 /\ Torn(p + 1)
    <3>1. /\ P < Edge(p + 1) /\ Edge(p) < P
          /\ Edge(p + 1) <= Edge((p + 1) + 1) /\ Edge((p + 1) + 1) \in Nat
      <4>1. p + 1 \in Nat /\ (p + 1) + 1 \in Nat /\ p + 1 <= (p + 1) + 1
        OBVIOUS
      <4>2. Edge(p + 1) <= Edge((p + 1) + 1) /\ Edge((p + 1) + 1) \in Nat
        BY <4>1, EdgeFacts
      <4> QED BY <2>3, <2>8, <2>10, <4>2
    <3>2. (p + 1) - 1 = p /\ p + 1 \in 0 .. Len(pages)
      BY <1>1, <2>5, <2>8
    <3>3. AtPage(position, p + 1)
      BY <1>1, <2>3, <2>8, <3>1, <3>2 DEF AtPage
    <3>4. TornPages(q, p + 1)
      <4> SUFFICES ASSUME NEW m \in q + 1 .. p + 1
                   PROVE  Torn(m)
        BY DEF TornPages
      <4>1. m \in q + 1 .. p \/ m = p + 1
        BY <1>2
      <4> QED BY <2>6, <2>8, <4>1 DEF TornPages
    <3>5. P < Edge((p + 1) + 1)
      BY <2>3, <3>1
    <3> QED BY <1>1, <2>4, <3>3, <3>4, <3>5
  <2>9. CASE i > 0 /\ ~Torn(p + 1)
    <3>1. q <= p
      <4> SUFFICES ASSUME q = p + 1
                   PROVE  FALSE
        BY <1>2, <2>4
      <4>1. f < Edge(q)
        BY <1>1, <2>2, <2>3
      <4> QED BY <2>1, <2>9, <4>1
    <3>2. z # 0
      <4> SUFFICES ASSUME z = 0
                   PROVE  FALSE
        OBVIOUS
      <4>1. Edge(q) <= Edge(p) /\ Edge(q) \in Nat
        BY <1>2, <3>1, EdgeFacts
      <4>2. from <= Edge(p) /\ Edge(p) < position
        <5>1. f <= Edge(q) /\ f = from /\ P = position /\ f \in Nat
          BY <1>1, <2>1
        <5>2. e = Edge(p) /\ e < P
          BY <2>3, <2>9, <2>10
        <5> QED BY <4>1, <5>1, <5>2
      <4>3. PICK k \in 1 .. Len(sync) : Video!Starts(k)
        BY <2>9, <4>2, StartsHere
      <4> QED BY <4>3
    <3>3. P = l
      BY <1>1, <3>2 DEF SyncLies, LiesAt
    <3>4. p = Video!InFile
      <4>1. PICK w \in Nat : w = Video!InFile /\ Edge(w) <= l /\ l < Edge(w + 1)
        BY <1>1, InFileIs
      <4>2. Edge(w) \in Nat /\ Edge(w + 1) = Edge(w) + S
        BY <1>1, <4>1, EdgeFacts
      <4>3. ASSUME w < p
            PROVE  FALSE
        <5>1. Edge(w) + S <= Edge(p)
          BY <1>1, <4>3, EdgeFacts
        <5>2. Edge(w) + S <= e /\ e <= l
          BY <2>3, <2>10, <3>3, <5>1
        <5> QED BY <4>1, <4>2, <5>2
      <4>4. ASSUME p < w
            PROVE  FALSE
        <5>1. Edge(p) + S <= Edge(w)
          BY <1>1, <4>4, EdgeFacts
        <5>2. e1 <= Edge(w) /\ l < e1
          BY <2>3, <2>10, <3>3, <5>1
        <5> QED BY <4>1, <4>2, <5>2
      <4> QED BY <4>1, <4>3, <4>4
    <3>5. AtPage(position, p)
      BY <1>1, <2>5, <3>3, <3>4 DEF AtPage
    <3>6. P < Edge(p + 1)
      BY <1>1, <2>2, <2>3
    <3> QED BY <1>1, <2>6, <3>1, <3>5, <3>6
  <2> QED BY <2>7, <2>8, <2>9
<1> QED BY <1>4, <1>5

(* Units are taken from the front of the buffer. *)
LEMMA RestLies ==
  ASSUME Measured, NEW y, NEW from, NEW z, SyncLies(y, from, z), NEW c \in Nat, c <= position - from
  PROVE  SyncLies(SubSeq(y, c + 1, Len(y)), from + c, z)
<1>1. PICK P \in Nat, f \in Nat, S \in Nat, L \in Nat :
        P = position /\ f = from /\ f <= P /\ L = Len(y) /\ L = (P - f) + z /\ S = z /\ c <= P - f
  BY SyncTypes
<1>2. y \in Seq(Nat \X Nat)
  BY DEF SyncLies, LiesAt
<1> DEFINE r == SubSeq(y, c + 1, L)
           T == Nat \X Nat
<1>3. \A i \in c + 1 .. L : y[i] \in T
  <2> TAKE i \in c + 1 .. L
  <2>1. i \in 1 .. Len(y)
    BY <1>1
  <2> QED BY <1>2, <2>1, LenProperties
<1> HIDE DEF T
<1>4. /\ r \in Seq(T)
      /\ Len(r) = IF c + 1 <= L THEN L - (c + 1) + 1 ELSE 0
      /\ \A i \in 1 .. L - (c + 1) + 1 : r[i] = y[(c + 1) + i - 1]
  <2>1. c + 1 \in Int /\ L \in Int
    BY <1>1
  <2> QED BY <1>3, <2>1, SubSeqProperties
<1> HIDE DEF r
<1>5. Len(r) = (P - (f + c)) + z
  BY <1>1, <1>4
<1>6. \A i \in 1 .. P - (f + c) : r[i] = UnitAt((from + c) + i - 1)
  <2> TAKE i \in 1 .. P - (f + c)
  <2>1. i \in 1 .. L - (c + 1) + 1 /\ (c + 1) + i - 1 = c + i /\ c + i \in 1 .. P - f
    BY <1>1
  <2>2. r[i] = y[c + i]
    BY <1>4, <2>1
  <2>3. y[c + i] = UnitAt(from + (c + i) - 1)
    BY <1>1, <2>1 DEF SyncLies, LiesAt
  <2>4. from + (c + i) - 1 = (from + c) + i - 1
    BY <1>1, <2>1
  <2> QED BY <2>2, <2>3, <2>4
<1>7. \A i \in P - (f + c) + 1 .. Len(r) : r[i] = Video!Stale
  <2> TAKE i \in P - (f + c) + 1 .. Len(r)
  <2>1. /\ i \in 1 .. L - (c + 1) + 1 /\ (c + 1) + i - 1 = c + i
        /\ c + i \in (P - f) + 1 .. L
    BY <1>1, <1>5
  <2>2. r[i] = y[c + i]
    BY <1>4, <2>1
  <2>3. y[c + i] = Video!Stale
    BY <1>1, <2>1 DEF SyncLies, LiesAt
  <2> QED BY <2>2, <2>3
<1>8. f + c \in 0 .. P
  BY <1>1
<1>9. position <= filesize /\ z \in Nat /\ (z > 0 => position = filesize)
  BY DEF SyncLies, LiesAt
<1>10. r \in Seq(Nat \X Nat)
  BY <1>4 DEF T
<1> HIDE <1>3
<1>11. SyncLies(r, from + c, z)
  BY <1>1, <1>5, <1>6, <1>7, <1>8, <1>9, <1>10 DEF SyncLies, LiesAt
<1> QED BY <1>1, <1>11 DEF r

(* What ogg_sync_pageout finds, by the first place where a page starts. *)
FoundAt(k) ==
  IF k > 1 /\ ~unsynced
  THEN [result |-> "gap", page |-> 0, rest |-> SubSeq(sync, k, Len(sync))]
  ELSE IF k + pagesize - 1 <= Len(sync)
  THEN [result |-> "page", page |-> sync[k][1], rest |-> SubSeq(sync, k + pagesize, Len(sync))]
  ELSE [result |-> "none", page |-> 0, rest |-> SubSeq(sync, k, Len(sync))]

(* ogg_sync_pageout acts by the first place where a page starts, or by the end of the buffer. *)
LEMMA PageOutFound ==
  ASSUME sync \in Seq(Nat \X Nat)
  PROVE  \/ \E k : FirstStart(k) /\ Video!PageOut = FoundAt(k)
         \/ /\ \A m \in 1 .. Len(sync) : ~Video!Starts(m)
            /\ Video!PageOut = FoundAt(Len(sync) + 1)
<1> DEFINE starts == {k \in DOMAIN sync : Video!Starts(k)}
           first == CHOOSE n \in starts : \A m \in starts : n <= m
<1>1. DOMAIN sync = 1 .. Len(sync) /\ Len(sync) \in Nat
  BY LenProperties
<1>2. Video!PageOut = FoundAt(IF starts = {} THEN Len(sync) + 1 ELSE first)
  BY DEF Video!PageOut, FoundAt
<1>3. CASE starts = {}
  BY <1>1, <1>2, <1>3
<1>4. CASE starts # {}
  <2>1. starts \subseteq Nat
    BY <1>1
  <2>2. \E n \in starts : \A m \in starts : n <= m
    <3> HIDE DEF starts
    <3> QED BY <1>4, <2>1, Least
  <2>3. first \in starts /\ \A m \in starts : first <= m
    <3> HIDE DEF starts
    <3> QED BY <2>2
  <2>4. first \in 1 .. Len(sync) /\ Video!Starts(first)
    BY <1>1, <2>3
  <2>5. ASSUME NEW m \in 1 .. first - 1, Video!Starts(m)
        PROVE  FALSE
    <3> HIDE DEF first
    <3>1. m \in starts
      BY <1>1, <2>4, <2>5
    <3>2. first <= m
      BY <2>3, <3>1
    <3> QED BY <1>1, <2>4, <3>2
  <2>6. FirstStart(first)
    BY <2>4, <2>5 DEF FirstStart
  <2> QED BY <1>2, <1>4, <2>6
<1> QED BY <1>3, <1>4

(* The first w pages are those before the first torn one of the file. *)
Intact(w) ==
  /\ w \in 0 .. Video!InFile /\ \A p \in 1 .. w : ~Torn(p)
  /\ w < Video!InFile => Torn(w + 1)

(* Behind page q no page is waiting in the buffer, unless the first w pages are
   passed. *)
Awaits(q, w) == w <= q \/ position < Edge(q + 1)

(* When a torn page is passed, so are all pages before the first torn one. *)
LEMMA TornPassed ==
  ASSUME NEW w, Intact(w), Video!InFile \in Nat, NEW q \in Nat, NEW n \in 1 .. q + 1, Torn(n)
  PROVE  w <= q
<1>1. w \in Nat
  BY DEF Intact
<1>2. ~(n \in 1 .. w)
  BY DEF Intact
<1> QED BY <1>1, <1>2

(* ogg_sync_pageout passes pages of the video: those that are torn, then the
   page it returns. *)
Passes(q, q2, w) ==
  /\ q \in Nat /\ q2 \in Nat /\ q <= q2
  /\ Video!PageOut.result = "page" =>
       /\ Video!PageOut.page = q2 /\ q < q2 /\ q2 <= Len(pages) /\ ~Torn(q2) /\ Edge(q2) <= position
       /\ TornPages(q, q2 - 1)
  /\ Video!PageOut.result # "page" => TornPages(q, q2) /\ Awaits(q2, w)

(* ogg_sync_pageout passes torn pages and returns the page behind them, if it is there. *)
LEMMA PageOutIs ==
  ASSUME Measured, NEW from, NEW z, NEW q, NEW w, SyncLies(sync, from, z), AtPage(from, q), Intact(w)
  PROVE  \E from2, z2, q2 :
           SyncLies(Video!PageOut.rest, from2, z2) /\ AtPage(from2, q2) /\ Passes(q, q2, w)
<1>1. PICK P \in Nat, f \in Nat, n \in Nat, S \in Nat \ {0}, L \in Nat :
        P = position /\ f = from /\ f <= P /\ n = Len(pages) /\ S = pagesize
        /\ L = Len(sync) /\ z \in Nat /\ L = (P - f) + z
  <2>1. /\ position \in Nat /\ from \in Nat /\ from <= position /\ z \in Nat
        /\ pagesize \in Nat \ {0} /\ Len(pages) \in Nat
        /\ Len(sync) = (position - from) + z /\ Len(sync) \in Nat
    BY SyncTypes
  <2> QED BY <2>1
<1>2. q \in Nat /\ Video!InFile \in Nat
  BY InFileIs DEF AtPage
<1>3. ASSUME NEW k, FirstStart(k), Video!PageOut = FoundAt(k)
      PROVE  \E from2, z2, q2 :
               SyncLies(Video!PageOut.rest, from2, z2) /\ AtPage(from2, q2) /\ Passes(q, q2, w)
  <2>1. PICK p \in 0 .. Len(pages) - 1 :
          /\ k <= position - from /\ from + k - 1 = Edge(p) /\ sync[k][1] = p + 1 /\ ~Torn(p + 1)
          /\ k + pagesize - 1 <= Len(sync) => Edge(p + 1) <= position
          /\ ~(k + pagesize - 1 <= Len(sync)) => position < Edge(p + 1)
          /\ q <= p /\ TornPages(q, p)
          /\ k > 1 => \E m \in 1 .. q + 1 : Torn(m)
    BY <1>3, FirstIs
  <2>2. k \in Nat /\ k >= 1 /\ p \in Nat /\ p + 1 <= n /\ k - 1 \in Nat /\ (k - 1) + 1 = k
    <3>1. k \in 1 .. Len(sync)
      BY <1>3 DEF FirstStart
    <3> QED BY <1>1, <3>1
  <2>3. PICK e \in Nat, e1 \in Nat : e = Edge(p) /\ e1 = Edge(p + 1) /\ e1 = e + S
    <3>1. p + 1 \in Nat
      BY <2>2
    <3>2. Edge(p) \in Nat /\ Edge(p + 1) \in Nat /\ Edge(p + 1) = Edge(p) + S
      BY <1>1, <2>2, <3>1, EdgeFacts
    <3> QED BY <3>2
  <2>4. f + (k - 1) = e /\ k - 1 <= P - f /\ e <= P
    BY <1>1, <2>1, <2>2, <2>3
  <2>5. p > 0 => Edge(p - 1) < e
    <3> SUFFICES ASSUME p > 0
                 PROVE  Edge(p - 1) < e
      OBVIOUS
    <3>1. p - 1 \in Nat /\ p - 1 < p
      BY <2>2
    <3>2. Edge(p - 1) + S <= Edge(p) /\ Edge(p - 1) \in Nat
      BY <1>1, <2>2, <3>1, EdgeFacts
    <3> QED BY <1>1, <2>3, <3>2
  <2>6. CASE Video!PageOut.result = "page"
    <3>1. ~(k > 1 /\ ~unsynced) /\ k + pagesize - 1 <= Len(sync)
      BY <1>3, <2>6 DEF FoundAt
    <3>2. Video!PageOut.page = p + 1 /\ Video!PageOut.rest = SubSeq(sync, k + pagesize, Len(sync))
      BY <1>3, <2>1, <3>1 DEF FoundAt
    <3>3. Edge(p + 1) <= position
      BY <2>1, <3>1
    <3>4. PICK c \in Nat : c = (k - 1) + S /\ c <= P - f /\ c + 1 = k + S /\ f + c = e1
      <4>1. (k - 1) + S \in Nat /\ (k - 1) + S <= P - f /\ ((k - 1) + S) + 1 = k + S
            /\ f + ((k - 1) + S) = e1
        BY <1>1, <2>2, <2>3, <2>4, <3>3
      <4> QED BY <4>1
    <3>5. SyncLies(Video!PageOut.rest, from + c, z)
      BY <1>1, <3>2, <3>4, RestLies
    <3>6. AtPage(from + c, p + 1)
      <4>1. (p + 1) - 1 = p /\ p + 1 \in 0 .. Len(pages)
        BY <1>1, <2>2
      <4>2. e < e1
        BY <1>1, <2>3
      <4>3. PICK g : g = from + c
        OBVIOUS
      <4>4. g = Edge(p + 1)
        BY <1>1, <2>3, <3>4, <4>3
      <4>5. g = e1 /\ Edge((p + 1) - 1) = e
        BY <2>3, <4>1, <4>4
      <4>6. AtPage(g, p + 1)
        BY <4>1, <4>2, <4>4, <4>5, <2>3 DEF AtPage
      <4> QED BY <4>3, <4>6
    <3>7. p + 1 \in Nat /\ q <= p + 1 /\ q < p + 1 /\ (p + 1) - 1 = p /\ p + 1 <= Len(pages)
      <4>1. q <= p
        BY <2>1
      <4> QED BY <1>1, <1>2, <2>2, <4>1
    <3>8. Passes(q, p + 1, w)
      BY <1>2, <2>1, <2>6, <3>2, <3>3, <3>7 DEF Passes
    <3> QED BY <3>5, <3>6, <3>8
  <2>7. CASE Video!PageOut.result # "page"
    <3>1. Video!PageOut.rest = SubSeq(sync, k, Len(sync))
      BY <1>3, <2>7 DEF FoundAt
    <3>2. k > 1 \/ ~(k + pagesize - 1 <= Len(sync))
      BY <1>3, <2>7 DEF FoundAt
    <3>3. SyncLies(Video!PageOut.rest, from + (k - 1), z)
      BY <1>1, <2>2, <2>4, <3>1, RestLies
    <3>4. AtPage(from + (k - 1), p)
      <4>1. p \in 0 .. Len(pages)
        BY <1>1, <2>2
      <4> QED BY <1>1, <2>3, <2>4, <2>5, <4>1 DEF AtPage
    <3>5. Awaits(p, w)
      <4>1. CASE k > 1
        <5>1. PICK m \in 1 .. q + 1 : Torn(m)
          BY <2>1, <4>1
        <5>2. w <= q /\ w \in Nat
          BY <1>2, <5>1, TornPassed DEF Intact
        <5>3. w <= p
          BY <1>2, <2>1, <2>2, <5>2
        <5> QED BY <5>3 DEF Awaits
      <4>2. CASE ~(k + pagesize - 1 <= Len(sync))
        BY <2>1, <4>2 DEF Awaits
      <4> QED BY <3>2, <4>1, <4>2
    <3>6. Passes(q, p, w)
      BY <1>2, <2>1, <2>2, <2>7, <3>5 DEF Passes
    <3> QED BY <3>3, <3>4, <3>6
  <2> QED BY <2>6, <2>7
<1>4. ASSUME \A m \in 1 .. Len(sync) : ~Video!Starts(m), Video!PageOut = FoundAt(Len(sync) + 1)
      PROVE  \E from2, z2, q2 :
               SyncLies(Video!PageOut.rest, from2, z2) /\ AtPage(from2, q2) /\ Passes(q, q2, w)
  <2>1. PICK q2 \in Nat : AtPage(position, q2) /\ q <= q2 /\ TornPages(q, q2) /\ position < Edge(q2 + 1)
    BY <1>4, NoStartIs
  <2>2. ~(Len(sync) + 1 + pagesize - 1 <= Len(sync))
    BY <1>1
  <2>3. Video!PageOut.result # "page" /\ Video!PageOut.rest = SubSeq(sync, Len(sync) + 1, Len(sync))
    BY <1>4, <2>2 DEF FoundAt
  <2>4. Video!PageOut.rest = <<>>
    <3>1. Len(sync) + 1 \in Int /\ Len(sync) \in Int /\ Len(sync) < Len(sync) + 1
      BY <1>1
    <3> QED BY <2>3, <3>1, SubSeqEmpty
  <2>5. SyncLies(<<>>, position, 0)
    <3>1. Len(<<>>) = 0 /\ <<>> \in Seq(Nat \X Nat)
      OBVIOUS
    <3>2. position <= filesize /\ position \in Nat /\ position - position = 0
      BY SyncTypes
    <3> QED BY <3>1, <3>2 DEF SyncLies, LiesAt
  <2>6. Passes(q, q2, w)
    BY <1>2, <2>1, <2>3 DEF Passes, Awaits
  <2> QED BY <2>1, <2>4, <2>5, <2>6
<1>5. sync \in Seq(Nat \X Nat)
  BY DEF SyncLies, LiesAt
<1> QED BY <1>3, <1>4, <1>5, PageOutFound

(* Units are pairs of numbers. *)
LEMMA UnitType ==
  ASSUME Measured, NEW u \in Nat
  PROVE  UnitAt(u) \in Nat \X Nat
<1>1. PICK p \in Nat, i \in 0 .. pagesize - 1 : u = Edge(p) + i
  BY PageFound
<1>2. UnitAt(u) = <<p + 1, i + 1>>
  BY <1>1, UnitIs
<1>3. p + 1 \in Nat /\ i + 1 \in Nat
  BY DEF Measured
<1> QED BY <1>2, <1>3

(* Units are read behind those in the buffer. *)
LEMMA MoreLies ==
  ASSUME Measured, NEW y, NEW from, NEW z, SyncLies(y, from, z), position < filesize,
         NEW c \in Nat, c <= filesize - position
  PROVE  LiesAt(position + c, y \o Video!Content(position, c), from, 0)
<1>1. PICK P \in Nat, f \in Nat, l \in Nat, x \in Nat :
        P = position /\ f = from /\ f <= P /\ l = filesize /\ x = P - f /\ P < l
  <2>1. /\ position \in Nat /\ from \in Nat /\ from <= position /\ filesize \in Nat
        /\ position - from \in Nat
    BY SyncTypes
  <2> QED BY <2>1
<1>2. z = 0 /\ Len(y) = x
  <2>1. z \in Nat /\ (z > 0 => position = filesize) /\ Len(y) = (position - from) + z
    BY DEF SyncLies, LiesAt
  <2>2. z = 0
    BY <1>1, <2>1
  <2> QED BY <1>1, <2>1, <2>2
<1> DEFINE t == Video!Content(position, c)
           T == Nat \X Nat
<1>3. t \in Seq(T) /\ Len(t) = c /\ \A k \in 1 .. c : t[k] = UnitAt(P + k - 1)
  <2>1. \A k \in 1 .. c : UnitAt(P + k - 1) \in T
    <3> TAKE k \in 1 .. c
    <3>1. P + k - 1 \in Nat
      OBVIOUS
    <3> QED BY <3>1, UnitType
  <2>2. t = [k \in 1 .. c |-> UnitAt(P + k - 1)]
    BY <1>1 DEF Video!Content, UnitAt
  <2> HIDE DEF t, T
  <2> QED BY <2>1, <2>2
<1>4. y \in Seq(T)
  BY DEF SyncLies, LiesAt
<1>5. \A k \in 1 .. x : y[k] = UnitAt(f + k - 1)
  BY <1>1 DEF SyncLies, LiesAt
<1> HIDE DEF t, T
<1>6. /\ y \o t \in Seq(T) /\ Len(y \o t) = x + c
      /\ \A i \in 1 .. x + c : (y \o t)[i] = IF i <= x THEN y[i] ELSE t[i - x]
  BY <1>2, <1>3, <1>4, ConcatProperties
<1>7. ASSUME NEW i \in 1 .. x + c
      PROVE  (y \o t)[i] = UnitAt(f + i - 1)
  <2>1. CASE i <= x
    <3>1. i \in 1 .. x
      BY <2>1
    <3> QED BY <1>5, <1>6, <2>1, <3>1
  <2>2. CASE ~(i <= x)
    <3>1. i - x \in 1 .. c /\ P + (i - x) - 1 = f + i - 1
      BY <1>1, <2>2
    <3> QED BY <1>3, <1>6, <2>2, <3>1
  <2> QED BY <2>1, <2>2
<1>8. P + c \in Nat /\ P + c <= l /\ f \in 0 .. P + c /\ (P + c) - f = x + c
  BY <1>1
<1>9. \A i \in (P + c) - f + 1 .. Len(y \o t) : (y \o t)[i] = Video!Stale
  <2>1. (P + c) - f + 1 = Len(y \o t) + 1
    BY <1>1, <1>6
  <2>2. Len(y \o t) \in Nat
    BY <1>6, <1>8
  <2> QED BY <2>1, <2>2
<1>10. y \o t \in Seq(Nat \X Nat)
  BY <1>6 DEF T
<1>11. Len(y \o t) = ((P + c) - f) + 0
  BY <1>6, <1>8
<1>12. LiesAt(P + c, y \o t, f, 0)
  BY <1>1, <1>7, <1>8, <1>9, <1>10, <1>11 DEF LiesAt
<1> QED BY <1>1, <1>12 DEF t

(* What the stack holds comes behind the end of the video. *)
LEMMA StaleLies ==
  ASSUME Measured, NEW y, NEW from, NEW z, SyncLies(y, from, z), ~(position < filesize), NEW c \in Nat
  PROVE  LiesAt(position, y \o [k \in 1 .. c |-> Video!Stale], from, z + c)
<1>1. PICK P \in Nat, f \in Nat, x \in Nat :
        P = position /\ f = from /\ f <= P /\ x = P - f /\ P = filesize
  <2>1. /\ position \in Nat /\ from \in Nat /\ from <= position /\ filesize \in Nat
        /\ position - from \in Nat /\ position <= filesize
    BY SyncTypes
  <2> QED BY <2>1
<1>2. PICK n \in Nat : z \in Nat /\ Len(y) = n /\ n = x + z
  <2>1. z \in Nat /\ Len(y) = x + z
    BY <1>1 DEF SyncLies, LiesAt
  <2> QED BY <2>1
<1> DEFINE t == [k \in 1 .. c |-> Video!Stale]
           T == Nat \X Nat
<1>3. t \in Seq(T) /\ Len(t) = c /\ \A k \in 1 .. c : t[k] = Video!Stale
  <2>1. Video!Stale \in T
    BY DEF Video!Stale
  <2> HIDE DEF T
  <2> QED BY <2>1
<1>4. y \in Seq(T)
  BY DEF SyncLies, LiesAt
<1>5. /\ \A k \in 1 .. x : y[k] = UnitAt(f + k - 1)
      /\ \A k \in x + 1 .. n : y[k] = Video!Stale
  BY <1>1, <1>2 DEF SyncLies, LiesAt
<1> HIDE DEF t, T
<1>6. /\ y \o t \in Seq(T) /\ Len(y \o t) = n + c
      /\ \A i \in 1 .. n + c : (y \o t)[i] = IF i <= n THEN y[i] ELSE t[i - n]
  <2>1. /\ y \o t \in Seq(T) /\ Len(y \o t) = Len(y) + Len(t)
        /\ \A i \in 1 .. Len(y) + Len(t) : (y \o t)[i] = IF i <= Len(y) THEN y[i] ELSE t[i - Len(y)]
    BY <1>3, <1>4, ConcatProperties
  <2>2. Len(y) = n /\ Len(t) = c
    BY <1>2, <1>3
  <2> QED BY <2>1, <2>2
<1>7. ASSUME NEW i \in 1 .. x
      PROVE  (y \o t)[i] = UnitAt(f + i - 1)
  <2>1. i \in 1 .. n + c /\ i <= n
    BY <1>2
  <2> QED BY <1>5, <1>6, <2>1
<1>8. ASSUME NEW i \in x + 1 .. n + c
      PROVE  (y \o t)[i] = Video!Stale
  <2>1. i \in 1 .. n + c
    BY <1>2
  <2>2. CASE i <= n
    <3>1. i \in x + 1 .. n
      BY <1>2, <2>2
    <3> QED BY <1>5, <1>6, <2>1, <2>2, <3>1
  <2>3. CASE ~(i <= n)
    <3>1. i - n \in 1 .. c
      BY <1>2, <2>1, <2>3
    <3> QED BY <1>3, <1>6, <2>1, <2>3, <3>1
  <2> QED BY <2>2, <2>3
<1>9. y \o t \in Seq(Nat \X Nat)
  BY <1>6 DEF T
<1>10. z + c \in Nat /\ f \in 0 .. P /\ Len(y \o t) = (P - f) + (z + c)
  <2>1. Len(y \o t) = n + c
    BY <1>6
  <2>2. n = (P - f) + z /\ z \in Nat
    BY <1>1, <1>2
  <2>3. n + c = (P - f) + (z + c)
    BY <2>2
  <2>4. z + c \in Nat /\ f \in 0 .. P
    BY <1>1, <2>2
  <2> QED BY <2>1, <2>3, <2>4
<1>11. \A i \in 1 .. P - f : (y \o t)[i] = UnitAt(f + i - 1)
  BY <1>1, <1>7
<1>12. \A i \in P - f + 1 .. Len(y \o t) : (y \o t)[i] = Video!Stale
  BY <1>1, <1>6, <1>8
<1>13. P \in Nat /\ P <= filesize /\ (z + c > 0 => P = filesize)
  BY <1>1
<1> HIDE <1>6, <1>7, <1>8
<1>14. LiesAt(P, y \o t, f, z + c)
  BY <1>9, <1>10, <1>11, <1>12, <1>13 DEF LiesAt
<1> QED BY <1>1, <1>14 DEF t

-----------------------------------------------------------------------------
(* The packets in the queue by the frames they hold: fs is the frames of the
   video.  Packet c stands where i frames are before it and j after it; a gap
   only where low frames are before it. *)
Follows(c, i, j, fs, low) ==
  \/ c > 0 /\ j = i + 1 /\ fs[j] = c
  \/ c \in {Video!Header, Video!Refused, Video!Hole} /\ j = i /\ (c = Video!Hole => low <= i)

(* r[k] frames stand before packet k of t; a before the first, b behind the last. *)
RankedBy(r, t, a, b, fs, low) ==
  /\ r \in [1 .. Len(t) + 1 -> Nat]
  /\ r[1] = a /\ r[Len(t) + 1] = b
  /\ \A k \in 1 .. Len(t) : Follows(t[k], r[k], r[k + 1], fs, low) /\ r[k + 1] <= b

Ranked(t, a, b, fs, low) ==
  t \in Seq(Int) /\ a \in Nat /\ b \in Nat /\ \E r : RankedBy(r, t, a, b, fs, low)

(* Without packets no frame comes. *)
LEMMA RankedNone ==
  ASSUME NEW a, NEW b, NEW fs, NEW low
  PROVE  Ranked(<<>>, a, b, fs, low) <=> a \in Nat /\ b = a
<1>1. Len(<<>>) = 0 /\ <<>> \in Seq(Int)
  OBVIOUS
<1>2. ASSUME Ranked(<<>>, a, b, fs, low)
      PROVE  a \in Nat /\ b = a
  <2>1. PICK r : RankedBy(r, <<>>, a, b, fs, low)
    BY <1>2 DEF Ranked
  <2>2. r[1] = a /\ r[0 + 1] = b
    BY <1>1, <2>1 DEF RankedBy
  <2> QED BY <1>2, <2>2 DEF Ranked
<1>3. ASSUME a \in Nat, b = a
      PROVE  Ranked(<<>>, a, b, fs, low)
  <2> DEFINE r == [k \in 1 .. 1 |-> a]
  <2>1. r \in [1 .. 0 + 1 -> Nat] /\ r[1] = a /\ r[0 + 1] = a
    BY <1>3
  <2> HIDE DEF r
  <2>2. RankedBy(r, <<>>, a, b, fs, low)
    BY <1>1, <1>3, <2>1 DEF RankedBy
  <2> QED BY <1>1, <1>3, <2>2 DEF Ranked
<1> QED BY <1>2, <1>3

(* A single packet. *)
LEMMA RankedOne ==
  ASSUME NEW c \in Int, NEW a \in Nat, NEW b \in Nat, NEW fs, NEW low, Follows(c, a, b, fs, low)
  PROVE  Ranked(<<c>>, a, b, fs, low)
<1> DEFINE r == [k \in 1 .. 2 |-> IF k = 1 THEN a ELSE b]
<1>1. Len(<<c>>) = 1 /\ <<c>> \in Seq(Int) /\ <<c>>[1] = c
  OBVIOUS
<1>2. r \in [1 .. 1 + 1 -> Nat] /\ r[1] = a /\ r[1 + 1] = b
  OBVIOUS
<1> HIDE DEF r
<1>3. ASSUME NEW k \in 1 .. 1
      PROVE  Follows(<<c>>[k], r[k], r[k + 1], fs, low) /\ r[k + 1] <= b
  <2>1. k = 1
    OBVIOUS
  <2> QED BY <1>1, <1>2, <2>1
<1>4. RankedBy(r, <<c>>, a, b, fs, low)
  BY <1>1, <1>2, <1>3 DEF RankedBy
<1> QED BY <1>1, <1>4 DEF Ranked

(* Packets bring no frame back. *)
LEMMA RankedOrder ==
  ASSUME NEW t, NEW a, NEW b, NEW fs, NEW low, Ranked(t, a, b, fs, low)
  PROVE  a \in Nat /\ b \in Nat /\ a <= b
<1>1. PICK r : RankedBy(r, t, a, b, fs, low)
  BY DEF Ranked
<1>2. t \in Seq(Int) /\ a \in Nat /\ b \in Nat
  BY DEF Ranked
<1>3. CASE t = <<>>
  BY <1>3, RankedNone
<1>4. CASE t # <<>>
  <2>1. Len(t) \in Nat /\ 1 \in 1 .. Len(t)
    BY <1>2, <1>4, EmptySeq
  <2>2. PICK i \in Nat, j \in Nat : i = r[1] /\ j = r[1 + 1]
    <3>1. 1 \in 1 .. Len(t) + 1 /\ 1 + 1 \in 1 .. Len(t) + 1
      BY <2>1
    <3> QED BY <1>1, <3>1 DEF RankedBy
  <2>3. Follows(t[1], i, j, fs, low) /\ j <= b /\ i = a
    BY <1>1, <2>1, <2>2 DEF RankedBy
  <2>4. i <= j
    BY <2>2, <2>3 DEF Follows
  <2> QED BY <1>2, <2>2, <2>3, <2>4
<1> QED BY <1>2, <1>3, <1>4

(* Packets behind packets. *)
LEMMA RankedJoin ==
  ASSUME NEW t, NEW u, NEW a, NEW b, NEW c, NEW fs, NEW low,
         Ranked(t, a, b, fs, low), Ranked(u, b, c, fs, low)
  PROVE  Ranked(t \o u, a, c, fs, low)
<1>1. PICK r : RankedBy(r, t, a, b, fs, low)
  BY DEF Ranked
<1>2. PICK g : RankedBy(g, u, b, c, fs, low)
  BY DEF Ranked
<1>3. t \in Seq(Int) /\ u \in Seq(Int) /\ a \in Nat /\ b \in Nat /\ c \in Nat
  BY DEF Ranked
<1>4. b <= c
  BY RankedOrder
<1>5. PICK m \in Nat, n \in Nat : m = Len(t) /\ n = Len(u)
  BY <1>3
<1>6. /\ t \o u \in Seq(Int) /\ Len(t \o u) = m + n
      /\ \A k \in 1 .. m + n : (t \o u)[k] = IF k <= m THEN t[k] ELSE u[k - m]
  BY <1>3, <1>5, ConcatProperties
<1> DEFINE h == [k \in 1 .. m + n + 1 |-> IF k <= m THEN r[k] ELSE g[k - m]]
<1>7. /\ r \in [1 .. m + 1 -> Nat] /\ r[1] = a /\ r[m + 1] = b
      /\ g \in [1 .. n + 1 -> Nat] /\ g[1] = b /\ g[n + 1] = c
  BY <1>1, <1>2, <1>5 DEF RankedBy
<1>8. h \in [1 .. m + n + 1 -> Nat]
  <2>1. \A k \in 1 .. m + n + 1 : ~(k <= m) => k - m \in 1 .. n + 1
    OBVIOUS
  <2>2. \A k \in 1 .. m + n + 1 : k <= m => k \in 1 .. m + 1
    OBVIOUS
  <2> QED BY <1>7, <2>1, <2>2
<1>9. \A k \in 1 .. m + 1 : h[k] = r[k]
  <2> TAKE k \in 1 .. m + 1
  <2>1. CASE k <= m
    BY <2>1
  <2>2. CASE ~(k <= m)
    <3>1. k = m + 1 /\ k - m = 1 /\ k \in 1 .. m + n + 1
      BY <2>2
    <3> QED BY <1>7, <2>2, <3>1
  <2> QED BY <2>1, <2>2
<1>10. \A k \in 1 .. n + 1 : h[m + k] = g[k]
  <2> TAKE k \in 1 .. n + 1
  <2>1. m + k \in 1 .. m + n + 1 /\ ~(m + k <= m) /\ (m + k) - m = k
    OBVIOUS
  <2> QED BY <2>1
<1> HIDE DEF h
<1>11. h[1] = a /\ h[m + n + 1] = c
  <2>1. 1 \in 1 .. m + 1 /\ n + 1 \in 1 .. n + 1 /\ m + (n + 1) = m + n + 1
    OBVIOUS
  <2> QED BY <1>7, <1>9, <1>10, <2>1
<1>12. ASSUME NEW k \in 1 .. m + n
       PROVE  Follows((t \o u)[k], h[k], h[k + 1], fs, low) /\ h[k + 1] <= c
  <2>1. CASE k <= m
    <3>1. k \in 1 .. m /\ k \in 1 .. m + 1 /\ k + 1 \in 1 .. m + 1
      BY <2>1
    <3>2. Follows(t[k], r[k], r[k + 1], fs, low) /\ r[k + 1] <= b /\ r[k + 1] \in Nat
      BY <1>1, <1>5, <1>7, <3>1 DEF RankedBy
    <3>3. (t \o u)[k] = t[k] /\ h[k] = r[k] /\ h[k + 1] = r[k + 1]
      BY <1>6, <1>9, <2>1, <3>1
    <3>4. h[k + 1] <= c
      BY <1>3, <1>4, <3>2, <3>3
    <3> QED BY <3>2, <3>3, <3>4
  <2>2. CASE ~(k <= m)
    <3>1. PICK i \in 1 .. n : i = k - m /\ k = m + i
      <4>1. k - m \in 1 .. n /\ k = m + (k - m)
        BY <2>2
      <4> QED BY <4>1
    <3>2. Follows(u[i], g[i], g[i + 1], fs, low) /\ g[i + 1] <= c
      BY <1>2, <1>5, <3>1 DEF RankedBy
    <3>3. i \in 1 .. n + 1 /\ i + 1 \in 1 .. n + 1 /\ k + 1 = m + (i + 1)
      BY <3>1
    <3>4. (t \o u)[k] = u[i] /\ h[k] = g[i] /\ h[k + 1] = g[i + 1]
      BY <1>6, <1>10, <2>2, <3>1, <3>3
    <3> QED BY <3>2, <3>4
  <2> QED BY <2>1, <2>2
<1>13. RankedBy(h, t \o u, a, c, fs, low)
  BY <1>6, <1>8, <1>11, <1>12 DEF RankedBy
<1> QED BY <1>3, <1>6, <1>13 DEF Ranked

(* The first packet is the next frame, or none and the others stand as before. *)
LEMMA RankedTail ==
  ASSUME NEW t, NEW a, NEW b, NEW fs, NEW low, Ranked(t, a, b, fs, low), t # <<>>
  PROVE  /\ Head(t) \in Int
         /\ \/ Head(t) > 0 /\ fs[a + 1] = Head(t) /\ Ranked(Tail(t), a + 1, b, fs, low)
            \/ /\ Head(t) \in {Video!Header, Video!Refused, Video!Hole}
               /\ Head(t) = Video!Hole => low <= a
               /\ Ranked(Tail(t), a, b, fs, low)
<1>1. PICK r : RankedBy(r, t, a, b, fs, low)
  BY DEF Ranked
<1>2. t \in Seq(Int) /\ a \in Nat /\ b \in Nat
  BY DEF Ranked
<1>3. PICK n \in Nat : Len(t) = n + 1
  <2>1. Len(t) \in Nat \ {0}
    BY <1>2, EmptySeq
  <2>2. Len(t) - 1 \in Nat /\ Len(t) = (Len(t) - 1) + 1
    BY <2>1
  <2> QED BY <2>2
<1>4. /\ Head(t) \in Int /\ Tail(t) \in Seq(Int) /\ Len(Tail(t)) = n
      /\ \A i \in 1 .. n : Tail(t)[i] = t[i + 1]
  <2>1. /\ Head(t) \in Int /\ Tail(t) \in Seq(Int) /\ Len(Tail(t)) = Len(t) - 1
        /\ \A i \in 1 .. Len(Tail(t)) : Tail(t)[i] = t[i + 1]
    BY <1>2, HeadTailProperties
  <2>2. Len(t) - 1 = n
    BY <1>3
  <2> QED BY <2>1, <2>2
<1>5. Head(t) = t[1]
  BY <1>2
<1>6. /\ r \in [1 .. n + 2 -> Nat] /\ r[1] = a /\ r[n + 2] = b
      /\ \A k \in 1 .. n + 1 : Follows(t[k], r[k], r[k + 1], fs, low) /\ r[k + 1] <= b
  <2>1. (n + 1) + 1 = n + 2
    OBVIOUS
  <2> QED BY <1>1, <1>3, <2>1 DEF RankedBy
<1> DEFINE g == [k \in 1 .. n + 1 |-> r[k + 1]]
<1>7. g \in [1 .. n + 1 -> Nat]
  <2>1. \A k \in 1 .. n + 1 : k + 1 \in 1 .. n + 2
    OBVIOUS
  <2> QED BY <1>6, <2>1
<1>8. g[1] = r[2] /\ g[n + 1] = b
  <2>1. 1 \in 1 .. n + 1 /\ n + 1 \in 1 .. n + 1 /\ (n + 1) + 1 = n + 2 /\ 1 + 1 = 2
    OBVIOUS
  <2> QED BY <1>6, <2>1
<1>9. ASSUME NEW k \in 1 .. n
      PROVE  Follows(Tail(t)[k], g[k], g[k + 1], fs, low) /\ g[k + 1] <= b
  <2>1. k \in 1 .. n + 1 /\ k + 1 \in 1 .. n + 1
    OBVIOUS
  <2>2. g[k] = r[k + 1] /\ g[k + 1] = r[(k + 1) + 1]
    BY <2>1
  <2> QED BY <1>4, <1>6, <2>1, <2>2
<1> HIDE DEF g
<1>10. RankedBy(g, Tail(t), r[2], b, fs, low)
  BY <1>4, <1>7, <1>8, <1>9 DEF RankedBy
<1>11. r[2] \in Nat
  <2>1. 2 \in 1 .. n + 2
    OBVIOUS
  <2> QED BY <1>6, <2>1
<1>12. Ranked(Tail(t), r[2], b, fs, low)
  BY <1>2, <1>4, <1>10, <1>11 DEF Ranked
<1>13. Follows(Head(t), a, r[2], fs, low)
  <2>1. 1 \in 1 .. n + 1 /\ 1 + 1 = 2
    OBVIOUS
  <2> QED BY <1>5, <1>6, <2>1
<1> QED BY <1>4, <1>12, <1>13 DEF Follows

-----------------------------------------------------------------------------
(* Sequences that rise, between a and b, one behind the other. *)
Rises(q, a, b) ==
  q \in Seq(Int) /\ \A i \in 1 .. Len(q) : a < q[i] /\ q[i] <= b /\ (i > 1 => q[i - 1] < q[i])

AllRise(s, low, n) ==
  /\ low \in [1 .. n + 1 -> Int]
  /\ \A k \in 1 .. n : low[k] <= low[k + 1] /\ Rises(s[k], low[k], low[k + 1])

(* Rising sequences one behind the other rise. *)
LEMMA JoinRises ==
  ASSUME NEW p, NEW q, NEW a \in Int, NEW b \in Int, NEW c \in Int, a <= b, b <= c,
         Rises(p, a, b), Rises(q, b, c)
  PROVE  Rises(p \o q, a, c)
<1>1. p \in Seq(Int) /\ q \in Seq(Int)
  BY DEF Rises
<1>2. PICK m \in Nat, n \in Nat : m = Len(p) /\ n = Len(q)
  BY <1>1
<1>3. /\ p \o q \in Seq(Int) /\ Len(p \o q) = m + n
      /\ \A i \in 1 .. m + n : (p \o q)[i] = IF i <= m THEN p[i] ELSE q[i - m]
  BY <1>1, <1>2, ConcatProperties
<1>4. \A i \in 1 .. m : p[i] \in Int /\ a < p[i] /\ p[i] <= b /\ (i > 1 => p[i - 1] < p[i])
  BY <1>2 DEF Rises
<1>5. \A i \in 1 .. n : q[i] \in Int /\ b < q[i] /\ q[i] <= c /\ (i > 1 => q[i - 1] < q[i])
  BY <1>2 DEF Rises
<1>6. ASSUME NEW i \in 1 .. m + n
      PROVE  a < (p \o q)[i] /\ (p \o q)[i] <= c /\ (i > 1 => (p \o q)[i - 1] < (p \o q)[i])
  <2>1. CASE i <= m
    <3>1. i \in 1 .. m /\ (i > 1 => i - 1 \in 1 .. m + n /\ i - 1 <= m)
      BY <2>1
    <3>2. (p \o q)[i] = p[i] /\ (i > 1 => (p \o q)[i - 1] = p[i - 1])
      BY <1>3, <2>1, <3>1
    <3>3. PICK v \in Int : v = p[i] /\ a < v /\ v <= b /\ (i > 1 => p[i - 1] < v)
      BY <1>4, <3>1
    <3>4. v <= c
      BY <3>3
    <3> QED BY <3>2, <3>3, <3>4
  <2>2. CASE ~(i <= m)
    <3>1. PICK j \in 1 .. n : j = i - m
      <4>1. i - m \in 1 .. n
        BY <2>2
      <4> QED BY <4>1
    <3>2. (p \o q)[i] = q[j]
      BY <1>3, <2>2, <3>1
    <3>3. CASE j = 1
      <4>1. i > 1 => i - 1 \in 1 .. m + n /\ i - 1 <= m /\ i - 1 \in 1 .. m
        BY <3>1, <3>3
      <4>2. i > 1 => (p \o q)[i - 1] = p[i - 1]
        BY <1>3, <4>1
      <4>3. i > 1 => p[i - 1] <= b /\ p[i - 1] \in Int
        BY <1>4, <4>1
      <4>4. PICK v \in Int : v = q[j] /\ b < v /\ v <= c
        BY <1>5
      <4>5. a < v /\ (i > 1 => p[i - 1] < v)
        BY <4>3, <4>4
      <4> QED BY <3>2, <4>2, <4>4, <4>5
    <3>4. CASE j # 1
      <4>1. i - 1 \in 1 .. m + n /\ ~(i - 1 <= m) /\ (i - 1) - m = j - 1 /\ j > 1
        BY <2>2, <3>1, <3>4
      <4>2. (p \o q)[i - 1] = q[j - 1]
        BY <1>3, <4>1
      <4>3. PICK v \in Int : v = q[j] /\ b < v /\ v <= c /\ q[j - 1] < v
        BY <1>5, <4>1
      <4>4. a < v
        BY <4>3
      <4> QED BY <3>2, <4>2, <4>3, <4>4
    <3> QED BY <3>3, <3>4
  <2> QED BY <2>1, <2>2
<1> QED BY <1>3, <1>6 DEF Rises

(* So do any number of them. *)
LEMMA FlatRises ==
  ASSUME NEW s, NEW f, NEW low, NEW n \in Nat, Flat(s, f, n), AllRise(s, low, n)
  PROVE  \A k \in 1 .. n : low[1] <= low[k + 1] /\ Rises(f[k], low[1], low[k + 1])
<1> DEFINE T == {k \in 1 .. n : ~(low[1] <= low[k + 1] /\ Rises(f[k], low[1], low[k + 1]))}
<1> SUFFICES ASSUME T # {}
             PROVE  FALSE
  OBVIOUS
<1>1. PICK k \in T : \A j \in T : k <= j
  <2>1. T \subseteq Nat
    OBVIOUS
  <2> QED BY <2>1, Least
<1>2. k \in 1 .. n
  OBVIOUS
<1>3. f[k] = IF k = 1 THEN s[k] ELSE f[k - 1] \o s[k]
  BY <1>2 DEF Flat
<1>4. low[k] <= low[k + 1] /\ Rises(s[k], low[k], low[k + 1])
  BY <1>2 DEF AllRise
<1>5. low[1] \in Int /\ low[k] \in Int /\ low[k + 1] \in Int
  <2>1. 1 \in 1 .. n + 1 /\ k \in 1 .. n + 1 /\ k + 1 \in 1 .. n + 1
    BY <1>2
  <2> QED BY <2>1 DEF AllRise
<1>6. low[1] <= low[k + 1] /\ Rises(f[k], low[1], low[k + 1])
  <2>1. CASE k = 1
    BY <1>3, <1>4, <1>5, <2>1
  <2>2. CASE k # 1
    <3>1. k - 1 \in 1 .. n /\ (k - 1) + 1 = k /\ k - 1 \notin T
      BY <1>1, <1>2, <2>2
    <3>2. low[1] <= low[k] /\ Rises(f[k - 1], low[1], low[k])
      BY <3>1
    <3>3. low[1] <= low[k + 1]
      BY <1>4, <1>5, <3>2
    <3>4. Rises(f[k - 1] \o s[k], low[1], low[k + 1])
      BY <1>4, <1>5, <3>2, JoinRises
    <3> QED BY <1>3, <2>2, <3>3, <3>4
  <2> QED BY <2>1, <2>2
<1> QED BY <1>6

-----------------------------------------------------------------------------
(* What Video!FlattenSeq makes of n sequences. *)
LEMMA FlattenIs ==
  ASSUME NEW s, NEW n \in Nat \ {0}, Len(s) = n
  PROVE  \E f : Flat(s, f, n) /\ Video!FlattenSeq(s) = f[n]
<1> DEFINE g == CHOOSE h : Flat(s, h, n)
<1>1. Flat(s, g, n)
  BY FlatExists
<1>2. Video!FlattenSeq(s) = g[n]
  BY DEF Video!FlattenSeq, Flat
<1> HIDE DEF g
<1> QED BY <1>1, <1>2

(* The frames of the packets t, packet by packet. *)
PacketFrames(t) == [k \in DOMAIN t |-> IF t[k] > 0 THEN <<t[k]>> ELSE <<>>]

(* No packets hold no frames. *)
LEMMA FramesInNone ==
  Video!FramesIn(<<>>) = <<>>
<1>1. Len([k \in DOMAIN <<>> |-> IF <<>>[k] > 0 THEN <<<<>>[k]>> ELSE <<>>]) = 0
  OBVIOUS
<1> QED BY <1>1 DEF Video!FramesIn, Video!FlattenSeq

(* The frames of packets lie in their order. *)
LEMMA FramesInLie ==
  ASSUME NEW t \in Seq(Int), NEW n \in Nat \ {0}, Len(t) = n
  PROVE  /\ Video!FramesIn(t) \in Seq(Int)
         /\ \E u : Located(Video!FramesIn(t), PacketFrames(t), u, n)
         /\ \E f : Flat(PacketFrames(t), f, n) /\ Video!FramesIn(t) = f[n]
<1>1. DOMAIN t = 1 .. n /\ \A k \in 1 .. n : t[k] \in Int
  OBVIOUS
<1>2. /\ Len(PacketFrames(t)) = n
      /\ \A k \in 1 .. n : PacketFrames(t)[k] \in Seq(Int)
  BY <1>1 DEF PacketFrames
<1>3. Pieces(Int, PacketFrames(t), n)
  BY <1>2 DEF Pieces
<1>4. Video!FramesIn(t) = Video!FlattenSeq(PacketFrames(t))
  BY DEF Video!FramesIn, PacketFrames
<1>5. Video!FlattenSeq(PacketFrames(t)) = Block!FlattenSeq(PacketFrames(t))
  BY DEF Video!FlattenSeq, Block!FlattenSeq
<1>6. \E f : Flat(PacketFrames(t), f, n) /\ Video!FramesIn(t) = f[n]
  BY <1>2, <1>4, FlattenIs
<1>7. Video!FramesIn(t) \in Seq(Int) /\ \E u : Located(Video!FramesIn(t), PacketFrames(t), u, n)
  BY <1>2, <1>3, <1>4, <1>5, FlattenLays
<1> QED BY <1>6, <1>7

(* The packets of a page: the k-th is a frame of number a + k, or none. *)
Numbered(t, a) ==
  /\ t \in Seq(Int) /\ a \in Int
  /\ \A k \in 1 .. Len(t) : /\ t[k] > 0 \/ t[k] \in {Video!Header, Video!Refused}
                            /\ t[k] > 0 => t[k] = a + k

(* The frames of a page have rising numbers. *)
LEMMA FramesRise ==
  ASSUME NEW t, NEW a, Numbered(t, a)
  PROVE  Rises(Video!FramesIn(t), a, a + Len(t))
<1>1. t \in Seq(Int) /\ a \in Int
  BY DEF Numbered
<1>2. CASE Len(t) = 0
  <2>1. Video!FramesIn(t) = <<>>
    BY <1>1, <1>2, EmptySeq, FramesInNone
  <2>2. Rises(<<>>, a, a + Len(t))
    BY <1>1, <1>2 DEF Rises
  <2> QED BY <2>1, <2>2
<1>3. CASE Len(t) # 0
  <2>1. PICK n \in Nat \ {0} : Len(t) = n
    BY <1>1, <1>3
  <2>2. PICK f : Flat(PacketFrames(t), f, n) /\ Video!FramesIn(t) = f[n]
    BY <1>1, <2>1, FramesInLie
  <2> DEFINE low == [k \in 1 .. n + 1 |-> a + k - 1]
  <2>3. \A k \in 1 .. n : low[k] = a + k - 1 /\ low[k + 1] = a + k
    OBVIOUS
  <2>4. low \in [1 .. n + 1 -> Int] /\ low[1] = a /\ low[n + 1] = a + n
    BY <1>1
  <2> HIDE DEF low
  <2>5. ASSUME NEW k \in 1 .. n
        PROVE  low[k] <= low[k + 1] /\ Rises(PacketFrames(t)[k], low[k], low[k + 1])
    <3>1. k \in 1 .. Len(t) /\ k \in DOMAIN t
      BY <1>1, <2>1
    <3>2. t[k] > 0 => t[k] = a + k
      BY <3>1 DEF Numbered
    <3>3. PacketFrames(t)[k] = IF t[k] > 0 THEN <<t[k]>> ELSE <<>>
      BY <3>1 DEF PacketFrames
    <3>4. PICK v \in Int : v = a + k
      BY <1>1
    <3>5. low[k] = v - 1 /\ low[k + 1] = v
      BY <1>1, <2>3, <3>4
    <3>6. Rises(<<v>>, v - 1, v) /\ Rises(<<>>, v - 1, v)
      BY DEF Rises
    <3> QED BY <3>2, <3>3, <3>4, <3>5, <3>6
  <2>6. AllRise(PacketFrames(t), low, n)
    BY <2>4, <2>5 DEF AllRise
  <2>7. Rises(f[n], low[1], low[n + 1])
    <3>1. n \in 1 .. n /\ n \in Nat
      OBVIOUS
    <3> QED BY <2>2, <2>6, <3>1, FlatRises
  <2> QED BY <2>1, <2>2, <2>4, <2>7
<1> QED BY <1>2, <1>3

(* The frames of t lie in fs behind the first e. *)
LiesIn(q, fs, e) == \A j \in 1 .. Len(q) : fs[e + j] = q[j]

(* Packets stand where their frames do. *)
LEMMA FramesRanked ==
  ASSUME NEW t, NEW a, Numbered(t, a), NEW e \in Nat, NEW fs, NEW low,
         LiesIn(Video!FramesIn(t), fs, e)
  PROVE  Ranked(t, e, e + Len(Video!FramesIn(t)), fs, low)
<1>1. t \in Seq(Int) /\ a \in Int
  BY DEF Numbered
<1>2. CASE Len(t) = 0
  <2>1. t = <<>> /\ Video!FramesIn(t) = <<>>
    BY <1>1, <1>2, EmptySeq, FramesInNone
  <2>2. e + Len(<<>>) = e
    OBVIOUS
  <2> QED BY <2>1, <2>2, RankedNone
<1>3. CASE Len(t) # 0
  <2>1. PICK n \in Nat \ {0} : Len(t) = n
    BY <1>1, <1>3
  <2>2. Video!FramesIn(t) \in Seq(Int)
    BY <1>1, <2>1, FramesInLie
  <2>3. PICK u : Located(Video!FramesIn(t), PacketFrames(t), u, n)
    BY <1>1, <2>1, FramesInLie
  <2>4. PICK m \in Nat : m = Len(Video!FramesIn(t))
    BY <2>2
  <2>5. /\ u \in [1 .. n + 1 -> Nat] /\ u[1] = 0 /\ u[n + 1] = m
        /\ \A k \in 1 .. n : u[k + 1] = u[k] + Len(PacketFrames(t)[k]) /\ u[k + 1] <= m
    BY <2>3, <2>4 DEF Located
  <2>6. \A k \in 1 .. n : \A j \in 1 .. Len(PacketFrames(t)[k]) :
          Video!FramesIn(t)[u[k] + j] = PacketFrames(t)[k][j]
    BY <2>3 DEF Located
  <2> DEFINE r == [k \in 1 .. n + 1 |-> e + u[k]]
  <2>7. r \in [1 .. n + 1 -> Nat] /\ r[1] = e /\ r[n + 1] = e + m
    BY <2>5
  <2>8. \A k \in 1 .. n : r[k] = e + u[k] /\ r[k + 1] = e + u[k + 1]
    BY <2>5
  <2> HIDE DEF r
  <2>9. ASSUME NEW k \in 1 .. n
        PROVE  Follows(t[k], r[k], r[k + 1], fs, low) /\ r[k + 1] <= e + m
    <3>1. k \in 1 .. Len(t) /\ k \in DOMAIN t
      BY <1>1, <2>1
    <3>2. t[k] > 0 \/ t[k] \in {Video!Header, Video!Refused}
      BY <3>1 DEF Numbered
    <3>3. PacketFrames(t)[k] = IF t[k] > 0 THEN <<t[k]>> ELSE <<>>
      BY <3>1 DEF PacketFrames
    <3>4. PICK i \in Nat, j \in Nat : i = u[k] /\ j = u[k + 1] /\ j <= m /\ j = i + Len(PacketFrames(t)[k])
      <4>1. u[k] \in Nat /\ u[k + 1] \in Nat
        <5>1. k \in 1 .. n + 1 /\ k + 1 \in 1 .. n + 1
          OBVIOUS
        <5> QED BY <2>5, <5>1
      <4> QED BY <2>5, <4>1
    <3>5. r[k] = e + i /\ r[k + 1] = e + j /\ r[k + 1] <= e + m
      <4>1. e + j <= e + m
        BY <3>4
      <4> QED BY <2>8, <3>4, <4>1
    <3>6. CASE t[k] > 0
      <4>1. PacketFrames(t)[k] = <<t[k]>> /\ Len(<<t[k]>>) = 1 /\ <<t[k]>>[1] = t[k]
        BY <3>3, <3>6
      <4>2. j = i + 1
        BY <3>4, <4>1
      <4>3. Video!FramesIn(t)[u[k] + 1] = t[k]
        <5>1. 1 \in 1 .. Len(PacketFrames(t)[k])
          BY <4>1
        <5>2. Video!FramesIn(t)[u[k] + 1] = PacketFrames(t)[k][1]
          BY <2>6, <5>1
        <5> QED BY <4>1, <5>2
      <4>4. fs[e + j] = t[k]
        <5>1. j \in 1 .. Len(Video!FramesIn(t))
          BY <2>4, <3>4, <4>2
        <5>2. fs[e + j] = Video!FramesIn(t)[j]
          BY <5>1 DEF LiesIn
        <5> QED BY <3>4, <4>2, <4>3, <5>2
      <4>5. (e + i) + 1 = e + j
        BY <4>2
      <4> QED BY <3>5, <3>6, <4>4, <4>5 DEF Follows
    <3>7. CASE ~(t[k] > 0)
      <4>1. PacketFrames(t)[k] = <<>> /\ Len(<<>>) = 0
        BY <3>3, <3>7
      <4>2. j = i
        BY <3>4, <4>1
      <4>3. t[k] \in {Video!Header, Video!Refused} /\ t[k] # Video!Hole
        BY <3>2, <3>7 DEF Video!Header, Video!Refused, Video!Hole
      <4> QED BY <3>5, <4>2, <4>3 DEF Follows
    <3> QED BY <3>6, <3>7
  <2>10. RankedBy(r, t, e, e + m, fs, low)
    BY <2>1, <2>7, <2>9 DEF RankedBy
  <2> QED BY <1>1, <2>4, <2>10 DEF Ranked
<1> QED BY <1>2, <1>3

-----------------------------------------------------------------------------
(* The pages of a video.  How many frames are before each page behind the headers. *)
Counts(b, kinds, n) ==
  b = [k \in 1 .. n + 1 |-> IF k = 1 THEN 0 ELSE b[k - 1] + Video!Frames(kinds[k - 1])]

(* A page holds some number of frames. *)
LEMMA FramesType ==
  ASSUME NEW c \in Video!PageKinds
  PROVE  Video!Frames(c) \in Nat
BY DEF Video!PageKinds, Video!Frames

(* The recursion of FramesBefore has a solution. *)
LEMMA CountsExist ==
  ASSUME NEW n \in Nat, NEW kinds \in [1 .. n -> Video!PageKinds]
  PROVE  \E b : Counts(b, kinds, n)
<1> DEFINE F == [k \in 1 .. n |-> [x \in Nat |-> x + Video!Frames(kinds[k])]]
<1>1. \A k \in 1 .. n : Video!Frames(kinds[k]) \in Nat
  BY FramesType
<1>2. F \in [1 .. n -> [Nat -> Nat]]
  BY <1>1
<1>3. \A k \in 1 .. n, x \in Nat : F[k][x] = x + Video!Frames(kinds[k])
  OBVIOUS
<1> HIDE DEF F
<1>4. PICK v \in [0 .. n -> Nat] : Steps(v, 0, F, n)
  <2>1. 0 \in Nat
    OBVIOUS
  <2> QED BY <1>2, <2>1, StepsExist
<1> DEFINE b == [k \in 1 .. n + 1 |-> v[k - 1]]
<1>5. \A k \in 1 .. n + 1 : b[k] = IF k = 1 THEN 0 ELSE b[k - 1] + Video!Frames(kinds[k - 1])
  <2> TAKE k \in 1 .. n + 1
  <2>1. CASE k = 1
    BY <1>4, <2>1 DEF Steps
  <2>2. CASE k # 1
    <3>1. k - 1 \in 1 .. n /\ k - 1 \in 1 .. n + 1 /\ (k - 1) - 1 \in 0 .. n
      BY <2>2
    <3>2. v[k - 1] = F[k - 1][v[(k - 1) - 1]]
      BY <1>4, <3>1 DEF Steps
    <3>3. b[k] = v[k - 1] /\ b[k - 1] = v[(k - 1) - 1]
      BY <3>1
    <3> QED BY <1>3, <1>4, <2>2, <3>1, <3>2, <3>3
  <2> QED BY <2>1, <2>2
<1>6. b = [k \in 1 .. n + 1 |-> b[k]]
  OBVIOUS
<1> HIDE DEF b
<1>7. Counts(b, kinds, n)
  BY <1>5, <1>6 DEF Counts
<1> QED BY <1>7

(* What it counts. *)
LEMMA CountsType ==
  ASSUME NEW n \in Nat, NEW kinds \in [1 .. n -> Video!PageKinds], NEW b, Counts(b, kinds, n)
  PROVE  /\ b \in [1 .. n + 1 -> Nat] /\ b[1] = 0
         /\ \A k \in 1 .. n : b[k + 1] = b[k] + Video!Frames(kinds[k])
<1>1. \A k \in 1 .. n + 1 : b[k] = IF k = 1 THEN 0 ELSE b[k - 1] + Video!Frames(kinds[k - 1])
  BY DEF Counts
<1> DEFINE T == {k \in 1 .. n + 1 : b[k] \notin Nat}
<1>2. T = {}
  <2> SUFFICES ASSUME T # {}
               PROVE  FALSE
    OBVIOUS
  <2>1. PICK k \in T : \A j \in T : k <= j
    <3>1. T \subseteq Nat
      OBVIOUS
    <3> QED BY <3>1, Least
  <2>2. CASE k = 1
    BY <1>1, <2>1, <2>2
  <2>3. CASE k # 1
    <3>1. k - 1 \in 1 .. n /\ k - 1 \in 1 .. n + 1 /\ k - 1 \notin T
      BY <2>1, <2>3
    <3>2. b[k - 1] \in Nat /\ Video!Frames(kinds[k - 1]) \in Nat
      BY <3>1, FramesType
    <3> QED BY <1>1, <2>1, <2>3, <3>2
  <2> QED BY <2>2, <2>3
<1>3. b = [k \in 1 .. n + 1 |-> b[k]]
  BY DEF Counts
<1>4. b \in [1 .. n + 1 -> Nat]
  BY <1>2, <1>3
<1>5. ASSUME NEW k \in 1 .. n
      PROVE  b[k + 1] = b[k] + Video!Frames(kinds[k])
  <2>1. k + 1 \in 1 .. n + 1 /\ k + 1 # 1 /\ (k + 1) - 1 = k
    OBVIOUS
  <2> QED BY <1>1, <2>1
<1>6. b[1] = 0
  <2>1. 1 \in 1 .. n + 1
    OBVIOUS
  <2> QED BY <1>1, <2>1
<1> QED BY <1>4, <1>5, <1>6

(* A page with the headers, the p-th; a page behind them, whose frames have the
   numbers behind a, up to b. *)
HeadFits(g, p) ==
  /\ g.bos /\ ~g.damaged /\ (g.theora => p = 1) /\ (~g.theora => g.packets = <<>>)
  /\ g.packets \in Seq({Video!Header}) /\ Len(g.packets) <= 2
BodyFits(g, a, b) ==
  /\ ~g.bos /\ (g.damaged \/ ~g.theora => g.packets = <<>>)
  /\ Numbered(g.packets, a) /\ a + Len(g.packets) <= b
  /\ \A k \in 1 .. Len(g.packets) : g.packets[k] # Video!Header

(* Every page behind the headers is of the kind BodyFits tells. *)
LEMMA BodyPage ==
  ASSUME NEW c \in Video!PageKinds, NEW a \in Nat
  PROVE  BodyFits(Video!KindPage(c, a), a, a + Video!Frames(c))
<1>1. CASE c = "one"
  <2>1. Video!KindPage(c, a) = [bos |-> FALSE, theora |-> TRUE, packets |-> <<a + 1>>, damaged |-> FALSE]
        /\ Video!Frames(c) = 1
    BY <1>1 DEF Video!KindPage, Video!Frames, Video!Page
  <2>2. Numbered(<<a + 1>>, a)
    BY DEF Numbered
  <2> QED BY <2>1, <2>2 DEF BodyFits, Video!Header
<1>2. CASE c = "two"
  <2>1. Video!KindPage(c, a)
          = [bos |-> FALSE, theora |-> TRUE, packets |-> <<a + 1, a + 2>>, damaged |-> FALSE]
        /\ Video!Frames(c) = 2
    BY <1>2 DEF Video!KindPage, Video!Frames, Video!Page
  <2>2. Numbered(<<a + 1, a + 2>>, a)
    BY DEF Numbered
  <2> QED BY <2>1, <2>2 DEF BodyFits, Video!Header
<1>3. CASE c = "bad"
  <2>1. Video!KindPage(c, a)
          = [bos |-> FALSE, theora |-> TRUE, packets |-> <<Video!Refused, a + 2>>, damaged |-> FALSE]
        /\ Video!Frames(c) = 2
    BY <1>3 DEF Video!KindPage, Video!Frames, Video!Page
  <2>2. Numbered(<<Video!Refused, a + 2>>, a)
    BY DEF Numbered, Video!Refused
  <2> QED BY <2>1, <2>2 DEF BodyFits, Video!Header, Video!Refused
<1>4. CASE c = "other" \/ c = "damaged"
  <2>1. /\ Video!KindPage(c, a).bos = FALSE /\ Video!KindPage(c, a).packets = <<>>
        /\ Video!Frames(c) = 0
    BY <1>4 DEF Video!KindPage, Video!Frames, Video!Page, Video!Damaged
  <2>2. Numbered(<<>>, a) /\ Len(<<>>) = 0
    BY DEF Numbered
  <2>3. a + 0 <= a + 0
    OBVIOUS
  <2> QED BY <2>1, <2>2, <2>3 DEF BodyFits
<1> QED BY <1>1, <1>2, <1>3, <1>4 DEF Video!PageKinds

(* So are the pages with the headers. *)
LEMMA HeadPage ==
  /\ HeadFits(Video!Page(TRUE, TRUE, <<Video!Header>>), 1)
  /\ \A p : HeadFits(Video!Page(TRUE, FALSE, <<>>), p)
<1>1. <<Video!Header>> \in Seq({Video!Header}) /\ Len(<<Video!Header>>) = 1
  OBVIOUS
<1>2. <<>> \in Seq({Video!Header}) /\ Len(<<>>) = 0
  OBVIOUS
<1> QED BY <1>1, <1>2 DEF HeadFits, Video!Page

(* The set-up page is the h-th; the frames of page p have the numbers behind
   low[p], up to low[p + 1]. *)
Shape(h, low) ==
  /\ h \in Nat /\ h > 1 /\ Len(pages) \in Nat /\ h <= Len(pages)
  /\ low \in [1 .. Len(pages) + 1 -> Int]
  /\ \A p \in 1 .. h : low[p] + 2 <= low[p + 1]
  /\ \A p \in 1 .. h - 1 : HeadFits(pages[p], p)
  /\ pages[h] = Video!Setup
  /\ \A p \in h + 1 .. Len(pages) : BodyFits(pages[p], low[p], low[p + 1])

(* Three sequences one behind the other: where each element is. *)
LEMMA ThreeParts ==
  ASSUME NEW S, NEW p \in Seq(S), NEW g \in S, NEW q \in Seq(S), NEW m \in Nat, NEW n \in Nat,
         Len(p) = m, Len(q) = n
  PROVE  /\ (p \o <<g>>) \o q \in Seq(S) /\ Len((p \o <<g>>) \o q) = m + 1 + n
         /\ \A i \in 1 .. m : ((p \o <<g>>) \o q)[i] = p[i]
         /\ ((p \o <<g>>) \o q)[m + 1] = g
         /\ \A i \in 1 .. n : ((p \o <<g>>) \o q)[m + 1 + i] = q[i]
<1>1. <<g>> \in Seq(S) /\ Len(<<g>>) = 1 /\ <<g>>[1] = g
  OBVIOUS
<1>2. /\ p \o <<g>> \in Seq(S) /\ Len(p \o <<g>>) = m + 1
      /\ \A i \in 1 .. m + 1 : (p \o <<g>>)[i] = IF i <= m THEN p[i] ELSE <<g>>[i - m]
  BY <1>1, ConcatProperties
<1>3. /\ (p \o <<g>>) \o q \in Seq(S) /\ Len((p \o <<g>>) \o q) = m + 1 + n
      /\ \A i \in 1 .. m + 1 + n :
           ((p \o <<g>>) \o q)[i] = IF i <= m + 1 THEN (p \o <<g>>)[i] ELSE q[i - (m + 1)]
  <2> DEFINE l == p \o <<g>>
  <2>1. l \in Seq(S) /\ Len(l) = m + 1
    BY <1>2
  <2> HIDE DEF l
  <2>2. /\ l \o q \in Seq(S) /\ Len(l \o q) = Len(l) + Len(q)
        /\ \A i \in 1 .. Len(l) + Len(q) : (l \o q)[i] = IF i <= Len(l) THEN l[i] ELSE q[i - Len(l)]
    BY <2>1, ConcatProperties
  <2>3. /\ l \o q \in Seq(S) /\ Len(l \o q) = m + 1 + n
        /\ \A i \in 1 .. m + 1 + n : (l \o q)[i] = IF i <= m + 1 THEN l[i] ELSE q[i - (m + 1)]
    BY <2>1, <2>2
  <2> QED BY <2>3 DEF l
<1>4. ASSUME NEW i \in 1 .. m
      PROVE  ((p \o <<g>>) \o q)[i] = p[i]
  <2>1. i \in 1 .. m + 1 + n /\ i <= m + 1 /\ i \in 1 .. m + 1 /\ i <= m
    OBVIOUS
  <2> QED BY <1>2, <1>3, <2>1
<1>5. ((p \o <<g>>) \o q)[m + 1] = g
  <2>1. m + 1 \in 1 .. m + 1 + n /\ m + 1 <= m + 1 /\ m + 1 \in 1 .. m + 1 /\ ~(m + 1 <= m) /\ (m + 1) - m = 1
    OBVIOUS
  <2>2. (p \o <<g>>)[m + 1] = g
    BY <1>1, <1>2, <2>1
  <2> QED BY <1>3, <2>1, <2>2
<1>6. ASSUME NEW i \in 1 .. n
      PROVE  ((p \o <<g>>) \o q)[m + 1 + i] = q[i]
  <2>1. m + 1 + i \in 1 .. m + 1 + n /\ ~(m + 1 + i <= m + 1) /\ (m + 1 + i) - (m + 1) = i
    OBVIOUS
  <2> QED BY <1>3, <2>1
<1> QED BY <1>3, <1>4, <1>5, <1>6

(* The videos of Init have headers and pages behind them, with rising numbers. *)
LEMMA ShapeIs ==
  ASSUME Video!Init
  PROVE  DOMAIN pages = 1 .. Len(pages) /\ \E h, low : Shape(h, low)
<1>1. PICK head \in Video!Heads, n \in 0 .. MaxPages :
        \E kinds \in [1 .. n -> Video!PageKinds] : pages = (head \o <<Video!Setup>>) \o Video!Body(kinds)
  BY DEF Video!Init
<1>2. PICK kinds \in [1 .. n -> Video!PageKinds] : pages = (head \o <<Video!Setup>>) \o Video!Body(kinds)
  BY <1>1
<1>3. n \in Nat
  BY MediaAssumption DEF Video!VideoAssumption
<1>4. Len(kinds) = n /\ DOMAIN kinds = 1 .. n
  BY <1>3
<1>5. PICK b : Counts(b, kinds, n) /\ Video!FramesBefore(kinds) = b
  <2> DEFINE g == CHOOSE f : Counts(f, kinds, n)
  <2>1. Counts(g, kinds, n)
    BY <1>3, CountsExist
  <2>2. Video!FramesBefore(kinds) = g
    BY <1>4 DEF Video!FramesBefore, Counts
  <2> HIDE DEF g
  <2> QED BY <2>1, <2>2
<1>6. /\ b \in [1 .. n + 1 -> Nat] /\ b[1] = 0
      /\ \A k \in 1 .. n : b[k + 1] = b[k] + Video!Frames(kinds[k])
  BY <1>3, <1>5, CountsType
<1> DEFINE B == Video!Body(kinds)
<1>7. B = [k \in 1 .. n |-> Video!KindPage(kinds[k], b[k])]
  BY <1>4, <1>5 DEF Video!Body
<1>8. PICK m \in Nat : /\ m = Len(head) /\ m > 0
                       /\ \A p \in 1 .. m : HeadFits(head[p], p)
                       /\ head = [p \in 1 .. m |-> head[p]]
  <2> DEFINE g == Video!Page(TRUE, TRUE, <<Video!Header>>)
             o == Video!Page(TRUE, FALSE, <<>>)
  <2>1. head = <<g>> \/ head = <<g, o>> \/ head = <<o>>
    BY DEF Video!Heads
  <2>2. HeadFits(g, 1) /\ HeadFits(o, 1) /\ HeadFits(o, 2)
    BY HeadPage
  <2> HIDE DEF g, o
  <2>3. CASE head = <<g>>
    BY <2>2, <2>3
  <2>4. CASE head = <<g, o>>
    <3>1. Len(head) = 2 /\ head[1] = g /\ head[2] = o
      BY <2>4
    <3> QED BY <2>2, <2>4, <3>1
  <2>5. CASE head = <<o>>
    BY <2>2, <2>5
  <2> QED BY <2>1, <2>3, <2>4, <2>5
<1> HIDE DEF B
<1> DEFINE S == {head[p] : p \in 1 .. m} \cup {B[k] : k \in 1 .. n} \cup {Video!Setup}
<1>9. head \in Seq(S) /\ B \in Seq(S) /\ Video!Setup \in S
  <2>1. \A p \in 1 .. m : head[p] \in S
    OBVIOUS
  <2>2. \A k \in 1 .. n : B[k] \in S
    OBVIOUS
  <2>3. Video!Setup \in S
    OBVIOUS
  <2>4. B = [k \in 1 .. n |-> B[k]]
    BY <1>7
  <2> HIDE DEF S
  <2>5. head \in [1 .. m -> S] /\ B \in [1 .. n -> S]
    BY <1>8, <2>1, <2>2, <2>4
  <2> QED BY <1>3, <2>3, <2>5
<1> HIDE DEF S
<1>10. Len(B) = n
  BY <1>3, <1>7
<1>11. /\ pages \in Seq(S) /\ Len(pages) = m + 1 + n
       /\ \A p \in 1 .. m : pages[p] = head[p]
       /\ pages[m + 1] = Video!Setup
       /\ \A k \in 1 .. n : pages[m + 1 + k] = B[k]
  BY <1>2, <1>3, <1>8, <1>9, <1>10, ThreeParts DEF B
<1> DEFINE low == [p \in 1 .. m + 1 + n + 1 |-> IF p <= m + 1 THEN 2 * (p - (m + 2)) ELSE b[p - (m + 1)]]
<1>12. low \in [1 .. m + 1 + n + 1 -> Int]
  <2>1. \A p \in 1 .. m + 1 + n + 1 : ~(p <= m + 1) => p - (m + 1) \in 1 .. n + 1
    BY <1>3
  <2>2. \A p \in 1 .. m + 1 + n + 1 : p <= m + 1 => 2 * (p - (m + 2)) \in Int
    OBVIOUS
  <2>3. \A p \in 1 .. m + 1 + n + 1 : ~(p <= m + 1) => b[p - (m + 1)] \in Int
    BY <1>6, <2>1
  <2> QED BY <2>2, <2>3
<1>13. ASSUME NEW p \in 1 .. m + 1
       PROVE  low[p] + 2 <= low[p + 1]
  <2>1. p \in 1 .. m + 1 + n + 1 /\ p + 1 \in 1 .. m + 1 + n + 1 /\ p <= m + 1
    BY <1>3
  <2>2. low[p] = 2 * (p - (m + 2))
    BY <2>1
  <2>3. CASE p + 1 <= m + 1
    <3>1. low[p + 1] = 2 * ((p + 1) - (m + 2))
      BY <2>1, <2>3
    <3> HIDE DEF low
    <3> QED BY <2>2, <3>1
  <2>4. CASE ~(p + 1 <= m + 1)
    <3>1. (p + 1) - (m + 1) = 1 /\ 2 * (p - (m + 2)) = -2
      BY <2>4
    <3>2. low[p + 1] = 0
      BY <1>6, <2>1, <2>4, <3>1
    <3> HIDE DEF low
    <3> QED BY <2>2, <3>1, <3>2
  <2> QED BY <2>3, <2>4
<1>14. ASSUME NEW p \in m + 2 .. m + 1 + n
       PROVE  BodyFits(pages[p], low[p], low[p + 1])
  <2>1. PICK k \in 1 .. n : p = m + 1 + k
    <3>1. p - (m + 1) \in 1 .. n /\ p = m + 1 + (p - (m + 1))
      BY <1>3
    <3> QED BY <3>1
  <2>2. pages[p] = Video!KindPage(kinds[k], b[k])
    BY <1>7, <1>11, <2>1
  <2>3. low[p] = b[k] /\ low[p + 1] = b[k + 1]
    <3>1. /\ p \in 1 .. m + 1 + n + 1 /\ ~(p <= m + 1) /\ p - (m + 1) = k
          /\ p + 1 \in 1 .. m + 1 + n + 1 /\ ~(p + 1 <= m + 1) /\ (p + 1) - (m + 1) = k + 1
      BY <1>3, <2>1
    <3> QED BY <3>1
  <2>4. kinds[k] \in Video!PageKinds /\ b[k] \in Nat
    <3>1. k \in 1 .. n + 1
      BY <1>3
    <3> QED BY <1>6, <3>1
  <2>5. BodyFits(Video!KindPage(kinds[k], b[k]), b[k], b[k] + Video!Frames(kinds[k]))
    BY <2>4, BodyPage
  <2> QED BY <1>6, <2>2, <2>3, <2>5
<1> HIDE DEF low
<1>15. /\ m + 1 \in Nat /\ m + 1 > 1 /\ Len(pages) \in Nat /\ m + 1 <= Len(pages)
       /\ (m + 1) - 1 = m /\ (m + 1) + 1 = m + 2
  <2>1. Len(pages) = (m + 1) + n
    BY <1>11
  <2>2. m > 0
    BY <1>8
  <2> QED BY <1>3, <2>1, <2>2
<1>16. \A p \in 1 .. m : HeadFits(pages[p], p)
  BY <1>8, <1>11
<1>17. Shape(m + 1, low)
  BY <1>11, <1>12, <1>13, <1>14, <1>15, <1>16 DEF Shape
<1> QED BY <1>11, <1>17

(* Their pages have a size, and the file is no longer than they are. *)
LEMMA MeasuredIs ==
  ASSUME Video!Init, NEW h, NEW low, Shape(h, low)
  PROVE  Measured
<1>1. PICK n \in Nat : n = Len(pages) /\ n >= 2
  <2>2. h \in Nat /\ h > 1 /\ h <= Len(pages)
    BY DEF Shape
  <2>3. Len(pages) \in Nat
    BY DEF Shape
  <2> QED BY <2>2, <2>3
<1>2. PICK z \in Nat \ {0} : z = pagesize
  BY MediaAssumption DEF Video!Init, Video!VideoAssumption
<1>3. PICK c \in Nat : n = 2 + c
  <2>1. n - 2 \in Nat /\ n = 2 + (n - 2)
    BY <1>1
  <2> QED BY <2>1
<1>4. n * z = 2 * z + c * z /\ c * z \in Nat
  BY <1>3
<1>5. PICK l \in Nat : l = n * z /\ l >= 2 * z
  <2>1. n * z \in Nat /\ n * z >= 2 * z
    BY <1>4
  <2> QED BY <2>1
<1>6. filesize \in {1, z, 2 * z, l - 1, l}
  BY <1>1, <1>2, <1>5 DEF Video!Init, Video!Whole
<1>7. filesize \in Nat \ {0} /\ filesize <= l
  BY <1>5, <1>6
<1> QED BY <1>1, <1>2, <1>5, <1>7 DEF Measured, Edge

(* The pages before the first torn one, or all that are in the file. *)
LEMMA IntactIs ==
  ASSUME Measured
  PROVE  \E w : Intact(w)
<1>1. Video!InFile \in Nat
  BY InFileIs
<1> DEFINE T == {k \in Nat : k < Video!InFile /\ Torn(k + 1)}
<1>2. CASE T = {}
  <2>1. \A p \in 1 .. Video!InFile : ~Torn(p)
    <3> TAKE p \in 1 .. Video!InFile
    <3>1. p - 1 \in Nat /\ p - 1 < Video!InFile /\ (p - 1) + 1 = p
      BY <1>1
    <3>2. p - 1 \notin T
      BY <1>2
    <3> QED BY <3>1, <3>2
  <2>2. Video!InFile \in 0 .. Video!InFile /\ ~(Video!InFile < Video!InFile)
    BY <1>1
  <2>3. Intact(Video!InFile)
    BY <2>1, <2>2 DEF Intact
  <2> QED BY <2>3
<1>3. CASE T # {}
  <2>1. PICK k \in T : \A j \in T : k <= j
    <3>1. T \subseteq Nat
      OBVIOUS
    <3> HIDE DEF T
    <3> QED BY <1>3, <3>1, Least
  <2>2. k \in Nat /\ k < Video!InFile /\ Torn(k + 1)
    OBVIOUS
  <2>3. \A p \in 1 .. k : ~Torn(p)
    <3> TAKE p \in 1 .. k
    <3>1. p - 1 \in Nat /\ p - 1 < k /\ p - 1 < Video!InFile /\ (p - 1) + 1 = p
      BY <1>1, <2>2
    <3>2. p - 1 \notin T
      BY <2>1, <2>2, <3>1
    <3> QED BY <3>1, <3>2
  <2>4. k \in 0 .. Video!InFile
    BY <1>1, <2>2
  <2>5. Intact(k)
    BY <2>2, <2>3, <2>4 DEF Intact
  <2> QED BY <2>5
<1> QED BY <1>2, <1>3

(* fs is the frames of all pages; s[p] of them are before page p. *)
Film(fs, s) ==
  /\ fs \in Seq(Int) /\ s \in [1 .. Len(pages) + 1 -> Nat]
  /\ s[1] = 0 /\ s[Len(pages) + 1] = Len(fs)
  /\ \A i \in 2 .. Len(fs) : fs[i - 1] < fs[i]
  /\ \A p \in 1 .. Len(pages) :
       /\ LiesIn(Video!FramesIn(pages[p].packets), fs, s[p])
       /\ s[p + 1] = s[p] + Len(Video!FramesIn(pages[p].packets))
  /\ \A m \in 0 .. Len(pages) :
       /\ Video!FramesOf(m) \in Seq(Int) /\ Len(Video!FramesOf(m)) = s[m + 1]
       /\ LiesIn(Video!FramesOf(m), fs, 0)
  /\ \A i, j \in 1 .. Len(pages) + 1 : i <= j => s[i] <= s[j]

(* A page, whichever it is. *)
PageFits(g, a, b) ==
  /\ Numbered(g.packets, a) /\ a + Len(g.packets) <= b
  /\ g.damaged \/ ~g.theora => g.packets = <<>>

(* Every page of a video. *)
LEMMA PageIs ==
  ASSUME NEW h, NEW low, Shape(h, low), NEW p \in 1 .. Len(pages), Len(pages) \in Nat
  PROVE  PageFits(pages[p], low[p], low[p + 1])
<1>1. low[p] \in Int /\ low[p + 1] \in Int
  <2>1. p \in 1 .. Len(pages) + 1 /\ p + 1 \in 1 .. Len(pages) + 1
    OBVIOUS
  <2> QED BY <2>1 DEF Shape
<1>2. h \in Nat
  BY DEF Shape
<1>3. CASE p < h
  <2>1. HeadFits(pages[p], p) /\ low[p] + 2 <= low[p + 1]
    <3>1. p \in 1 .. h - 1 /\ p \in 1 .. h
      BY <1>2, <1>3
    <3> QED BY <3>1 DEF Shape
  <2> DEFINE t == pages[p].packets
  <2>2. t \in Seq({Video!Header}) /\ Len(t) <= 2
    BY <2>1 DEF HeadFits
  <2> HIDE DEF t
  <2>3. t \in Seq(Int) /\ Len(t) \in Nat /\ \A k \in 1 .. Len(t) : t[k] = Video!Header
    BY <2>2 DEF Video!Header
  <2>4. Numbered(t, low[p])
    BY <1>1, <2>3 DEF Numbered, Video!Header
  <2>5. low[p] + Len(t) <= low[p + 1]
    BY <1>1, <2>1, <2>2, <2>3
  <2> QED BY <2>1, <2>4, <2>5 DEF PageFits, HeadFits, t
<1>4. CASE p = h
  <2>1. pages[p] = Video!Setup /\ low[p] + 2 <= low[p + 1]
    <3>1. p \in 1 .. h
      BY <1>2, <1>4
    <3> QED BY <1>4, <3>1 DEF Shape
  <2>2. /\ Video!Setup.packets = <<0, 0>> /\ Video!Setup.theora /\ ~Video!Setup.damaged
    BY DEF Video!Setup, Video!Page, Video!Header
  <2>3. Numbered(<<0, 0>>, low[p]) /\ Len(<<0, 0>>) = 2
    BY <1>1 DEF Numbered, Video!Header
  <2> QED BY <2>1, <2>2, <2>3 DEF PageFits
<1>5. CASE p > h
  <2>1. p \in h + 1 .. Len(pages)
    BY <1>2, <1>5
  <2> QED BY <2>1 DEF Shape, BodyFits, PageFits
<1> QED BY <1>2, <1>3, <1>4, <1>5

(* The frames of a video rise, and lie page by page. *)
LEMMA FilmIs ==
  ASSUME NEW h, NEW low, Shape(h, low)
  PROVE  \E fs, s : Film(fs, s)
<1>1. PICK n \in Nat \ {0} : n = Len(pages)
  <2>1. h \in Nat /\ h > 1 /\ Len(pages) \in Nat /\ h <= Len(pages)
    BY DEF Shape
  <2> QED BY <2>1
<1> DEFINE Q == [p \in 1 .. n |-> Video!FramesIn(pages[p].packets)]
<1>2. low \in [1 .. n + 1 -> Int]
  BY <1>1 DEF Shape
<1>3. ASSUME NEW p \in 1 .. n
      PROVE  Q[p] \in Seq(Int) /\ low[p] <= low[p + 1] /\ Rises(Q[p], low[p], low[p + 1])
  <2> DEFINE t == pages[p].packets
             fr == Video!FramesIn(t)
  <2>1. PICK a \in Int, b \in Int : a = low[p] /\ b = low[p + 1]
    <3>1. p \in 1 .. n + 1 /\ p + 1 \in 1 .. n + 1
      OBVIOUS
    <3> QED BY <1>2, <3>1
  <2>2. Numbered(t, a) /\ a + Len(t) <= b
    BY <1>1, <2>1, PageIs DEF PageFits
  <2>3. Rises(fr, a, a + Len(t))
    BY <2>2, FramesRise
  <2>4. Len(t) \in Nat
    BY <2>2 DEF Numbered
  <2>5. Q[p] = fr
    OBVIOUS
  <2> HIDE DEF fr, t, Q
  <2>6. \A i \in 1 .. Len(fr) : fr[i] \in Int
    <3>1. fr \in Seq(Int)
      BY <2>3 DEF Rises
    <3> QED BY <3>1
  <2>7. a <= b
    BY <2>2, <2>4
  <2>8. \A i \in 1 .. Len(fr) : a < fr[i] /\ fr[i] <= b /\ (i > 1 => fr[i - 1] < fr[i])
    <3> TAKE i \in 1 .. Len(fr)
    <3>1. PICK v \in Int : v = fr[i]
      BY <2>6
    <3>2. a < v /\ v <= a + Len(t) /\ (i > 1 => fr[i - 1] < v)
      BY <2>3, <3>1 DEF Rises
    <3>3. v <= b
      BY <2>2, <2>4, <3>2
    <3> QED BY <3>1, <3>2, <3>3
  <2>9. fr \in Seq(Int)
    BY <2>3 DEF Rises
  <2> QED BY <2>1, <2>5, <2>7, <2>8, <2>9 DEF Rises
<1>4. Len(Q) = n /\ \A p \in 1 .. n : Q[p] = Video!FramesIn(pages[p].packets)
  OBVIOUS
<1> HIDE DEF Q
<1>5. PICK f : Flat(Q, f, n)
  BY FlatExists
<1>6. Pieces(Int, Q, n)
  BY <1>3 DEF Pieces
<1>7. AllRise(Q, low, n)
  BY <1>2, <1>3 DEF AllRise
<1>8. \A k \in 1 .. n : f[k] \in Seq(Int)
  BY <1>5, <1>6, FlatType DEF Pieces
<1> DEFINE fs == f[n]
           s == [p \in 1 .. n + 1 |-> Start(f, p)]
<1>9. fs \in Seq(Int) /\ Rises(fs, low[1], low[n + 1])
  <2>1. n \in 1 .. n
    OBVIOUS
  <2> QED BY <1>5, <1>7, <1>8, <2>1, FlatRises
<1>10. \A p \in 1 .. n : s[p] = Start(f, p) /\ s[p + 1] = Len(f[p])
  <2> TAKE p \in 1 .. n
  <2>1. p \in 1 .. n + 1 /\ p + 1 \in 1 .. n + 1 /\ p + 1 # 1 /\ (p + 1) - 1 = p
    OBVIOUS
  <2> QED BY <2>1 DEF Start
<1>11. s[1] = 0
  <2>1. 1 \in 1 .. n + 1
    OBVIOUS
  <2> QED BY <2>1 DEF Start
<1>12. s \in [1 .. n + 1 -> Nat]
  <2>1. \A p \in 1 .. n + 1 : Start(f, p) \in Nat
    <3> TAKE p \in 1 .. n + 1
    <3>1. CASE p = 1
      BY <3>1 DEF Start
    <3>2. CASE p # 1
      <4>1. p - 1 \in 1 .. n
        BY <3>2
      <4> QED BY <1>8, <3>2, <4>1 DEF Start
    <3> QED BY <3>1, <3>2
  <2> QED BY <2>1
<1> HIDE DEF fs, s
<1>13. s[n + 1] = Len(fs)
  <2>1. n \in 1 .. n
    OBVIOUS
  <2> QED BY <1>10, <2>1 DEF fs
<1>14. \A i \in 2 .. Len(fs) : fs[i - 1] < fs[i]
  <2> TAKE i \in 2 .. Len(fs)
  <2>1. i \in 1 .. Len(fs) /\ i > 1
    BY <1>9
  <2> QED BY <1>9, <2>1 DEF Rises
<1>15. ASSUME NEW p \in 1 .. n
       PROVE  /\ LiesIn(Video!FramesIn(pages[p].packets), fs, s[p])
              /\ s[p + 1] = s[p] + Len(Video!FramesIn(pages[p].packets))
  <2>1. Len(f[p]) = Start(f, p) + Len(Q[p])
    BY <1>5, <1>6, FlatStep
  <2>2. \A j \in 1 .. Len(Q[p]) : f[n][Start(f, p) + j] = Q[p][j]
    BY <1>5, <1>6, FlatPlaces
  <2> QED BY <1>4, <1>10, <2>1, <2>2 DEF LiesIn, fs
<1>16. ASSUME NEW k \in 1 .. n
       PROVE  \A l \in k .. n : s[k + 1] <= s[l + 1] /\ \A j \in 1 .. Len(f[k]) : f[l][j] = f[k][j]
  <2> TAKE l \in k .. n
  <2>1. l \in 1 .. n
    OBVIOUS
  <2>2. Len(f[k]) <= Len(f[l]) /\ \A j \in 1 .. Len(f[k]) : f[l][j] = f[k][j]
    BY <1>5, <1>6, FlatStays
  <2> QED BY <1>10, <2>1, <2>2
<1>17. ASSUME NEW i \in 1 .. n + 1, NEW j \in 1 .. n + 1, i <= j
       PROVE  s[i] <= s[j]
  <2>1. CASE i = 1
    BY <1>11, <1>12, <2>1
  <2>2. CASE i # 1
    <3>1. i - 1 \in 1 .. n /\ j - 1 \in i - 1 .. n /\ (i - 1) + 1 = i /\ (j - 1) + 1 = j
      BY <1>17, <2>2
    <3>2. s[(i - 1) + 1] <= s[(j - 1) + 1]
      BY <1>16, <3>1
    <3> QED BY <3>1, <3>2
  <2> QED BY <2>1, <2>2
<1>18. ASSUME NEW m \in 0 .. n
       PROVE  /\ Video!FramesOf(m) \in Seq(Int) /\ Len(Video!FramesOf(m)) = s[m + 1]
              /\ LiesIn(Video!FramesOf(m), fs, 0)
  <2> DEFINE R == [p \in 1 .. m |-> Video!FramesIn(pages[p].packets)]
  <2>1. Video!FramesOf(m) = Video!FlattenSeq(R) /\ Len(R) = m
    BY DEF Video!FramesOf
  <2>2. \A p \in 1 .. m : R[p] = Q[p]
    <3> TAKE p \in 1 .. m
    <3>1. p \in 1 .. n
      OBVIOUS
    <3> QED BY <1>4, <3>1
  <2>3. CASE m = 0
    <3>1. R = <<>>
      BY <2>3
    <3> HIDE DEF R
    <3>2. Video!FramesOf(m) = <<>> /\ Len(<<>>) = 0 /\ <<>> \in Seq(Int)
      BY <2>1, <2>3, <3>1 DEF Video!FlattenSeq
    <3>3. LiesIn(<<>>, fs, 0)
      BY DEF LiesIn
    <3>4. s[m + 1] = 0
      BY <1>11, <2>3
    <3> QED BY <3>2, <3>3, <3>4
  <2> HIDE DEF R
  <2>4. CASE m # 0
    <3>1. m \in Nat \ {0} /\ m \in 1 .. n /\ n \in m .. n /\ m \in Nat /\ n \in Nat /\ m <= n /\ m \in 1 .. m
      BY <2>4
    <3>2. PICK g : Flat(R, g, m) /\ Video!FlattenSeq(R) = g[m]
      BY <2>1, <3>1, FlattenIs
    <3>3. g[m] = f[m]
      BY <1>5, <2>2, <3>1, <3>2, FlatSame
    <3>4. Video!FramesOf(m) = f[m] /\ s[m + 1] = Len(f[m])
      BY <1>10, <2>1, <3>1, <3>2, <3>3
    <3>5. \A j \in 1 .. Len(f[m]) : fs[j] = f[m][j]
      BY <1>16, <3>1 DEF fs
    <3>6. f[m] \in Seq(Int) /\ \A j \in 1 .. Len(f[m]) : 0 + j = j
      BY <1>8, <3>1
    <3> QED BY <3>4, <3>5, <3>6 DEF LiesIn
  <2> QED BY <2>3, <2>4
<1>19. Film(fs, s)
  BY <1>1, <1>9, <1>11, <1>12, <1>13, <1>14, <1>15, <1>17, <1>18 DEF Film
<1> QED BY <1>19

(* Where a page has no packets, no frame comes with it. *)
LEMMA NoFrames ==
  ASSUME NEW fs, NEW s, Film(fs, s), NEW p \in 1 .. Len(pages), pages[p].packets = <<>>
  PROVE  s[p + 1] = s[p]
<1>1. s[p + 1] = s[p] + Len(<<>>)
  BY FramesInNone DEF Film
<1>2. s[p] \in Nat
  <2>1. p \in 1 .. Len(pages) + 1
    OBVIOUS
  <2> QED BY <2>1 DEF Film
<1> QED BY <1>1, <1>2

(* Torn pages hold no frames. *)
LEMMA TornHasNone ==
  ASSUME NEW h, NEW low, Shape(h, low), NEW fs, NEW s, Film(fs, s),
         NEW q \in Nat, NEW p \in Nat, q <= p, p <= Len(pages), TornPages(q, p)
  PROVE  s[p + 1] = s[q + 1]
<1> DEFINE T == {k \in q .. p : s[k + 1] # s[q + 1]}
<1>1. T = {}
  <2> SUFFICES ASSUME T # {}
               PROVE  FALSE
    OBVIOUS
  <2>1. PICK k \in T : \A j \in T : k <= j
    <3>1. T \subseteq Nat
      OBVIOUS
    <3> QED BY <3>1, Least
  <2>2. k \in q .. p /\ s[k + 1] # s[q + 1]
    OBVIOUS
  <2>3. k # q /\ k - 1 \in q .. p /\ (k - 1) + 1 = k /\ k \in q + 1 .. p
    BY <2>2
  <2>4. k - 1 \notin T
    BY <2>1, <2>3
  <2>5. s[k] = s[q + 1]
    BY <2>3, <2>4
  <2>6. k \in 1 .. Len(pages) /\ Len(pages) \in Nat
    BY <2>3 DEF Shape
  <2>7. pages[k].packets = <<>>
    <3>1. pages[k].damaged
      BY <2>3 DEF TornPages, Torn
    <3> QED BY <2>6, <3>1, PageIs DEF PageFits
  <2> QED BY <2>2, <2>5, <2>6, <2>7, NoFrames
<1>2. p \in q .. p
  OBVIOUS
<1> QED BY <1>1, <1>2

(* The packets of a page stand where its frames do. *)
LEMMA PageRanked ==
  ASSUME NEW h, NEW low, Shape(h, low), NEW fs, NEW s, Film(fs, s), NEW p \in 1 .. Len(pages), NEW m
  PROVE  Ranked(pages[p].packets, s[p], s[p + 1], fs, m)
<1>1. Len(pages) \in Nat
  BY DEF Shape
<1>2. Numbered(pages[p].packets, low[p])
  BY <1>1, PageIs DEF PageFits
<1>3. s[p] \in Nat
  <2>1. p \in 1 .. Len(pages) + 1
    BY <1>1
  <2> QED BY <2>1 DEF Film
<1>4. LiesIn(Video!FramesIn(pages[p].packets), fs, s[p])
  BY DEF Film
<1>5. s[p + 1] = s[p] + Len(Video!FramesIn(pages[p].packets))
  BY DEF Film
<1> QED BY <1>2, <1>3, <1>4, <1>5, FramesRanked

-----------------------------------------------------------------------------
(* The queue of packets and the pages that are passed. *)
HeadersFirst(t) ==
  \A k \in 1 .. Len(t) : t[k] = Video!Header => \A i \in 1 .. k : t[i] = Video!Header
NoHeader(t) == \A k \in 1 .. Len(t) : t[k] # Video!Header

(* Packets that are no headers come behind the headers. *)
LEMMA HeadersJoin ==
  ASSUME NEW t \in Seq(Int), NEW u \in Seq(Int), NoHeader(u)
  PROVE  /\ HeadersFirst(t) => HeadersFirst(t \o u)
         /\ NoHeader(t) => NoHeader(t \o u)
<1>1. PICK m \in Nat, n \in Nat : m = Len(t) /\ n = Len(u)
  OBVIOUS
<1>2. /\ Len(t \o u) = m + n
      /\ \A i \in 1 .. m + n : (t \o u)[i] = IF i <= m THEN t[i] ELSE u[i - m]
  BY <1>1, ConcatProperties
<1>3. ASSUME NEW k \in 1 .. m + n, (t \o u)[k] = Video!Header
      PROVE  k \in 1 .. m /\ t[k] = Video!Header
  <2>1. CASE k <= m
    BY <1>2, <1>3, <2>1
  <2>2. CASE ~(k <= m)
    <3>1. k - m \in 1 .. n /\ (t \o u)[k] = u[k - m]
      BY <1>2, <2>2
    <3> QED BY <1>1, <1>3, <3>1 DEF NoHeader
  <2> QED BY <2>1, <2>2
<1>4. ASSUME HeadersFirst(t), NEW k \in 1 .. m + n, (t \o u)[k] = Video!Header, NEW i \in 1 .. k
      PROVE  (t \o u)[i] = Video!Header
  <2>1. k \in 1 .. m /\ t[k] = Video!Header
    BY <1>3, <1>4
  <2>2. t[i] = Video!Header
    BY <1>1, <1>4, <2>1 DEF HeadersFirst
  <2>3. i \in 1 .. m + n /\ i <= m
    BY <2>1
  <2> QED BY <1>2, <2>2, <2>3
<1>5. HeadersFirst(t) => HeadersFirst(t \o u)
  BY <1>2, <1>4 DEF HeadersFirst
<1>6. ASSUME NoHeader(t), NEW k \in 1 .. m + n, (t \o u)[k] = Video!Header
      PROVE  FALSE
  <2>1. k \in 1 .. m /\ t[k] = Video!Header
    BY <1>3, <1>6
  <2> QED BY <1>1, <1>6, <2>1 DEF NoHeader
<1>7. NoHeader(t) => NoHeader(t \o u)
  BY <1>2, <1>6 DEF NoHeader
<1> QED BY <1>5, <1>7

(* Headers stay first when a packet is taken. *)
LEMMA HeadersTail ==
  ASSUME NEW t \in Seq(Int), t # <<>>
  PROVE  /\ HeadersFirst(t) => HeadersFirst(Tail(t))
         /\ NoHeader(t) => NoHeader(Tail(t))
         /\ HeadersFirst(t) /\ Head(t) # Video!Header => NoHeader(t)
         /\ NoHeader(t) => Head(t) # Video!Header
<1>1. PICK n \in Nat : Len(t) = n + 1
  <2>1. Len(t) \in Nat \ {0}
    BY EmptySeq
  <2>2. Len(t) - 1 \in Nat /\ Len(t) = (Len(t) - 1) + 1
    BY <2>1
  <2> QED BY <2>2
<1>2. Len(Tail(t)) = n /\ \A i \in 1 .. n : Tail(t)[i] = t[i + 1]
  <2>1. Len(Tail(t)) = Len(t) - 1 /\ \A i \in 1 .. Len(Tail(t)) : Tail(t)[i] = t[i + 1]
    BY HeadTailProperties
  <2>2. Len(t) - 1 = n
    BY <1>1
  <2> QED BY <2>1, <2>2
<1>3. Head(t) = t[1] /\ 1 \in 1 .. Len(t)
  BY <1>1
<1>4. ASSUME HeadersFirst(t), NEW k \in 1 .. n, Tail(t)[k] = Video!Header, NEW i \in 1 .. k
      PROVE  Tail(t)[i] = Video!Header
  <2>1. k + 1 \in 1 .. Len(t) /\ i + 1 \in 1 .. k + 1 /\ i \in 1 .. n
    BY <1>1
  <2>2. t[k + 1] = Video!Header
    BY <1>2, <1>4
  <2>3. t[i + 1] = Video!Header
    BY <1>4, <2>1, <2>2 DEF HeadersFirst
  <2> QED BY <1>2, <2>1, <2>3
<1>5. HeadersFirst(t) => HeadersFirst(Tail(t))
  BY <1>2, <1>4 DEF HeadersFirst
<1>6. ASSUME NoHeader(t), NEW k \in 1 .. n
      PROVE  Tail(t)[k] # Video!Header
  <2>1. k + 1 \in 1 .. Len(t)
    BY <1>1
  <2> QED BY <1>2, <1>6, <2>1 DEF NoHeader
<1>7. NoHeader(t) => NoHeader(Tail(t))
  BY <1>2, <1>6 DEF NoHeader
<1>8. ASSUME HeadersFirst(t), Head(t) # Video!Header, NEW k \in 1 .. Len(t), t[k] = Video!Header
      PROVE  FALSE
  <2>1. 1 \in 1 .. k
    OBVIOUS
  <2> QED BY <1>3, <1>8, <2>1 DEF HeadersFirst
<1>9. HeadersFirst(t) /\ Head(t) # Video!Header => NoHeader(t)
  BY <1>8 DEF NoHeader
<1>10. NoHeader(t) => Head(t) # Video!Header
  BY <1>3 DEF NoHeader
<1> QED BY <1>5, <1>7, <1>9, <1>10

(* What is known of a video that holds a stream of pictures and is decoded. *)
Known(h, low, fs, s, w) ==
  Measured /\ Shape(h, low) /\ Film(fs, s) /\ Intact(w)

(* The page that came into the stream last is l, and nothing of the stream
   came behind it, up to page q. *)
LastIs(l, q) == l \in 1 .. q /\ \A n \in l + 1 .. q : ~pages[n].theora \/ Torn(n)

(* The numbers of a video. *)
LEMMA KnownTypes ==
  ASSUME NEW h, NEW low, NEW fs, NEW s, NEW w, Known(h, low, fs, s, w)
  PROVE  /\ Len(pages) \in Nat /\ h \in Nat /\ h > 1 /\ h <= Len(pages)
         /\ w \in Nat /\ w <= Len(pages)
         /\ ~Torn(1) /\ pages[1].bos
         /\ s \in [1 .. Len(pages) + 1 -> Nat]
<1>1. Len(pages) \in Nat /\ h \in Nat /\ h > 1 /\ h <= Len(pages)
  BY DEF Known, Shape
<1>2. w \in Nat /\ w <= Len(pages)
  <2>1. Video!InFile \in Nat /\ Video!InFile <= Len(pages)
    BY InFileIs DEF Known
  <2>2. w \in 0 .. Video!InFile
    BY DEF Known, Intact
  <2> QED BY <1>1, <2>1, <2>2
<1>3. HeadFits(pages[1], 1)
  <2>1. 1 \in 1 .. h - 1
    BY <1>1
  <2> QED BY <2>1 DEF Known, Shape
<1> QED BY <1>1, <1>2, <1>3 DEF HeadFits, Torn, Known, Film

(* Where libogg reports a gap, the frames before the first torn page came before. *)
LEMMA GapIsLate ==
  ASSUME NEW h, NEW low, NEW fs, NEW s, NEW w, Known(h, low, fs, s, w),
         NEW q \in Nat, NEW p \in Nat, q < p, p <= Len(pages), TornPages(q, p - 1),
         NEW l, LastIs(l, q), NEW n \in l + 1 .. p - 1, pages[n].theora
  PROVE  s[w + 1] <= s[q + 1] /\ p > h
<1>1. Len(pages) \in Nat /\ h \in Nat /\ w \in Nat /\ l \in Nat /\ l >= 1
  BY KnownTypes DEF LastIs
<1>2. n \in Nat /\ n >= 2 /\ n <= p - 1
  BY <1>1
<1>3. Torn(n)
  <2>1. CASE n <= q
    <3>1. n \in l + 1 .. q
      BY <1>1, <2>1
    <3> QED BY <3>1 DEF LastIs
  <2>2. CASE ~(n <= q)
    <3>1. n \in q + 1 .. p - 1
      BY <1>2, <2>2
    <3> QED BY <3>1 DEF TornPages
  <2> QED BY <2>1, <2>2
<1>4. \E i \in 1 .. q + 1 : Torn(i)
  <2>1. CASE n <= q
    <3>1. n \in 1 .. q + 1
      BY <1>2, <2>1
    <3> QED BY <1>3, <3>1
  <2>2. CASE ~(n <= q)
    <3>1. q + 1 \in q + 1 .. p - 1 /\ q + 1 \in 1 .. q + 1
      BY <1>2, <2>2
    <3> QED BY <3>1 DEF TornPages
  <2> QED BY <2>1, <2>2
<1>5. w <= q
  <2>1. Video!InFile \in Nat /\ Intact(w)
    BY InFileIs DEF Known
  <2> QED BY <1>4, <2>1, TornPassed
<1>6. w + 1 \in 1 .. Len(pages) + 1 /\ q + 1 \in 1 .. Len(pages) + 1 /\ w + 1 <= q + 1
  BY <1>1, <1>5
<1>7. s[w + 1] <= s[q + 1]
  BY <1>6 DEF Known, Film
<1>8. n > h
  <2>1. CASE n < h
    <3>1. HeadFits(pages[n], n)
      <4>1. n \in 1 .. h - 1
        BY <1>1, <1>2, <2>1
      <4> QED BY <4>1 DEF Known, Shape
    <3> QED BY <1>2, <3>1 DEF HeadFits
  <2>2. CASE n = h
    BY <1>3, <2>2 DEF Known, Shape, Torn, Video!Setup, Video!Page
  <2> QED BY <1>1, <1>2, <2>1, <2>2
<1>9. p > h
  BY <1>1, <1>2, <1>8
<1> QED BY <1>7, <1>9

(* What the queue is when the first q pages are passed and e pictures are drawn. *)
Queued(t, l, q, e, h, fs, s, w) ==
  /\ Ranked(t, e, s[q + 1], fs, s[w + 1])
  /\ LastIs(l, q) /\ HeadersFirst(t)
  /\ q < h => t = <<>>

(* A page is queued. *)
LEMMA PageQueued ==
  ASSUME NEW h, NEW low, NEW fs, NEW s, NEW w, Known(h, low, fs, s, w),
         NEW q, NEW p, NEW e, Queued(to, lastpage, q, e, h, fs, s, w),
         q \in Nat, p \in Nat, q < p, p <= Len(pages), ~Torn(p), TornPages(q, p - 1),
         theora_p > 0, Video!queue_page(p)
  PROVE  /\ Queued(to', lastpage', p, e, h, fs, s, w)
         /\ q >= h /\ NoHeader(to) => NoHeader(to')
<1>1. Len(pages) \in Nat /\ h \in Nat /\ w \in Nat /\ p \in 1 .. Len(pages) /\ q \in Nat
  BY KnownTypes
<1>2. to \in Seq(Int)
  BY DEF Queued, Ranked
<1>3. s[p] = s[q + 1]
  <2>1. p - 1 \in Nat /\ q <= p - 1 /\ p - 1 <= Len(pages) /\ (p - 1) + 1 = p
    BY <1>1
  <2> QED BY <1>1, <2>1, TornHasNone DEF Known
<1>4. Ranked(pages[p].packets, s[p], s[p + 1], fs, s[w + 1])
  BY <1>1, PageRanked DEF Known
<1>5. CASE pages[p].theora
  <2>1. /\ to' = to \o (IF Video!Missing(p) THEN <<Video!Hole>> ELSE <<>>) \o pages[p].packets
        /\ lastpage' = p
    BY <1>5 DEF Video!queue_page
  <2>2. PICK gap : gap = IF Video!Missing(p) THEN <<Video!Hole>> ELSE <<>>
    OBVIOUS
  <2>3. Video!Missing(p) => s[w + 1] <= s[q + 1] /\ p > h
    <3> SUFFICES ASSUME Video!Missing(p)
                 PROVE  s[w + 1] <= s[q + 1] /\ p > h
      OBVIOUS
    <3>1. PICK n \in lastpage + 1 .. p - 1 : pages[n].theora
      BY DEF Video!Missing
    <3>2. LastIs(lastpage, q)
      BY DEF Queued
    <3> QED BY <1>1, <3>1, <3>2, GapIsLate
  <2>4. Ranked(gap, s[q + 1], s[q + 1], fs, s[w + 1])
    <3>1. s[q + 1] \in Nat
      BY DEF Queued, Ranked
    <3>2. CASE Video!Missing(p)
      <4>1. Follows(Video!Hole, s[q + 1], s[q + 1], fs, s[w + 1]) /\ Video!Hole \in Int
        BY <2>3, <3>2 DEF Follows, Video!Hole
      <4> QED BY <2>2, <3>1, <3>2, <4>1, RankedOne
    <3>3. CASE ~Video!Missing(p)
      BY <2>2, <3>1, <3>3, RankedNone
    <3> QED BY <3>2, <3>3
  <2>5. Ranked(to \o gap, e, s[q + 1], fs, s[w + 1])
    <3>1. Ranked(to, e, s[q + 1], fs, s[w + 1])
      BY DEF Queued
    <3> QED BY <2>4, <3>1, RankedJoin
  <2>6. Ranked((to \o gap) \o pages[p].packets, e, s[p + 1], fs, s[w + 1])
    BY <1>3, <1>4, <2>5, RankedJoin
  <2>7. to' = (to \o gap) \o pages[p].packets
    BY <2>1, <2>2
  <2>8. gap \in Seq(Int) /\ NoHeader(gap) /\ pages[p].packets \in Seq(Int)
    <3>1. gap = <<>> \/ gap = <<Video!Hole>>
      BY <2>2
    <3>2. NoHeader(<<>>) /\ NoHeader(<<Video!Hole>>)
      BY DEF NoHeader, Video!Header, Video!Hole
    <3> QED BY <1>4, <2>4, <3>1, <3>2 DEF Ranked
  <2>9. to \o gap \in Seq(Int)
    BY <1>2, <2>8, ConcatProperties
  <2>10. LastIs(p, p)
    BY <1>1 DEF LastIs
  <2>11. p >= h
    <3> SUFFICES ASSUME p < h
                 PROVE  FALSE
      BY <1>1
    <3>1. HeadFits(pages[p], p)
      <4>1. p \in 1 .. h - 1
        BY <1>1
      <4> QED BY <4>1 DEF Known, Shape
    <3>2. p = 1
      BY <1>5, <3>1 DEF HeadFits
    <3>3. q >= 1
      BY <1>1 DEF Queued, LastIs
    <3> QED BY <1>1, <3>2, <3>3
  <2>12. Ranked(to', e, s[p + 1], fs, s[w + 1]) /\ LastIs(lastpage', p) /\ ~(p < h)
    <3>1. Ranked(to', e, s[p + 1], fs, s[w + 1])
      BY <2>6, <2>7
    <3>2. LastIs(lastpage', p)
      BY <2>1, <2>10
    <3>3. ~(p < h)
      BY <1>1, <2>11
    <3> QED BY <3>1, <3>2, <3>3
  <2>13. CASE p = h
    <3>1. to = <<>> /\ gap = <<>>
      BY <1>1, <2>2, <2>3, <2>13 DEF Queued
    <3>2. pages[p].packets = <<Video!Header, Video!Header>>
      BY <2>13 DEF Known, Shape, Video!Setup, Video!Page
    <3>3. to' = <<Video!Header, Video!Header>>
      BY <2>7, <3>1, <3>2
    <3>4. HeadersFirst(<<Video!Header, Video!Header>>)
      BY DEF HeadersFirst, Video!Header
    <3>5. HeadersFirst(to') /\ ~(q >= h)
      BY <1>1, <2>13, <3>3, <3>4
    <3> QED BY <2>12, <3>5 DEF Queued
  <2>14. CASE p > h
    <3>1. NoHeader(pages[p].packets)
      <4>1. p \in h + 1 .. Len(pages)
        BY <1>1, <2>14
      <4> QED BY <4>1 DEF Known, Shape, BodyFits, NoHeader
    <3>2. HeadersFirst(to \o gap) /\ (NoHeader(to) => NoHeader(to \o gap))
      BY <1>2, <2>8, HeadersJoin DEF Queued
    <3>3. HeadersFirst(to') /\ (NoHeader(to) => NoHeader(to'))
      BY <2>7, <2>8, <2>9, <3>1, <3>2, HeadersJoin
    <3> QED BY <2>12, <3>3 DEF Queued
  <2> QED BY <1>1, <2>11, <2>13, <2>14
<1>6. CASE ~pages[p].theora
  <2>1. to' = to /\ lastpage' = lastpage
    BY <1>6 DEF Video!queue_page
  <2>2. s[p + 1] = s[p]
    <3>1. pages[p].packets = <<>>
      BY <1>1, <1>6, PageIs DEF Known, PageFits
    <3> QED BY <1>1, <3>1, NoFrames DEF Known
  <2>3. LastIs(lastpage, p)
    <3>1. LastIs(lastpage, q)
      BY DEF Queued
    <3>2. lastpage \in 1 .. p
      BY <1>1, <3>1 DEF LastIs
    <3>3. ASSUME NEW n \in lastpage + 1 .. p
          PROVE  ~pages[n].theora \/ Torn(n)
      <4>1. n \in lastpage + 1 .. q \/ n \in q + 1 .. p - 1 \/ n = p
        BY <1>1, <3>2
      <4> QED BY <1>6, <3>1, <4>1 DEF LastIs, TornPages
    <3> QED BY <3>2, <3>3 DEF LastIs
  <2>4. q < h => to = <<>>
    BY DEF Queued
  <2>5. p < h => q < h
    BY <1>1
  <2> QED BY <1>3, <2>1, <2>2, <2>3, <2>4, <2>5 DEF Queued
<1> QED BY <1>5, <1>6

(* Torn pages are passed. *)
LEMMA NoneQueued ==
  ASSUME NEW h, NEW low, NEW fs, NEW s, NEW w, Known(h, low, fs, s, w),
         NEW q, NEW p, NEW e, Queued(to, lastpage, q, e, h, fs, s, w),
         q \in Nat, p \in Nat, q <= p, p <= Len(pages), TornPages(q, p)
  PROVE  Queued(to, lastpage, p, e, h, fs, s, w)
<1>1. h \in Nat
  BY KnownTypes
<1>2. s[p + 1] = s[q + 1]
  BY TornHasNone DEF Known
<1>3. LastIs(lastpage, q)
  BY DEF Queued
<1>4. lastpage \in 1 .. p
  BY <1>3 DEF LastIs
<1>5. ASSUME NEW n \in lastpage + 1 .. p
      PROVE  ~pages[n].theora \/ Torn(n)
  <2>1. n \in lastpage + 1 .. q \/ n \in q + 1 .. p
    BY <1>4
  <2> QED BY <1>3, <2>1 DEF LastIs, TornPages
<1>6. p < h => q < h
  BY <1>1
<1> QED BY <1>2, <1>4, <1>5, <1>6 DEF Queued, LastIs

-----------------------------------------------------------------------------
(* The invariant of a video that is decoded. *)
Synced(q) == \E from, z : SyncLies(sync, from, z) /\ AtPage(from, q)

(* The queue, when the first q pages are passed. *)
Gathered(h, fs, s, w, q) ==
  /\ theora_p \in Nat
  /\ theora_p > 0 => Queued(to, lastpage, q, Len(video), h, fs, s, w)
  /\ theora_p = 0 => q = 0 /\ to = <<>> /\ video = <<>>

(* The pictures are the first frames and have their numbers; the last one may
   not have been written. *)
Drawn(fs) ==
  /\ video \in Seq(Nat \X Int) /\ frames = Len(video)
  /\ \A k \in 1 .. Len(video) : video[k][2] = fs[k]
  /\ vphase # "fault" =>
       \A k \in 1 .. Len(video) : (videobuf_ready /\ k = Len(video)) \/ video[k][1] = k

Looping == {"init", "rest", "main", "pages"}

Phased(h, s, w, q) ==
  /\ vphase \in Looping \cup {"bos", "bospages", "headers", "done", "refused", "exited", "fault"}
  /\ vphase \in {"bos", "main"} => Awaits(q, w)
  /\ vphase \notin {"bos", "bospages"} /\ theora_p = 0 => Video!InFile = 0
  /\ vphase \in Looping /\ theora_p > 0 => q >= h /\ NoHeader(to)
  /\ vphase = "done" => s[w + 1] <= Len(video)

Watched(h, low, fs, s, w, q) ==
  /\ Known(h, low, fs, s, w) /\ pages[1].theora
  /\ q \in Nat /\ q <= Len(pages)
  /\ Synced(q) /\ Gathered(h, fs, s, w, q) /\ Drawn(fs) /\ Phased(h, s, w, q)

(* The video stays what it is. *)
LEMMA FilmKept ==
  ASSUME UNCHANGED Video!film, NEW h, NEW low, NEW fs, NEW s, NEW w, Known(h, low, fs, s, w)
  PROVE  Known(h, low, fs, s, w)'
<1>1. UNCHANGED <<pages, pagesize, filesize>>
  BY DEF Video!film
<1>2. Measured'
  BY <1>1 DEF Known, Measured, Edge
<1>3. Shape(h, low)'
  BY <1>1 DEF Known, Shape, HeadFits, BodyFits
<1>4. Film(fs, s)'
  <2>1. \A m : Video!FramesOf(m)' = Video!FramesOf(m)
    BY <1>1 DEF Video!FramesOf
  <2> QED BY <1>1, <2>1 DEF Known, Film
<1>5. Intact(w)'
  BY <1>1 DEF Known, Intact, Torn, Video!InFile
<1> QED BY <1>2, <1>3, <1>4, <1>5 DEF Known

(* The buffer lies as it did while the file is not read. *)
LEMMA SyncKept ==
  ASSUME UNCHANGED Video!film, UNCHANGED position, NEW y, y = sync',
         NEW from, NEW z, NEW q, SyncLies(y, from, z), AtPage(from, q)
  PROVE  Synced(q)'
<1>1. UNCHANGED <<pages, pagesize, filesize, position>>
  BY DEF Video!film
<1>2. SyncLies(sync, from, z)'
  BY <1>1 DEF SyncLies, LiesAt, UnitAt, Video!Unit, Video!Stale
<1>3. AtPage(from, q)'
  BY <1>1 DEF AtPage, Edge, Torn, Video!InFile
<1> QED BY <1>2, <1>3 DEF Synced

(* So it does when no unit is taken from it either. *)
LEMMA SyncedKept ==
  ASSUME UNCHANGED Video!film, UNCHANGED <<position, sync>>, NEW q, Synced(q)
  PROVE  Synced(q)'
<1>1. PICK from, z : SyncLies(sync, from, z) /\ AtPage(from, q)
  BY DEF Synced
<1>2. sync = sync'
  OBVIOUS
<1> QED BY <1>1, <1>2, SyncKept

(* The queue by its next value. *)
LEMMA QueueKept ==
  ASSUME UNCHANGED Video!film, NEW h, NEW fs, NEW s, NEW w, NEW q, NEW e, e = Len(video'),
         Queued(to', lastpage', q, e, h, fs, s, w)
  PROVE  Queued(to, lastpage, q, Len(video), h, fs, s, w)'
<1>1. UNCHANGED pages
  BY DEF Video!film
<1> QED BY <1>1 DEF Queued, LastIs, Torn, HeadersFirst

(* No page waits while the file is not read. *)
LEMMA AwaitsKept ==
  ASSUME UNCHANGED Video!film, UNCHANGED position, NEW q, NEW w, Awaits(q, w)
  PROVE  Awaits(q, w)'
BY DEF Awaits, Edge, Video!film

(* The pictures stay. *)
LEMMA DrawnKept ==
  ASSUME UNCHANGED <<video, frames, videobuf_ready>>, vphase # "fault", NEW fs, Drawn(fs)
  PROVE  Drawn(fs)'
BY DEF Drawn

(* A page is taken from the buffer, or none is there. *)
LEMMA PageTaken ==
  ASSUME Measured, NEW q, NEW w, Synced(q), Intact(w), Video!TakePage,
         UNCHANGED Video!film, UNCHANGED position
  PROVE  \E p : Passes(q, p, w) /\ Synced(p)' /\ p \in Nat /\ p <= Len(pages)
<1>1. PICK from, z : SyncLies(sync, from, z) /\ AtPage(from, q)
  BY DEF Synced
<1>2. PICK from2, z2, p : SyncLies(Video!PageOut.rest, from2, z2) /\ AtPage(from2, p) /\ Passes(q, p, w)
  BY <1>1, PageOutIs
<1>3. Video!PageOut.rest = sync'
  BY DEF Video!TakePage
<1>4. Synced(p)'
  BY <1>2, <1>3, SyncKept
<1>5. p \in Nat /\ p <= Len(pages)
  <2>1. p \in 0 .. Len(pages) /\ Len(pages) \in Nat
    BY <1>2 DEF AtPage, Measured
  <2> QED BY <2>1
<1> QED BY <1>2, <1>4, <1>5

(* The page that is taken is queued. *)
LEMMA NextPageGathers ==
  ASSUME NEW h, NEW low, NEW fs, NEW s, NEW w, Known(h, low, fs, s, w), NEW q, NEW p, Passes(q, p, w),
         Gathered(h, fs, s, w, q), theora_p > 0, Video!PageOut.result = "page",
         Video!queue_page(Video!PageOut.page),
         UNCHANGED Video!film, UNCHANGED <<theora_p, video>>
  PROVE  /\ Gathered(h, fs, s, w, p)'
         /\ q >= h /\ NoHeader(to) => p >= h /\ NoHeader(to)'
<1>1. /\ q \in Nat /\ p \in Nat /\ q < p /\ p <= Len(pages) /\ ~Torn(p) /\ TornPages(q, p - 1)
      /\ Video!queue_page(p)
  BY DEF Passes
<1>2. PICK e : e = Len(video)
  OBVIOUS
<1>3. Queued(to, lastpage, q, e, h, fs, s, w)
  BY <1>2 DEF Gathered
<1>4. /\ Queued(to', lastpage', p, e, h, fs, s, w)
      /\ q >= h /\ NoHeader(to) => NoHeader(to')
  BY <1>1, <1>3, PageQueued
<1>5. Queued(to, lastpage, p, Len(video), h, fs, s, w)'
  BY <1>2, <1>4, QueueKept
<1>6. h \in Nat
  BY KnownTypes
<1>7. NoHeader(to') => NoHeader(to)'
  BY DEF NoHeader
<1>8. q >= h => p >= h
  BY <1>1, <1>6
<1> QED BY <1>4, <1>5, <1>7, <1>8 DEF Gathered

(* No page is taken: those that are passed are torn. *)
LEMMA NoPageGathers ==
  ASSUME NEW h, NEW low, NEW fs, NEW s, NEW w, Known(h, low, fs, s, w), NEW q, NEW p, Passes(q, p, w),
         Gathered(h, fs, s, w, q), Video!PageOut.result # "page", p <= Len(pages),
         UNCHANGED Video!film, UNCHANGED <<to, lastpage, theora_p, video>>
  PROVE  /\ Gathered(h, fs, s, w, p)'
         /\ q >= h /\ NoHeader(to) => p >= h /\ NoHeader(to)'
         /\ Awaits(p, w)
<1>1. q \in Nat /\ p \in Nat /\ q <= p /\ TornPages(q, p) /\ Awaits(p, w)
  BY DEF Passes
<1>4. Gathered(h, fs, s, w, p)'
  <2>1. CASE theora_p > 0
    <3>1. PICK e : e = Len(video)
      OBVIOUS
    <3>2. Queued(to, lastpage, q, e, h, fs, s, w)
      BY <2>1, <3>1 DEF Gathered
    <3>3. Queued(to', lastpage', p, e, h, fs, s, w)
      <4>1. Queued(to, lastpage, p, e, h, fs, s, w)
        BY <1>1, <3>2, NoneQueued
      <4> QED BY <4>1
    <3>4. Queued(to, lastpage, p, Len(video), h, fs, s, w)'
      BY <3>1, <3>3, QueueKept
    <3> QED BY <2>1, <3>4 DEF Gathered
  <2>2. CASE theora_p = 0
    <3>1. p = 0
      <4> SUFFICES ASSUME p # 0
                   PROVE  FALSE
        OBVIOUS
      <4>1. 1 \in q + 1 .. p
        BY <1>1, <2>2 DEF Gathered
      <4> QED BY <4>1, <1>1, KnownTypes DEF TornPages
    <3> QED BY <2>2, <3>1 DEF Gathered
  <2>3. theora_p > 0 \/ theora_p = 0
    BY DEF Gathered
  <2> QED BY <2>1, <2>2, <2>3
<1>5. h \in Nat
  BY KnownTypes
<1>6. NoHeader(to) => NoHeader(to)'
  BY DEF NoHeader
<1>7. q >= h => p >= h
  BY <1>1, <1>5
<1> QED BY <1>1, <1>4, <1>6, <1>7

(* Without a Theora stream the first page is taken, if any. *)
LEMMA FirstPage ==
  ASSUME NEW h, NEW low, NEW fs, NEW s, NEW w, Known(h, low, fs, s, w), NEW q, NEW p, Passes(q, p, w),
         Gathered(h, fs, s, w, q), theora_p = 0, Video!PageOut.result = "page", Synced(q)
  PROVE  p = 1 /\ Video!InFile # 0
<1>1. q = 0 /\ p \in Nat /\ q < p /\ TornPages(q, p - 1) /\ Edge(p) <= position
  BY DEF Passes, Gathered
<1>2. p = 1
  <2> SUFFICES ASSUME p # 1
               PROVE  FALSE
    OBVIOUS
  <2>1. 1 \in q + 1 .. p - 1
    BY <1>1
  <2> QED BY <1>1, <2>1, KnownTypes DEF TornPages
<1>3. Video!InFile # 0
  <2>1. PICK from, z : SyncLies(sync, from, z)
    BY DEF Synced
  <2>2. position <= filesize /\ position \in Nat /\ filesize \in Nat
    BY <2>1, SyncTypes DEF Known
  <2>3. filesize < Edge(Video!InFile + 1)
    BY InFileIs DEF Known
  <2>4. Edge(1) <= position /\ Edge(1) \in Nat
    BY <1>1, <1>2, EdgeFacts DEF Known
  <2>5. SUFFICES ASSUME Video!InFile = 0
                 PROVE  FALSE
    OBVIOUS
  <2>6. filesize < Edge(1)
    BY <2>3, <2>5
  <2> QED BY <2>2, <2>4, <2>6
<1> QED BY <1>2, <1>3

-----------------------------------------------------------------------------
(* More of the file, or what the stack holds at its end, comes into the buffer. *)
LEMMA ReadLies ==
  ASSUME Measured, UNCHANGED Video!film, NEW y, NEW from, NEW z, NEW q,
         SyncLies(y, from, z), AtPage(from, q), position < filesize,
         NEW c \in Nat, c <= filesize - position,
         sync' = y \o Video!Content(position, c), position' = position + c
  PROVE  Synced(q)'
<1>1. UNCHANGED <<pages, pagesize, filesize>>
  BY DEF Video!film
<1>2. PICK e : e = position + c
  OBVIOUS
<1>3. PICK x : x = y \o Video!Content(position, c)
  OBVIOUS
<1>4. LiesAt(e, x, from, 0)
  BY <1>2, <1>3, MoreLies
<1>5. LiesAt(e, x, from, 0)'
  BY <1>1, <1>4 DEF LiesAt, UnitAt, Video!Unit, Video!Stale
<1>6. SyncLies(sync, from, 0)'
  BY <1>2, <1>3, <1>5 DEF SyncLies
<1>7. AtPage(from, q)'
  <2>1. position < filesize /\ position \in Nat /\ filesize \in Nat
    BY SyncTypes
  <2>2. ~(from = position /\ from = filesize)
    BY <2>1
  <2>3. q \in 0 .. Len(pages) /\ from <= Edge(q) /\ (from < Edge(q) => Torn(q)) /\ (q > 0 => Edge(q - 1) < from)
    BY <2>2 DEF AtPage
  <2>4. q \in 0 .. Len(pages') /\ Edge(q)' = Edge(q) /\ (Torn(q) => Torn(q)') /\ Edge(q - 1)' = Edge(q - 1)
    BY <1>1, <2>3 DEF Edge, Torn
  <2> QED BY <2>3, <2>4 DEF AtPage
<1> QED BY <1>6, <1>7 DEF Synced

(* buffer_data keeps the buffer in order; it reads nothing only at the end of the file. *)
LEMMA BufferedLies ==
  ASSUME Measured, UNCHANGED Video!film, NEW y, NEW from, NEW z, NEW q,
         SyncLies(y, from, z), AtPage(from, q), NEW ret \in 0 .. Chunk, Video!buffer_data(y, ret)
  PROVE  /\ Synced(q)'
         /\ ret = 0 => position = filesize /\ position' = position
         /\ UNCHANGED <<to, lastpage>>
<1>1. /\ position \in Nat /\ filesize \in Nat /\ position <= filesize /\ Chunk \in Nat \ {0}
  BY SyncTypes, MediaAssumption DEF Video!VideoAssumption
<1>2. UNCHANGED <<to, lastpage>>
  BY DEF Video!buffer_data
<1>3. CASE position < filesize
  <2>1. /\ ret = Video!Least(Chunk, filesize - position)
        /\ sync' = y \o Video!Content(position, ret) /\ position' = position + ret
    BY <1>3 DEF Video!buffer_data
  <2>2. ret \in Nat \ {0} /\ ret <= filesize - position
    BY <1>1, <1>3, <2>1 DEF Video!Least
  <2>3. Synced(q)'
    BY <1>3, <2>1, <2>2, ReadLies
  <2> QED BY <1>2, <2>2, <2>3
<1>4. CASE ~(position < filesize)
  <2>1. sync' = y \o [k \in 1 .. ret |-> Video!Stale] /\ UNCHANGED position
    BY <1>4 DEF Video!buffer_data
  <2>2. PICK x : x = y \o [k \in 1 .. ret |-> Video!Stale]
    OBVIOUS
  <2>3. ret \in Nat
    BY <1>1
  <2>4. SyncLies(x, from, z + ret)
    BY <1>4, <2>2, <2>3, StaleLies DEF SyncLies
  <2>5. Synced(q)'
    BY <2>1, <2>2, <2>4, SyncKept
  <2>6. position = filesize
    BY <1>1, <1>4
  <2> QED BY <1>2, <2>1, <2>5, <2>6
<1> QED BY <1>3, <1>4

(* A page with the first headers holds no frame. *)
LEMMA HeadNoFrames ==
  ASSUME NEW h, NEW low, NEW fs, NEW s, NEW w, Known(h, low, fs, s, w), NEW p \in Nat, p > 0, p < h
  PROVE  s[p + 1] = s[p]
<1>1. h \in Nat /\ h <= Len(pages) /\ Len(pages) \in Nat
  BY KnownTypes
<1>2. p \in 1 .. Len(pages) /\ p \in 1 .. h - 1
  BY <1>1
<1>3. HeadFits(pages[p], p)
  BY <1>2 DEF Known, Shape
<1>4. Ranked(pages[p].packets, s[p], s[p + 1], fs, 0)
  BY <1>2, PageRanked DEF Known
<1>5. PICK t, a, b : t = pages[p].packets /\ a = s[p] /\ b = s[p + 1]
  OBVIOUS
<1>6. t \in Seq({Video!Header}) /\ Len(t) <= 2
  BY <1>3, <1>5 DEF HeadFits
<1>7. PICK r : RankedBy(r, t, a, b, fs, 0)
  BY <1>4, <1>5 DEF Ranked
<1>8. /\ r \in [1 .. Len(t) + 1 -> Nat] /\ r[1] = a /\ r[Len(t) + 1] = b
      /\ \A k \in 1 .. Len(t) : r[k + 1] = r[k]
  <2>1. /\ r \in [1 .. Len(t) + 1 -> Nat] /\ r[1] = a /\ r[Len(t) + 1] = b
        /\ \A k \in 1 .. Len(t) : Follows(t[k], r[k], r[k + 1], fs, 0)
    BY <1>7 DEF RankedBy
  <2>2. ASSUME NEW k \in 1 .. Len(t)
        PROVE  r[k + 1] = r[k]
    <3>1. t[k] = 0
      BY <1>6 DEF Video!Header
    <3>2. Follows(t[k], r[k], r[k + 1], fs, 0)
      BY <2>1
    <3> QED BY <3>1, <3>2 DEF Follows
  <2> QED BY <2>1, <2>2
<1>9. a = b
  <2>1. PICK n \in Nat : n = Len(t)
    BY <1>6
  <2>2. n \in {0, 1, 2}
    BY <1>6, <2>1
  <2>3. /\ r[n + 1] = b /\ \A k \in 1 .. n : r[k + 1] = r[k]
    BY <1>8, <2>1
  <2> HIDE <1>8
  <2>4. n = 0 => a = b
    BY <1>8, <2>3
  <2>5. n = 1 => a = b
    BY <1>8, <2>3
  <2>6. n = 2 => a = b
    <3>1. n = 2 => r[1 + 1] = r[1] /\ r[2 + 1] = r[2] /\ r[3] = b
      BY <2>3
    <3> QED BY <1>8, <3>1
  <2> QED BY <2>2, <2>4, <2>5, <2>6
<1> QED BY <1>5, <1>9

-----------------------------------------------------------------------------
(* The invariant holds behind a step that keeps the video and each of its parts. *)
LEMMA WatchKept ==
  ASSUME UNCHANGED Video!film, NEW h, NEW low, NEW fs, NEW s, NEW w, Known(h, low, fs, s, w),
         pages[1].theora, NEW p \in Nat, p <= Len(pages),
         Synced(p)', Gathered(h, fs, s, w, p)', Drawn(fs)', Phased(h, s, w, p)'
  PROVE  Watched(h, low, fs, s, w, p)'
<1>1. Known(h, low, fs, s, w)'
  BY FilmKept
<1>2. pages' = pages
  BY DEF Video!film
<1>3. p <= Len(pages')
  BY <1>2
<1>4. pages'[1].theora
  BY <1>2
<1> QED BY <1>1, <1>3, <1>4 DEF Watched

(* The queue stays. *)
LEMMA GatheredKept ==
  ASSUME UNCHANGED Video!film, UNCHANGED <<to, lastpage, theora_p, video>>,
         NEW h, NEW fs, NEW s, NEW w, NEW q, Gathered(h, fs, s, w, q)
  PROVE  Gathered(h, fs, s, w, q)'
<1>1. PICK e : e = Len(video)
  OBVIOUS
<1>2. theora_p > 0 => Queued(to', lastpage', q, e, h, fs, s, w)
  BY <1>1 DEF Gathered
<1>3. theora_p > 0 => Queued(to, lastpage, q, Len(video), h, fs, s, w)'
  BY <1>1, <1>2, QueueKept
<1> QED BY <1>3 DEF Gathered

(* No page at all is in the file when nothing is left of it before the first
   page. *)
LEMMA NoPageInFile ==
  ASSUME NEW h, NEW low, NEW fs, NEW s, NEW w, Known(h, low, fs, s, w), Awaits(0, w), position = filesize
  PROVE  Video!InFile = 0
<1>1. Video!InFile \in Nat /\ Edge(Video!InFile) <= filesize
  BY InFileIs DEF Known
<1>2. CASE w <= 0
  <2>1. w = 0 /\ ~Torn(1)
    BY <1>2, KnownTypes
  <2>2. w < Video!InFile => Torn(w + 1)
    BY DEF Known, Intact
  <2> QED BY <1>1, <2>1, <2>2
<1>3. CASE ~(w <= 0)
  <2>1. filesize < Edge(1) /\ filesize \in Nat
    BY <1>3 DEF Awaits, Known, Measured
  <2>2. PICK n \in Nat : n = Video!InFile
    BY <1>1
  <2>3. Edge(n) <= filesize /\ Edge(n) \in Nat /\ Edge(1) \in Nat
    BY <1>1, <2>2, EdgeFacts DEF Known
  <2>4. 1 <= n => Edge(1) <= Edge(n)
    BY <2>2, EdgeFacts DEF Known
  <2>5. n = 0
    BY <2>1, <2>2, <2>3, <2>4
  <2> QED BY <2>2, <2>5
<1> QED BY <1>2, <1>3

(* Reading before the headers. *)
LEMMA BosReadWatched ==
  ASSUME NEW h, NEW low, NEW fs, NEW s, NEW w, NEW q, Watched(h, low, fs, s, w, q), Video!BosRead
  PROVE  \E p : Watched(h, low, fs, s, w, p)'
<1>1. /\ Known(h, low, fs, s, w) /\ pages[1].theora /\ q \in Nat /\ q <= Len(pages)
      /\ Synced(q) /\ Gathered(h, fs, s, w, q) /\ Drawn(fs) /\ Phased(h, s, w, q)
  BY DEF Watched
<1>2. /\ vphase = "bos" /\ UNCHANGED Video!film
      /\ UNCHANGED <<unsynced, theora_p, videobuf_ready, frames, video>>
  BY DEF Video!BosRead
<1>3. PICK ret \in 0 .. Chunk :
        Video!buffer_data(sync, ret) /\ vphase' = IF ret = 0 THEN "headers" ELSE "bospages"
  BY DEF Video!BosRead
<1>4. PICK from, z : SyncLies(sync, from, z) /\ AtPage(from, q)
  BY <1>1 DEF Synced
<1>5. /\ Synced(q)' /\ UNCHANGED <<to, lastpage>>
      /\ ret = 0 => position = filesize
  BY <1>1, <1>2, <1>3, <1>4, BufferedLies DEF Known
<1>6. Gathered(h, fs, s, w, q)'
  BY <1>1, <1>2, <1>5, GatheredKept
<1>7. Drawn(fs)'
  BY <1>1, <1>2, DrawnKept
<1>8. ret = 0 /\ theora_p = 0 => Video!InFile = 0
  <2>1. theora_p = 0 => q = 0
    BY <1>1 DEF Gathered
  <2>2. theora_p = 0 => Awaits(0, w)
    BY <1>1, <1>2, <2>1 DEF Phased
  <2> QED BY <1>1, <1>5, <2>2, NoPageInFile
<1>9. Phased(h, s, w, q)'
  <2>1. Video!InFile' = Video!InFile
    BY <1>2 DEF Video!InFile, Video!film
  <2>2. vphase' = "headers" => ret = 0
    BY <1>3
  <2>3. vphase' \in {"headers", "bospages"}
    BY <1>3
  <2>4. UNCHANGED theora_p
    BY <1>2
  <2> HIDE <1>3
  <2> QED BY <1>8, <2>1, <2>2, <2>3, <2>4 DEF Phased, Looping
<1> QED BY <1>1, <1>2, <1>5, <1>6, <1>7, <1>9, WatchKept

(* A page that begins a stream is one with the first headers. *)
LEMMA BosIsHead ==
  ASSUME NEW h, NEW low, NEW fs, NEW s, NEW w, Known(h, low, fs, s, w),
         NEW p \in Nat, p > 0, p <= Len(pages), pages[p].bos
  PROVE  p < h /\ (pages[p].theora => p = 1)
<1>1. h \in Nat /\ h <= Len(pages) /\ Len(pages) \in Nat
  BY KnownTypes
<1>2. p # h
  BY DEF Known, Shape, Video!Setup, Video!Page
<1>3. ~(p > h)
  <2> SUFFICES ASSUME p > h
               PROVE  FALSE
    OBVIOUS
  <2>1. p \in h + 1 .. Len(pages)
    BY <1>1
  <2> QED BY <2>1 DEF Known, Shape, BodyFits
<1>4. p < h
  BY <1>1, <1>2, <1>3
<1>5. p \in 1 .. h - 1
  BY <1>1, <1>4
<1> QED BY <1>4, <1>5 DEF Known, Shape, HeadFits

(* A page that begins a stream, the first that does not, or none. *)
LEMMA BosPageWatched ==
  ASSUME NEW h, NEW low, NEW fs, NEW s, NEW w, NEW q, Watched(h, low, fs, s, w, q), Video!BosPage
  PROVE  \E p : Watched(h, low, fs, s, w, p)'
<1>1. /\ Known(h, low, fs, s, w) /\ pages[1].theora /\ q \in Nat /\ q <= Len(pages)
      /\ Synced(q) /\ Gathered(h, fs, s, w, q) /\ Drawn(fs)
  BY DEF Watched
<1>2. /\ vphase = "bospages" /\ UNCHANGED Video!film /\ UNCHANGED position
      /\ UNCHANGED <<videobuf_ready, frames, video>> /\ Video!TakePage
  BY DEF Video!BosPage, Video!NextPage, Video!NoPage
<1>3. PICK p : Passes(q, p, w) /\ Synced(p)' /\ p \in Nat /\ p <= Len(pages)
  BY <1>1, <1>2, PageTaken DEF Known, Measured
<1>4. Drawn(fs)'
  BY <1>1, <1>2, DrawnKept
<1>5. Video!PageOut.result = "page" =>
        Video!PageOut.page = p /\ q < p /\ ~Torn(p) /\ (theora_p = 0 => p = 1 /\ Video!InFile # 0)
  BY <1>1, <1>3, FirstPage DEF Passes
<1>6. theora_p \in Nat
  BY <1>1 DEF Gathered
<1>7. CASE Video!PageOut.result = "page" /\ pages[p].bos /\ pages[p].theora
  <2>1. /\ theora_p' = 1 /\ lastpage' = p /\ to' = to /\ vphase' = "bospages"
    BY <1>2, <1>5, <1>7 DEF Video!BosPage, Video!NextPage, Video!NoPage
  <2>2. p = 1 /\ q = 0
    BY <1>1, <1>3, <1>5, <1>7, BosIsHead
  <2>3. theora_p = 0
    BY <1>1, <1>6, <2>2 DEF Gathered, Queued, LastIs
  <2>4. to = <<>> /\ video = <<>>
    BY <1>1, <2>3 DEF Gathered
  <2>5. s[2] = s[1] /\ s[1] = 0
    <3>1. 1 < h /\ h \in Nat
      BY <1>1, KnownTypes
    <3>2. s[1 + 1] = s[1]
      BY <1>1, <3>1, HeadNoFrames
    <3> QED BY <1>1, <3>2 DEF Known, Film
  <2>6. Ranked(<<>>, 0, s[2], fs, s[w + 1])
    BY <2>5, RankedNone
  <2>7. LastIs(1, 1)
    BY DEF LastIs
  <2>8. Queued(<<>>, 1, 1, 0, h, fs, s, w)
    <3>1. HeadersFirst(<<>>)
      BY DEF HeadersFirst
    <3>2. s[1 + 1] = s[2]
      OBVIOUS
    <3> QED BY <2>6, <2>7, <3>1, <3>2 DEF Queued
  <2>9. Queued(to, lastpage, 1, Len(video), h, fs, s, w)'
    <3>1. Queued(to', lastpage', 1, 0, h, fs, s, w)
      BY <2>1, <2>2, <2>4, <2>8
    <3>2. 0 = Len(video')
      BY <1>2, <2>4
    <3>3. PICK e : e = 0
      OBVIOUS
    <3> QED BY <1>2, <3>1, <3>2, <3>3, QueueKept
  <2>10. Gathered(h, fs, s, w, p)'
    BY <2>1, <2>2, <2>9 DEF Gathered
  <2>11. Phased(h, s, w, p)'
    BY <2>1 DEF Phased, Looping
  <2> QED BY <1>1, <1>2, <1>3, <1>4, <2>10, <2>11, WatchKept
<1>8. CASE Video!PageOut.result = "page" /\ ~(pages[p].bos /\ pages[p].theora)
  <2>1. theora_p > 0
    BY <1>1, <1>5, <1>6, <1>8, KnownTypes
  <2>2. Video!queue_page(Video!PageOut.page) /\ UNCHANGED theora_p
        /\ vphase' \in {"bospages", "headers"}
    BY <1>2, <1>5, <1>8 DEF Video!BosPage, Video!NextPage, Video!NoPage, Video!queue_page
  <2>3. Gathered(h, fs, s, w, p)'
    BY <1>1, <1>2, <1>3, <1>8, <2>1, <2>2, NextPageGathers
  <2>4. Phased(h, s, w, p)'
    BY <2>1, <2>2, <1>6 DEF Phased, Looping
  <2> QED BY <1>1, <1>2, <1>3, <1>4, <2>3, <2>4, WatchKept
<1>9. CASE Video!PageOut.result # "page"
  <2>1. UNCHANGED <<to, lastpage, theora_p>> /\ vphase' = "bos"
    BY <1>9 DEF Video!BosPage, Video!NextPage, Video!NoPage
  <2>2. Gathered(h, fs, s, w, p)' /\ Awaits(p, w)
    BY <1>1, <1>2, <1>3, <1>9, <2>1, NoPageGathers
  <2>3. Awaits(p, w)'
    BY <1>2, <2>2, AwaitsKept
  <2>4. Phased(h, s, w, p)'
    BY <2>1, <2>3 DEF Phased, Looping
  <2> QED BY <1>1, <1>2, <1>3, <1>4, <2>2, <2>4, WatchKept
<1> QED BY <1>7, <1>8, <1>9

-----------------------------------------------------------------------------
(* The next packet is taken from the queue. *)
LEMMA TailQueued ==
  ASSUME NEW t, NEW l, NEW q, NEW e, NEW h, NEW fs, NEW s, NEW w, Queued(t, l, q, e, h, fs, s, w),
         t # <<>>, q \in Nat, h \in Nat, q >= h
  PROVE  /\ Head(t) \in Int
         /\ Head(t) > 0 \/ Head(t) \in {Video!Header, Video!Refused, Video!Hole}
         /\ Head(t) \in {Video!Header, Video!Refused, Video!Hole} =>
              Queued(Tail(t), l, q, e, h, fs, s, w)
         /\ Head(t) > 0 => fs[e + 1] = Head(t) /\ Queued(Tail(t), l, q, e + 1, h, fs, s, w)
         /\ Head(t) = Video!Hole => s[w + 1] <= e
<1>1. Ranked(t, e, s[q + 1], fs, s[w + 1]) /\ LastIs(l, q) /\ HeadersFirst(t)
  BY DEF Queued
<1>2. /\ Head(t) \in Int
      /\ \/ Head(t) > 0 /\ fs[e + 1] = Head(t) /\ Ranked(Tail(t), e + 1, s[q + 1], fs, s[w + 1])
         \/ /\ Head(t) \in {Video!Header, Video!Refused, Video!Hole}
            /\ Head(t) = Video!Hole => s[w + 1] <= e
            /\ Ranked(Tail(t), e, s[q + 1], fs, s[w + 1])
  BY <1>1, RankedTail
<1>3. t \in Seq(Int)
  BY <1>1 DEF Ranked
<1>4. HeadersFirst(Tail(t))
  BY <1>1, <1>3, HeadersTail
<1>5. ~(q < h)
  OBVIOUS
<1>6. Head(t) > 0 => Head(t) \notin {Video!Header, Video!Refused, Video!Hole}
  BY <1>2 DEF Video!Header, Video!Refused, Video!Hole
<1>7. Ranked(Tail(t), e, s[q + 1], fs, s[w + 1]) => Queued(Tail(t), l, q, e, h, fs, s, w)
  BY <1>1, <1>4, <1>5 DEF Queued
<1>8. Ranked(Tail(t), e + 1, s[q + 1], fs, s[w + 1]) => Queued(Tail(t), l, q, e + 1, h, fs, s, w)
  BY <1>1, <1>4, <1>5 DEF Queued
<1> QED BY <1>2, <1>6, <1>7, <1>8

(* A packet of the headers, or the first behind them. *)
LEMMA HeaderPacketWatched ==
  ASSUME NEW h, NEW low, NEW fs, NEW s, NEW w, NEW q, Watched(h, low, fs, s, w, q),
         Video!HeaderPacket
  PROVE  \E p : Watched(h, low, fs, s, w, p)'
<1>1. /\ Known(h, low, fs, s, w) /\ pages[1].theora /\ q \in Nat /\ q <= Len(pages)
      /\ Synced(q) /\ Gathered(h, fs, s, w, q) /\ Drawn(fs)
  BY DEF Watched
<1>2. /\ vphase = "headers" /\ theora_p > 0 /\ to # <<>>
      /\ UNCHANGED Video!film /\ UNCHANGED <<position, sync, lastpage, videobuf_ready, frames, video>>
  BY DEF Video!HeaderPacket
<1>3. Synced(q)' /\ Drawn(fs)'
  BY <1>1, <1>2, SyncedKept, DrawnKept
<1>4. PICK e : e = Len(video)
  OBVIOUS
<1>5. Queued(to, lastpage, q, e, h, fs, s, w)
  BY <1>1, <1>2, <1>4 DEF Gathered
<1>6. h \in Nat /\ q >= h
  <2>1. h \in Nat /\ ~(q < h)
    BY <1>1, <1>2, <1>5, KnownTypes DEF Queued
  <2> QED BY <1>1, <2>1
<1>7. theora_p \in Nat
  BY <1>1 DEF Gathered
<1>8. to \in Seq(Int) /\ HeadersFirst(to)
  BY <1>5 DEF Queued, Ranked
<1>9. CASE Head(to) \in {Video!Header, Video!Hole}
  <2>1. to' = Tail(to) /\ theora_p' \in {theora_p, theora_p + 1} /\ vphase' = "headers"
    BY <1>2, <1>9 DEF Video!HeaderPacket
  <2>2. Queued(Tail(to), lastpage, q, e, h, fs, s, w)
    BY <1>1, <1>2, <1>5, <1>6, <1>9, TailQueued
  <2>3. Queued(to', lastpage', q, e, h, fs, s, w)
    BY <1>2, <2>1, <2>2
  <2>4. Queued(to, lastpage, q, Len(video), h, fs, s, w)'
    BY <1>2, <1>4, <2>3, QueueKept
  <2>5. theora_p' \in Nat /\ theora_p' > 0
    BY <1>2, <1>7, <2>1
  <2>6. Gathered(h, fs, s, w, q)'
    BY <2>4, <2>5 DEF Gathered
  <2>7. Phased(h, s, w, q)'
    BY <2>1, <2>5 DEF Phased, Looping
  <2> QED BY <1>1, <1>2, <1>3, <2>6, <2>7, WatchKept
<1>10. CASE Head(to) \notin {Video!Header, Video!Hole}
  <2>1. vphase' \in {"init", "refused"} /\ UNCHANGED <<to, theora_p>>
    BY <1>2, <1>10 DEF Video!HeaderPacket
  <2>2. NoHeader(to)
    BY <1>2, <1>8, <1>10, HeadersTail
  <2>3. NoHeader(to)'
    BY <2>1, <2>2 DEF NoHeader
  <2>4. Gathered(h, fs, s, w, q)'
    BY <1>1, <1>2, <2>1, GatheredKept
  <2>5. Phased(h, s, w, q)'
    BY <1>2, <1>6, <1>7, <2>1, <2>3 DEF Phased, Looping
  <2> QED BY <1>1, <1>2, <1>3, <2>4, <2>5, WatchKept
<1> QED BY <1>9, <1>10

(* A page while headers are missing. *)
LEMMA HeaderPageWatched ==
  ASSUME NEW h, NEW low, NEW fs, NEW s, NEW w, NEW q, Watched(h, low, fs, s, w, q),
         Video!HeaderPage
  PROVE  \E p : Watched(h, low, fs, s, w, p)'
<1>1. /\ Known(h, low, fs, s, w) /\ pages[1].theora /\ q \in Nat /\ q <= Len(pages)
      /\ Synced(q) /\ Gathered(h, fs, s, w, q) /\ Drawn(fs)
  BY DEF Watched
<1>2. /\ vphase = "headers" /\ theora_p > 0 /\ UNCHANGED Video!film
      /\ UNCHANGED <<position, theora_p, vphase, videobuf_ready, frames, video>>
      /\ Video!PageOut.result = "page" /\ Video!TakePage /\ Video!queue_page(Video!PageOut.page)
  BY DEF Video!HeaderPage, Video!NextPage
<1>3. PICK p : Passes(q, p, w) /\ Synced(p)' /\ p \in Nat /\ p <= Len(pages)
  BY <1>1, <1>2, PageTaken DEF Known, Measured
<1>4. Drawn(fs)'
  BY <1>1, <1>2, DrawnKept
<1>5. Gathered(h, fs, s, w, p)'
  BY <1>1, <1>2, <1>3, NextPageGathers
<1>6. theora_p \in Nat
  BY <1>1 DEF Gathered
<1>7. Phased(h, s, w, p)'
  BY <1>2, <1>6 DEF Phased, Looping
<1> QED BY <1>1, <1>2, <1>3, <1>4, <1>5, <1>7, WatchKept

(* Reading while headers are missing. *)
LEMMA HeaderReadWatched ==
  ASSUME NEW h, NEW low, NEW fs, NEW s, NEW w, NEW q, Watched(h, low, fs, s, w, q),
         Video!HeaderRead
  PROVE  \E p : Watched(h, low, fs, s, w, p)'
<1>1. /\ Known(h, low, fs, s, w) /\ pages[1].theora /\ q \in Nat /\ q <= Len(pages)
      /\ Synced(q) /\ Gathered(h, fs, s, w, q) /\ Drawn(fs)
  BY DEF Watched
<1>2. /\ vphase = "headers" /\ theora_p > 0 /\ Video!PageOut.result # "page" /\ UNCHANGED Video!film
      /\ UNCHANGED <<theora_p, videobuf_ready, frames, video>>
  BY DEF Video!HeaderRead
<1>3. PICK ret \in 0 .. Chunk :
        Video!buffer_data(Video!PageOut.rest, ret) /\ vphase' = IF ret = 0 THEN "exited" ELSE "headers"
  BY DEF Video!HeaderRead
<1>4. PICK from, z : SyncLies(sync, from, z) /\ AtPage(from, q)
  BY <1>1 DEF Synced
<1>5. PICK from2, z2, p : SyncLies(Video!PageOut.rest, from2, z2) /\ AtPage(from2, p) /\ Passes(q, p, w)
  BY <1>1, <1>4, PageOutIs DEF Known
<1>6. Synced(p)' /\ UNCHANGED <<to, lastpage>>
  <2>1. PICK y : y = Video!PageOut.rest
    OBVIOUS
  <2>2. SyncLies(y, from2, z2) /\ Video!buffer_data(y, ret)
    BY <1>3, <1>5, <2>1
  <2> QED BY <1>1, <1>2, <1>5, <2>2, BufferedLies DEF Known
<1>7. p \in Nat /\ p <= Len(pages)
  <2>1. p \in 0 .. Len(pages) /\ Len(pages) \in Nat
    BY <1>1, <1>5, KnownTypes DEF AtPage
  <2> QED BY <2>1
<1>8. Gathered(h, fs, s, w, p)'
  BY <1>1, <1>2, <1>5, <1>6, <1>7, NoPageGathers
<1>9. Drawn(fs)'
  BY <1>1, <1>2, DrawnKept
<1>10. Phased(h, s, w, p)'
  <2>1. vphase' \in {"headers", "exited"}
    BY <1>3
  <2>2. theora_p' > 0 /\ theora_p' \in Nat
    BY <1>1, <1>2 DEF Gathered
  <2> QED BY <2>1, <2>2 DEF Phased, Looping
<1> QED BY <1>1, <1>2, <1>6, <1>7, <1>8, <1>9, <1>10, WatchKept

(* The decoder starts when no header is left in the queue, or when the file has no page. *)
LEMMA InitDecoderWatched ==
  ASSUME NEW h, NEW low, NEW fs, NEW s, NEW w, NEW q, Watched(h, low, fs, s, w, q),
         Video!InitDecoder
  PROVE  \E p : Watched(h, low, fs, s, w, p)'
<1>1. /\ Known(h, low, fs, s, w) /\ pages[1].theora /\ q \in Nat /\ q <= Len(pages)
      /\ Synced(q) /\ Gathered(h, fs, s, w, q) /\ Drawn(fs) /\ Phased(h, s, w, q)
  BY DEF Watched
<1>2. /\ UNCHANGED Video!film
      /\ UNCHANGED <<position, sync, to, lastpage, theora_p, videobuf_ready, frames, video>>
      /\ \/ vphase = "init" /\ vphase' = "rest"
         \/ vphase = "headers" /\ theora_p = 0 /\ vphase' \in {"rest", "fault"}
  BY DEF Video!InitDecoder, Video!ogg
<1>3. Synced(q)' /\ Drawn(fs)'
  BY <1>1, <1>2, SyncedKept, DrawnKept
<1>4. Gathered(h, fs, s, w, q)'
  BY <1>1, <1>2, GatheredKept
<1>5. Phased(h, s, w, q)'
  <2>1. Video!InFile' = Video!InFile
    BY <1>2 DEF Video!InFile, Video!film
  <2>2. NoHeader(to) => NoHeader(to)'
    BY <1>2 DEF NoHeader
  <2>3. theora_p = 0 => Video!InFile = 0
    BY <1>1, <1>2 DEF Phased
  <2>4. theora_p > 0 => q >= h /\ NoHeader(to)
    BY <1>1, <1>2 DEF Phased, Looping
  <2>5. vphase' \in {"rest", "fault"}
    BY <1>2
  <2>6. UNCHANGED theora_p
    BY <1>2
  <2> HIDE <1>1, <1>2
  <2> QED BY <2>1, <2>2, <2>3, <2>4, <2>5, <2>6 DEF Phased, Looping
<1> QED BY <1>1, <1>2, <1>3, <1>4, <1>5, WatchKept

-----------------------------------------------------------------------------
(* QueueRest and QueuePages: the pages behind the headers are queued. *)
LEMMA LoopPageWatched ==
  ASSUME NEW h, NEW low, NEW fs, NEW s, NEW w, NEW q, Watched(h, low, fs, s, w, q),
         vphase \in {"rest", "pages"},
         \/ Video!NextPage /\ UNCHANGED vphase
         \/ Video!NoPage /\ vphase' = "main",
         UNCHANGED Video!film, UNCHANGED <<position, theora_p, videobuf_ready, frames, video>>
  PROVE  \E p : Watched(h, low, fs, s, w, p)'
<1>1. /\ Known(h, low, fs, s, w) /\ pages[1].theora /\ q \in Nat /\ q <= Len(pages)
      /\ Synced(q) /\ Gathered(h, fs, s, w, q) /\ Drawn(fs) /\ Phased(h, s, w, q)
  BY DEF Watched
<1>2. Video!TakePage
  BY DEF Video!NextPage, Video!NoPage
<1>3. PICK p : Passes(q, p, w) /\ Synced(p)' /\ p \in Nat /\ p <= Len(pages)
  BY <1>1, <1>2, PageTaken DEF Known, Measured
<1>4. Drawn(fs)'
  BY <1>1, DrawnKept
<1>5. /\ theora_p \in Nat
      /\ theora_p = 0 => Video!InFile = 0
      /\ theora_p > 0 => q >= h /\ NoHeader(to)
  BY <1>1 DEF Phased, Looping, Gathered
<1>6. Video!InFile' = Video!InFile
  BY DEF Video!InFile, Video!film
<1>7. CASE Video!NextPage /\ UNCHANGED vphase
  <2>1. Video!PageOut.result = "page" /\ Video!queue_page(Video!PageOut.page)
    BY <1>7 DEF Video!NextPage
  <2>2. theora_p > 0
    BY <1>1, <1>3, <1>5, <2>1, FirstPage
  <2>3. Gathered(h, fs, s, w, p)' /\ p >= h /\ NoHeader(to)'
    BY <1>1, <1>3, <1>5, <2>1, <2>2, NextPageGathers
  <2>4. Phased(h, s, w, p)'
    <3>1. vphase' \in {"rest", "pages"} /\ theora_p' > 0 /\ theora_p' \in Nat
      BY <1>5, <1>7, <2>2
    <3> QED BY <2>3, <3>1 DEF Phased, Looping
  <2> QED BY <1>1, <1>3, <1>4, <2>3, <2>4, WatchKept
<1>8. CASE Video!NoPage /\ vphase' = "main"
  <2>1. Video!PageOut.result # "page" /\ UNCHANGED <<to, lastpage>>
    BY <1>8 DEF Video!NoPage
  <2>2. /\ Gathered(h, fs, s, w, p)' /\ Awaits(p, w)
        /\ q >= h /\ NoHeader(to) => p >= h /\ NoHeader(to)'
    BY <1>1, <1>3, <2>1, NoPageGathers
  <2>3. Awaits(p, w)'
    BY <2>2, AwaitsKept
  <2>4. Phased(h, s, w, p)'
    <3>1. UNCHANGED theora_p
      OBVIOUS
    <3> QED BY <1>5, <1>6, <1>8, <2>2, <2>3, <3>1 DEF Phased, Looping
  <2> QED BY <1>1, <1>3, <1>4, <2>2, <2>4, WatchKept
<1> QED BY <1>7, <1>8

(* A packet is decoded: the next frame, or none. *)
LEMMA DecodePacketWatched ==
  ASSUME NEW h, NEW low, NEW fs, NEW s, NEW w, NEW q, Watched(h, low, fs, s, w, q),
         Video!DecodePacket
  PROVE  \E p : Watched(h, low, fs, s, w, p)'
<1>1. /\ Known(h, low, fs, s, w) /\ pages[1].theora /\ q \in Nat /\ q <= Len(pages)
      /\ Synced(q) /\ Gathered(h, fs, s, w, q) /\ Drawn(fs) /\ Phased(h, s, w, q)
  BY DEF Watched
<1>2. /\ vphase = "main" /\ theora_p > 0 /\ ~videobuf_ready /\ to # <<>> /\ Head(to) # Video!Hole
      /\ to' = Tail(to) /\ UNCHANGED Video!film
      /\ UNCHANGED <<position, sync, lastpage, theora_p, vphase>>
  BY DEF Video!DecodePacket
<1>3. Synced(q)' /\ Awaits(q, w)'
  <2>1. Awaits(q, w)
    BY <1>1, <1>2 DEF Phased
  <2> QED BY <1>1, <1>2, <2>1, SyncedKept, AwaitsKept
<1>4. /\ theora_p \in Nat /\ q >= h /\ NoHeader(to)
  BY <1>1, <1>2 DEF Phased, Looping, Gathered
<1>5. video \in Seq(Nat \X Int) /\ frames = Len(video)
  BY <1>1 DEF Drawn
<1>6. PICK e \in Nat : e = Len(video)
  BY <1>5
<1>7. Queued(to, lastpage, q, e, h, fs, s, w)
  BY <1>1, <1>2, <1>6 DEF Gathered
<1>8. to \in Seq(Int) /\ Head(to) # Video!Header /\ NoHeader(Tail(to))
  <2>1. to \in Seq(Int)
    BY <1>7 DEF Queued, Ranked
  <2> QED BY <1>2, <1>4, <2>1, HeadersTail
<1>9. PICK c : c = Head(to)
  OBVIOUS
<1>10. /\ c \in Int /\ (c > 0 \/ c = Video!Refused)
       /\ c = Video!Refused => Queued(to', lastpage', q, e, h, fs, s, w)
       /\ c > 0 => fs[e + 1] = c /\ Queued(to', lastpage', q, e + 1, h, fs, s, w)
       /\ c > 0 => c # Video!Refused
  <2>1. h \in Nat
    BY <1>1, KnownTypes
  <2>2. /\ c \in Int
        /\ c > 0 \/ c \in {Video!Header, Video!Refused, Video!Hole}
        /\ c \in {Video!Header, Video!Refused, Video!Hole} =>
             Queued(Tail(to), lastpage, q, e, h, fs, s, w)
        /\ c > 0 => fs[e + 1] = c /\ Queued(Tail(to), lastpage, q, e + 1, h, fs, s, w)
    BY <1>1, <1>2, <1>4, <1>7, <1>9, <2>1, TailQueued
  <2>3. c # Video!Header /\ c # Video!Hole
    BY <1>2, <1>8, <1>9
  <2>4. c > 0 => c # Video!Refused
    BY <2>2 DEF Video!Refused
  <2> QED BY <1>2, <2>2, <2>3, <2>4
<1>11. NoHeader(to)'
  BY <1>2, <1>8 DEF NoHeader
<1>12. Phased(h, s, w, q)'
  BY <1>2, <1>3, <1>4, <1>11 DEF Phased, Looping
<1>13. CASE c = Video!Refused
  <2>1. UNCHANGED <<videobuf_ready, frames, video>>
    BY <1>9, <1>13 DEF Video!DecodePacket
  <2>2. Drawn(fs)'
    BY <1>1, <1>2, <2>1, DrawnKept
  <2>3. Queued(to, lastpage, q, Len(video), h, fs, s, w)'
    BY <1>2, <1>6, <1>10, <1>13, <2>1, QueueKept
  <2>4. Gathered(h, fs, s, w, q)'
    BY <1>2, <1>4, <2>3 DEF Gathered
  <2> QED BY <1>1, <1>2, <1>3, <1>12, <2>2, <2>4, WatchKept
<1>14. CASE c > 0
  <2>1. videobuf_ready' = TRUE /\ frames' = frames + 1 /\ video' = Append(video, <<0, c>>)
    BY <1>9, <1>10, <1>14 DEF Video!DecodePacket
  <2>2. /\ video' \in Seq(Nat \X Int) /\ Len(video') = e + 1
        /\ \A k \in 1 .. e : video'[k] = video[k]
        /\ video'[e + 1] = <<0, c>>
    <3>1. <<0, c>> \in Nat \X Int
      BY <1>10
    <3>2. Append(video, <<0, c>>) \in Seq(Nat \X Int)
      BY <1>5, <3>1
    <3> QED BY <1>5, <1>6, <2>1, <3>2
  <2>3. Drawn(fs)'
    <3>1. frames' = Len(video')
      BY <1>5, <1>6, <2>1, <2>2
    <3>2. ASSUME NEW k \in 1 .. e + 1
          PROVE  video'[k][2] = fs[k]
      <4>1. k \in 1 .. e => video'[k][2] = fs[k]
        BY <1>1, <1>6, <2>2 DEF Drawn
      <4>2. k = e + 1 => video'[k][2] = fs[k]
        <5>1. video'[e + 1][2] = c
          BY <2>2
        <5> QED BY <1>10, <1>14, <5>1
      <4>3. k \in 1 .. e \/ k = e + 1
        OBVIOUS
      <4> QED BY <4>1, <4>2, <4>3
    <3>3. ASSUME NEW k \in 1 .. e + 1
          PROVE  (videobuf_ready' /\ k = e + 1) \/ video'[k][1] = k
      <4>1. k \in 1 .. e => video[k][1] = k
        BY <1>1, <1>2, <1>6 DEF Drawn
      <4>2. k \in 1 .. e \/ k = e + 1
        OBVIOUS
      <4> QED BY <2>1, <2>2, <4>1, <4>2
    <3> QED BY <2>2, <3>1, <3>2, <3>3 DEF Drawn
  <2>4. Queued(to, lastpage, q, Len(video), h, fs, s, w)'
    <3>1. PICK e2 : e2 = e + 1
      OBVIOUS
    <3>2. Queued(to', lastpage', q, e2, h, fs, s, w) /\ e2 = Len(video')
      BY <1>10, <1>14, <2>2, <3>1
    <3> QED BY <1>2, <3>2, QueueKept
  <2>5. Gathered(h, fs, s, w, q)'
    BY <1>2, <1>4, <2>4 DEF Gathered
  <2> QED BY <1>1, <1>2, <1>3, <1>12, <2>3, <2>5, WatchKept
<1> QED BY <1>10, <1>13, <1>14

-----------------------------------------------------------------------------
(* A gap that is reported in place of a packet is passed. *)
LEMMA PassHoleGathers ==
  ASSUME NEW h, NEW low, NEW fs, NEW s, NEW w, Known(h, low, fs, s, w), NEW q \in Nat,
         Gathered(h, fs, s, w, q), theora_p > 0 => q >= h /\ NoHeader(to),
         Video!Stalled, Video!PassHole, UNCHANGED Video!film, UNCHANGED <<lastpage, theora_p, video>>
  PROVE  /\ Gathered(h, fs, s, w, q)'
         /\ theora_p > 0 => NoHeader(to)'
         /\ to # <<>> => s[w + 1] <= Len(video)
<1>1. CASE to = <<>>
  <2>1. to' = to
    BY <1>1 DEF Video!PassHole
  <2>2. Gathered(h, fs, s, w, q)'
    BY <2>1, GatheredKept
  <2>3. NoHeader(to) => NoHeader(to)'
    BY <2>1 DEF NoHeader
  <2> QED BY <1>1, <2>2, <2>3
<1>2. CASE to # <<>>
  <2>1. to' = Tail(to)
    BY <1>2 DEF Video!PassHole
  <2>2. theora_p \in Nat /\ theora_p > 0
    BY <1>2 DEF Gathered
  <2>3. PICK e : e = Len(video)
    OBVIOUS
  <2>4. Queued(to, lastpage, q, e, h, fs, s, w)
    BY <2>2, <2>3 DEF Gathered
  <2>5. to \in Seq(Int)
    BY <2>4 DEF Queued, Ranked
  <2>6. Head(to) = Video!Hole
    BY <1>2, <2>5 DEF Video!Stalled
  <2>7. Queued(Tail(to), lastpage, q, e, h, fs, s, w) /\ s[w + 1] <= e
    <3>1. h \in Nat
      BY KnownTypes
    <3> QED BY <1>2, <2>2, <2>4, <2>6, <3>1, TailQueued
  <2>8. Queued(to, lastpage, q, Len(video), h, fs, s, w)'
    <3>1. Queued(to', lastpage', q, e, h, fs, s, w)
      BY <2>1, <2>7
    <3> QED BY <2>3, <3>1, QueueKept
  <2>9. NoHeader(to)'
    <3>1. NoHeader(Tail(to))
      BY <1>2, <2>2, <2>5, HeadersTail
    <3> QED BY <2>1, <3>1 DEF NoHeader
  <2>10. Gathered(h, fs, s, w, q)'
    BY <2>2, <2>8 DEF Gathered
  <2> QED BY <2>3, <2>7, <2>9, <2>10
<1> QED BY <1>1, <1>2

(* At the end of the file, all frames before the first torn page have come. *)
LEMMA AllCame ==
  ASSUME NEW h, NEW low, NEW fs, NEW s, NEW w, Known(h, low, fs, s, w), NEW q \in Nat, q <= Len(pages),
         Awaits(q, w), position = filesize
  PROVE  s[w + 1] <= s[q + 1]
<1>1. /\ Video!InFile \in Nat /\ Edge(Video!InFile) <= filesize
      /\ w \in 0 .. Video!InFile /\ w <= Len(pages) /\ w \in Nat /\ Len(pages) \in Nat
  BY InFileIs, KnownTypes DEF Known, Intact
<1>2. w <= q
  <2> SUFFICES ASSUME ~(w <= q)
               PROVE  FALSE
    OBVIOUS
  <2>1. filesize < Edge(q + 1) /\ filesize \in Nat
    BY DEF Awaits, Known, Measured
  <2>2. PICK n \in Nat : n = Video!InFile
    BY <1>1
  <2>3. q + 1 <= n
    BY <1>1, <2>2
  <2>4. Edge(q + 1) <= Edge(n)
    <3>1. q + 1 \in Nat
      OBVIOUS
    <3> QED BY <2>2, <2>3, <3>1, EdgeFacts DEF Known
  <2>5. Edge(n) \in Nat /\ Edge(q + 1) \in Nat /\ Edge(n) <= filesize
    BY <1>1, <2>2, EdgeFacts DEF Known
  <2> QED BY <2>1, <2>4, <2>5
<1>3. w + 1 \in 1 .. Len(pages) + 1 /\ q + 1 \in 1 .. Len(pages) + 1 /\ w + 1 <= q + 1
  BY <1>1, <1>2
<1> QED BY <1>3 DEF Known, Film

(* The loop ends when all frames before the first torn page are drawn. *)
LEMMA EndOfVideoWatched ==
  ASSUME NEW h, NEW low, NEW fs, NEW s, NEW w, NEW q, Watched(h, low, fs, s, w, q),
         Video!EndOfVideo
  PROVE  \E p : Watched(h, low, fs, s, w, p)'
<1>1. /\ Known(h, low, fs, s, w) /\ pages[1].theora /\ q \in Nat /\ q <= Len(pages)
      /\ Synced(q) /\ Gathered(h, fs, s, w, q) /\ Drawn(fs) /\ Phased(h, s, w, q)
  BY DEF Watched
<1>2. /\ vphase = "main" /\ Video!Stalled /\ position = filesize /\ Video!PassHole /\ vphase' = "done"
      /\ UNCHANGED Video!film
      /\ UNCHANGED <<position, sync, lastpage, theora_p, videobuf_ready, frames, video>>
  BY DEF Video!EndOfVideo
<1>3. /\ theora_p \in Nat
      /\ theora_p = 0 => Video!InFile = 0
      /\ theora_p > 0 => q >= h /\ NoHeader(to)
      /\ Awaits(q, w)
  BY <1>1, <1>2 DEF Phased, Looping, Gathered
<1>4. Synced(q)' /\ Drawn(fs)'
  BY <1>1, <1>2, SyncedKept, DrawnKept
<1>5. Gathered(h, fs, s, w, q)' /\ (to # <<>> => s[w + 1] <= Len(video))
  BY <1>1, <1>2, <1>3, PassHoleGathers
<1>6. s[w + 1] <= Len(video)
  <2>1. CASE theora_p = 0
    <3>1. w = 0
      BY <1>1, <1>3, <2>1, KnownTypes DEF Known, Intact
    <3>2. s[1] = 0 /\ video = <<>>
      BY <1>1, <2>1 DEF Known, Film, Gathered
    <3>3. Len(video) = 0
      BY <3>2
    <3> QED BY <3>1, <3>2, <3>3
  <2>2. CASE theora_p > 0 /\ to = <<>>
    <3>1. PICK e : e = Len(video)
      OBVIOUS
    <3>2. Ranked(<<>>, e, s[q + 1], fs, s[w + 1])
      BY <1>1, <2>2, <3>1 DEF Gathered, Queued
    <3>3. s[q + 1] = e
      BY <3>2, RankedNone
    <3>4. s[w + 1] <= s[q + 1]
      BY <1>1, <1>2, <1>3, AllCame
    <3> QED BY <3>1, <3>3, <3>4
  <2> QED BY <1>3, <1>5, <2>1, <2>2
<1>7. Phased(h, s, w, q)'
  <2>1. Video!InFile' = Video!InFile
    BY <1>2 DEF Video!InFile, Video!film
  <2>2. PICK e : e = Len(video)
    OBVIOUS
  <2>3. s[w + 1] <= e /\ e = Len(video')
    BY <1>2, <1>6, <2>2
  <2> QED BY <1>2, <1>3, <2>1, <2>3 DEF Phased, Looping
<1> QED BY <1>1, <1>2, <1>4, <1>5, <1>7, WatchKept

(* The loop reads on. *)
LEMMA ReadMoreWatched ==
  ASSUME NEW h, NEW low, NEW fs, NEW s, NEW w, NEW q, Watched(h, low, fs, s, w, q),
         Video!ReadMore
  PROVE  \E p : Watched(h, low, fs, s, w, p)'
<1>1. /\ Known(h, low, fs, s, w) /\ pages[1].theora /\ q \in Nat /\ q <= Len(pages)
      /\ Synced(q) /\ Gathered(h, fs, s, w, q) /\ Drawn(fs) /\ Phased(h, s, w, q)
  BY DEF Watched
<1>2. /\ vphase = "main" /\ Video!Stalled /\ position # filesize /\ Video!PassHole /\ vphase' = "pages"
      /\ sync' = sync \o Video!Content(position, Video!NeedRead)
      /\ position' = position + Video!NeedRead
      /\ UNCHANGED Video!film /\ UNCHANGED <<lastpage, theora_p, videobuf_ready, frames, video>>
  BY DEF Video!ReadMore
<1>3. /\ theora_p \in Nat
      /\ theora_p = 0 => Video!InFile = 0
      /\ theora_p > 0 => q >= h /\ NoHeader(to)
  BY <1>1, <1>2 DEF Phased, Looping, Gathered
<1>4. Synced(q)'
  <2>1. PICK from, z : SyncLies(sync, from, z) /\ AtPage(from, q)
    BY <1>1 DEF Synced
  <2>2. position \in Nat /\ filesize \in Nat /\ position <= filesize
    BY <1>1, <2>1, SyncTypes DEF Known
  <2>3. position < filesize
    BY <1>2, <2>2
  <2>4. Video!NeedRead \in Nat /\ Video!NeedRead <= filesize - position
    BY <2>2, <2>3, MediaAssumption DEF Video!NeedRead, Video!Least, Video!VideoAssumption
  <2>5. PICK c \in Nat : c = Video!NeedRead
    BY <2>4
  <2>6. PICK y : y = sync
    OBVIOUS
  <2>7. /\ SyncLies(y, from, z) /\ c <= filesize - position
        /\ sync' = y \o Video!Content(position, c) /\ position' = position + c
    BY <1>2, <2>1, <2>4, <2>5, <2>6
  <2> QED BY <1>1, <1>2, <2>1, <2>3, <2>7, ReadLies DEF Known
<1>5. Drawn(fs)'
  BY <1>1, <1>2, DrawnKept
<1>6. Gathered(h, fs, s, w, q)' /\ (theora_p > 0 => NoHeader(to)')
  BY <1>1, <1>2, <1>3, PassHoleGathers
<1>7. Phased(h, s, w, q)'
  <2>1. Video!InFile' = Video!InFile
    BY <1>2 DEF Video!InFile, Video!film
  <2>2. UNCHANGED theora_p /\ vphase' = "pages"
    BY <1>2
  <2> HIDE <1>2
  <2> QED BY <1>3, <1>6, <2>1, <2>2 DEF Phased, Looping
<1> QED BY <1>1, <1>2, <1>4, <1>5, <1>6, <1>7, WatchKept

(* The picture gets its number, or the file for it is missing. *)
LEMMA WriteFrameWatched ==
  ASSUME NEW h, NEW low, NEW fs, NEW s, NEW w, NEW q, Watched(h, low, fs, s, w, q),
         Video!WriteFrame
  PROVE  \E p : Watched(h, low, fs, s, w, p)'
<1>1. /\ Known(h, low, fs, s, w) /\ pages[1].theora /\ q \in Nat /\ q <= Len(pages)
      /\ Synced(q) /\ Gathered(h, fs, s, w, q) /\ Drawn(fs) /\ Phased(h, s, w, q)
  BY DEF Watched
<1>2. /\ vphase = "main" /\ UNCHANGED Video!film
      /\ \/ video' = [video EXCEPT ![Len(video)][1] = frames] /\ vphase' = "main"
         \/ vphase' = "fault" /\ video' = video
      /\ UNCHANGED <<position, sync, to, lastpage, theora_p, frames>>
  BY DEF Video!WriteFrame, Video!ogg
<1>3. Synced(q)' /\ Awaits(q, w)'
  <2>1. Awaits(q, w)
    BY <1>1, <1>2 DEF Phased
  <2> QED BY <1>1, <1>2, <2>1, SyncedKept, AwaitsKept
<1>4. /\ theora_p \in Nat
      /\ theora_p = 0 => Video!InFile = 0 /\ q = 0 /\ to = <<>> /\ video = <<>>
      /\ theora_p > 0 => q >= h /\ NoHeader(to)
  BY <1>1, <1>2 DEF Phased, Looping, Gathered
<1>5. video \in Seq(Nat \X Int) /\ frames = Len(video)
  BY <1>1 DEF Drawn
<1>6. PICK e \in Nat : e = Len(video)
  BY <1>5
<1>7. /\ video' \in Seq(Nat \X Int) /\ Len(video') = e
      /\ \A k \in 1 .. e : video'[k][2] = video[k][2]
      /\ vphase' # "fault" => \A k \in 1 .. e : video'[k][1] = IF k = e THEN e ELSE video[k][1]
  <2>1. CASE video' = [video EXCEPT ![Len(video)][1] = frames] /\ vphase' = "main"
    <3>1. video' = [k \in 1 .. e |-> IF k = e THEN [video[k] EXCEPT ![1] = e] ELSE video[k]]
      <4>1. DOMAIN video = 1 .. e
        BY <1>5, <1>6
      <4>2. video' = [video EXCEPT ![e] = [video[e] EXCEPT ![1] = e]]
        <5>1. Len(video) = e /\ frames = e
          BY <1>5, <1>6
        <5> HIDE <1>5, <1>6
        <5> QED BY <2>1, <5>1, Zenon
      <4>3. PICK g : g = [video[e] EXCEPT ![1] = e]
        OBVIOUS
      <4>4. video' = [k \in 1 .. e |-> IF k = e THEN g ELSE video[k]]
        BY <4>1, <4>2, <4>3
      <4> QED BY <4>3, <4>4
    <3>2. ASSUME NEW k \in 1 .. e
          PROVE  /\ video'[k] \in Nat \X Int /\ video'[k][2] = video[k][2]
                 /\ video'[k][1] = IF k = e THEN e ELSE video[k][1]
      <4>1. PICK a \in Nat, b \in Int : video[k] = <<a, b>>
        <5>1. video[k] \in Nat \X Int
          BY <1>5, <1>6
        <5> QED BY <5>1
      <4>2. video'[k] = IF k = e THEN [<<a, b>> EXCEPT ![1] = e] ELSE <<a, b>>
        BY <3>1, <4>1
      <4>3. [<<a, b>> EXCEPT ![1] = e] = <<e, b>>
        OBVIOUS
      <4>4. video'[k] = IF k = e THEN <<e, b>> ELSE <<a, b>>
        BY <4>2, <4>3
      <4> QED BY <4>1, <4>4
    <3>3. video' \in Seq(Nat \X Int) /\ Len(video') = e
      <4>1. \A k \in 1 .. e : video'[k] \in Nat \X Int
        BY <3>2
      <4>2. video' = [k \in 1 .. e |-> video'[k]]
        BY <3>1
      <4>3. video' \in [1 .. e -> Nat \X Int]
        BY <4>1, <4>2
      <4> QED BY <4>3
    <3> QED BY <3>2, <3>3
  <2>2. CASE vphase' = "fault" /\ video' = video
    BY <1>5, <1>6, <2>2
  <2> QED BY <1>2, <2>1, <2>2
<1>8. Drawn(fs)'
  <2>1. \A k \in 1 .. e : video'[k][2] = fs[k]
    BY <1>1, <1>6, <1>7 DEF Drawn
  <2>2. ASSUME vphase' # "fault", NEW k \in 1 .. e
        PROVE  video'[k][1] = k
    <3>1. k # e => video[k][1] = k
      BY <1>1, <1>2, <1>6 DEF Drawn
    <3> QED BY <1>7, <2>2, <3>1
  <2>3. frames' = Len(video')
    BY <1>2, <1>5, <1>6, <1>7
  <2> QED BY <1>7, <2>1, <2>2, <2>3 DEF Drawn
<1>9. Gathered(h, fs, s, w, q)'
  <2>1. CASE theora_p > 0
    <3>1. Queued(to', lastpage', q, e, h, fs, s, w)
      BY <1>1, <1>2, <1>6, <2>1 DEF Gathered
    <3>2. Queued(to, lastpage, q, Len(video), h, fs, s, w)'
      BY <1>2, <1>7, <3>1, QueueKept
    <3> QED BY <1>2, <1>4, <2>1, <3>2 DEF Gathered
  <2>2. CASE theora_p = 0
    <3>1. e = 0
      BY <1>4, <1>6, <2>2
    <3>2. video' = <<>>
      BY <1>7, <3>1
    <3> QED BY <1>2, <1>4, <2>2, <3>2 DEF Gathered
  <2> QED BY <1>4, <2>1, <2>2
<1>10. Phased(h, s, w, q)'
  <2>1. Video!InFile' = Video!InFile
    BY <1>2 DEF Video!InFile, Video!film
  <2>2. NoHeader(to) => NoHeader(to)'
    BY <1>2 DEF NoHeader
  <2>3. UNCHANGED theora_p /\ vphase' \in {"main", "fault"}
    BY <1>2
  <2> HIDE <1>2
  <2> QED BY <1>3, <1>4, <2>1, <2>2, <2>3 DEF Phased, Looping
<1> QED BY <1>1, <1>2, <1>3, <1>8, <1>9, <1>10, WatchKept

-----------------------------------------------------------------------------
(* The invariant holds at the start. *)
LEMMA StartWatched ==
  ASSUME Video!Init, OGVFlag = "png", Video!Theora
  PROVE  \E h, low, fs, s, w, q : Watched(h, low, fs, s, w, q)
<1>1. DOMAIN pages = 1 .. Len(pages)
  BY ShapeIs
<1>2. PICK h, low : Shape(h, low)
  BY ShapeIs
<1>3. Measured
  BY <1>2, MeasuredIs
<1>4. PICK fs, s : Film(fs, s)
  BY <1>2, FilmIs
<1>5. PICK w : Intact(w)
  BY <1>3, IntactIs
<1>6. Known(h, low, fs, s, w)
  BY <1>2, <1>3, <1>4, <1>5 DEF Known
<1>7. /\ position = 0 /\ sync = <<>> /\ to = <<>> /\ lastpage = 0 /\ theora_p = 0 /\ vphase = "bos"
      /\ videobuf_ready = FALSE /\ frames = 0 /\ video = <<>>
  BY DEF Video!Init
<1>8. pages[1].theora
  <2>1. PICK p \in DOMAIN pages : pages[p].bos /\ pages[p].theora
    BY DEF Video!Theora
  <2>2. p \in Nat /\ p > 0 /\ p <= Len(pages)
    BY <1>1, <1>6, <2>1, KnownTypes
  <2>3. p = 1
    BY <1>6, <2>1, <2>2, BosIsHead
  <2> QED BY <2>1, <2>3
<1>9. 0 < Edge(1) /\ Edge(0) = 0 /\ 0 <= filesize /\ Len(pages) \in Nat
  <2>1. Edge(0 + 1) = Edge(0) + pagesize /\ Edge(0) = 0
    BY <1>3, EdgeFacts
  <2>2. pagesize \in Nat \ {0} /\ filesize \in Nat \ {0} /\ Len(pages) \in Nat \ {0}
    BY <1>3 DEF Measured
  <2> QED BY <2>1, <2>2
<1>10. Synced(0)
  <2>1. SyncLies(sync, 0, 0)
    BY <1>7, <1>9 DEF SyncLies, LiesAt
  <2>2. AtPage(0, 0)
    BY <1>9 DEF AtPage
  <2> QED BY <2>1, <2>2 DEF Synced
<1>11. Gathered(h, fs, s, w, 0)
  BY <1>7 DEF Gathered
<1>12. Drawn(fs)
  BY <1>7 DEF Drawn
<1>13. Phased(h, s, w, 0)
  <2>1. Awaits(0, w)
    BY <1>7, <1>9 DEF Awaits
  <2> QED BY <1>7, <2>1 DEF Phased, Looping
<1>14. 0 \in Nat /\ 0 <= Len(pages)
  BY <1>9
<1>15. Watched(h, low, fs, s, w, 0)
  BY <1>6, <1>8, <1>10, <1>11, <1>12, <1>13, <1>14 DEF Watched
<1> QED BY <1>15

(* The pages that are passed are in the file, but for a torn one. *)
LEMMA NoMoreFrames ==
  ASSUME NEW h, NEW low, NEW fs, NEW s, NEW w, Known(h, low, fs, s, w), NEW q \in Nat, q <= Len(pages),
         Synced(q)
  PROVE  s[q + 1] <= s[Video!InFile + 1]
<1>1. PICK n \in Nat : n = Video!InFile
  BY InFileIs DEF Known
<1>2. filesize < Edge(n + 1) /\ n <= Len(pages) /\ filesize \in Nat /\ Len(pages) \in Nat
  BY <1>1, InFileIs DEF Known, Measured
<1>3. \A i, j \in 1 .. Len(pages) + 1 : i <= j => s[i] <= s[j]
  BY DEF Known, Film
<1>4. CASE q <= n
  <2>1. q + 1 \in 1 .. Len(pages) + 1 /\ n + 1 \in 1 .. Len(pages) + 1 /\ q + 1 <= n + 1
    BY <1>2, <1>4
  <2> QED BY <1>1, <1>3, <2>1
<1>5. CASE ~(q <= n)
  <2>1. PICK from, z : SyncLies(sync, from, z) /\ AtPage(from, q)
    BY DEF Synced
  <2>2. from \in Nat /\ from <= filesize
    <3>1. from \in Nat /\ position \in Nat /\ from <= position /\ position <= filesize
      BY <2>1, SyncTypes DEF Known
    <3> QED BY <1>2, <3>1
  <2>3. Edge(q - 1) < from /\ (from < Edge(q) => Torn(q))
    <3>1. q # n /\ q > 0
      BY <1>5
    <3> QED BY <1>1, <2>1, <3>1 DEF AtPage
  <2>4. Edge(q) \in Nat /\ Edge(q - 1) \in Nat /\ Edge(n + 1) \in Nat
    <3>1. q - 1 \in Nat /\ n + 1 \in Nat
      BY <1>5
    <3> QED BY <3>1, EdgeFacts DEF Known
  <2>5. q = n + 1
    <3> SUFFICES ASSUME q # n + 1
                 PROVE  FALSE
      OBVIOUS
    <3>1. n + 1 \in Nat /\ q - 1 \in Nat /\ n + 1 <= q - 1
      BY <1>5
    <3>2. Edge(n + 1) <= Edge(q - 1)
      BY <3>1, EdgeFacts DEF Known
    <3> QED BY <1>2, <2>2, <2>3, <2>4, <3>2
  <2>6. Torn(q)
    BY <1>2, <2>2, <2>3, <2>4, <2>5
  <2>7. TornPages(n, q)
    <3>1. \A m \in n + 1 .. q : m = q
      BY <2>5
    <3> QED BY <2>6, <3>1 DEF TornPages
  <2>8. s[q + 1] = s[n + 1]
    <3>1. n <= q
      BY <2>5
    <3> QED BY <2>7, <3>1, TornHasNone DEF Known
  <2>9. s[n + 1] \in Nat
    <3>1. n + 1 \in 1 .. Len(pages) + 1
      BY <1>2
    <3> QED BY <3>1, KnownTypes
  <2> QED BY <1>1, <2>8, <2>9
<1> QED BY <1>4, <1>5

(* The pages before the first damaged one that is in the file. *)
LEMMA SoundIs ==
  ASSUME NEW w, Intact(w), Video!InFile \in Nat
  PROVE  /\ Video!Damage = {} => w = Video!InFile
         /\ Video!Damage # {} =>
              (CHOOSE p \in Video!Damage : \A q \in Video!Damage : p <= q) - 1 = w
<1>1. PICK n \in Nat : n = Video!InFile
  OBVIOUS
<1>2. /\ w \in Nat /\ w <= n /\ \A p \in 1 .. w : p \notin Video!Damage
      /\ w < n => w + 1 \in Video!Damage
      /\ \A p \in Video!Damage : p \in 1 .. n
  BY <1>1 DEF Intact, Torn, Video!Damage
<1>3. Video!Damage = {} => w = n
  BY <1>2
<1>4. ASSUME Video!Damage # {}
      PROVE  (CHOOSE p \in Video!Damage : \A q \in Video!Damage : p <= q) - 1 = w
  <2> DEFINE D == Video!Damage
             c == CHOOSE p \in D : \A q \in D : p <= q
  <2>1. w < n
    <3>1. PICK p \in D : TRUE
      BY <1>4
    <3>2. p \in 1 .. n /\ p \notin 1 .. w
      BY <1>2, <3>1
    <3> QED BY <1>2, <3>2
  <2>2. w + 1 \in D /\ \A p \in D : p \in 1 .. n /\ w + 1 <= p
    <3>1. \A p \in D : p \in 1 .. n /\ p \notin 1 .. w
      BY <1>2
    <3>2. \A p \in D : w + 1 <= p
      BY <1>2, <3>1
    <3> QED BY <1>2, <2>1, <3>1, <3>2
  <2> HIDE DEF D
  <2>3. c \in D /\ \A p \in D : c <= p
    BY <2>2
  <2> HIDE DEF c
  <2>4. c \in 1 .. n /\ c <= w + 1 /\ w + 1 <= c
    BY <2>2, <2>3
  <2>5. c - 1 = w
    BY <1>2, <2>4
  <2> QED BY <2>5 DEF c, D
<1> QED BY <1>1, <1>3, <1>4

(* The invariant gives the property. *)
LEMMA PicturesFollow ==
  ASSUME NEW h, NEW low, NEW fs, NEW s, NEW w, NEW q, Watched(h, low, fs, s, w, q)
  PROVE  Video!PicturesAreFrames
<1>1. /\ Known(h, low, fs, s, w) /\ q \in Nat /\ q <= Len(pages)
      /\ Synced(q) /\ Gathered(h, fs, s, w, q) /\ Drawn(fs) /\ Phased(h, s, w, q)
  BY DEF Watched
<1>2. PICK n \in Nat : n = Len(video)
  BY <1>1 DEF Drawn
<1>3. PICK l \in Nat : l = Len(pages)
  BY <1>1, KnownTypes
<1>4. /\ s \in [1 .. l + 1 -> Nat] /\ fs \in Seq(Int) /\ s[l + 1] = Len(fs)
      /\ \A i \in 2 .. Len(fs) : fs[i - 1] < fs[i]
      /\ \A i, j \in 1 .. l + 1 : i <= j => s[i] <= s[j]
      /\ \A m \in 0 .. l : /\ Video!FramesOf(m) \in Seq(Int) /\ Len(Video!FramesOf(m)) = s[m + 1]
                           /\ LiesIn(Video!FramesOf(m), fs, 0)
  BY <1>1, <1>3 DEF Known, Film
<1>5. PICK m \in Nat : m = Video!InFile /\ m <= l
  BY <1>1, <1>3, InFileIs DEF Known
<1>6. w \in Nat /\ w <= m /\ w <= l
  BY <1>1, <1>3, <1>5, KnownTypes DEF Known, Intact
<1>7. n <= s[q + 1]
  <2>1. s[q + 1] \in Nat
    <3>1. q + 1 \in 1 .. l + 1
      BY <1>1, <1>3
    <3> QED BY <1>4, <3>1
  <2>2. CASE theora_p > 0
    <3>1. Ranked(to, n, s[q + 1], fs, s[w + 1])
      BY <1>1, <1>2, <2>2 DEF Gathered, Queued
    <3> QED BY <3>1, RankedOrder
  <2>3. CASE theora_p = 0
    <3>1. n = 0
      BY <1>1, <1>2, <2>3 DEF Gathered
    <3> QED BY <2>1, <3>1
  <2> QED BY <1>1, <2>2, <2>3 DEF Gathered
<1>8. n <= Len(fs)
  <2>1. q + 1 \in 1 .. l + 1 /\ l + 1 \in 1 .. l + 1 /\ q + 1 <= l + 1
    BY <1>1, <1>3
  <2>2. s[q + 1] <= s[l + 1] /\ s[q + 1] \in Nat /\ s[l + 1] \in Nat
    BY <1>4, <2>1
  <2> QED BY <1>4, <1>7, <2>2
<1>9. \A k \in 1 .. n : video[k][2] = fs[k]
  BY <1>1, <1>2 DEF Drawn
<1>10. ASSUME NEW k \in DOMAIN Video!Pictures, vphase # "fault"
       PROVE  Video!Pictures[k][1] = k
  <2>1. k \in 1 .. n /\ (videobuf_ready => k # n) /\ Video!Pictures[k] = video[k]
    BY <1>2 DEF Video!Pictures
  <2>2. (videobuf_ready /\ k = n) \/ video[k][1] = k
    BY <1>1, <1>2, <1>10, <2>1 DEF Drawn
  <2> QED BY <2>1, <2>2
<1>11. ASSUME NEW k \in 2 .. Len(video)
       PROVE  video[k - 1][2] < video[k][2]
  <2>1. k \in 1 .. n /\ k - 1 \in 1 .. n /\ k \in 2 .. Len(fs)
    <3>1. PICK v \in Nat : v = Len(fs) /\ n <= v
      BY <1>4, <1>8
    <3>2. k \in 2 .. n
      BY <1>2
    <3> HIDE <1>2, <1>4, <1>8
    <3>3. k \in 1 .. n /\ k - 1 \in 1 .. n /\ k \in 2 .. v
      BY <3>1, <3>2
    <3> QED BY <3>1, <3>3
  <2>2. video[k - 1][2] = fs[k - 1] /\ video[k][2] = fs[k]
    BY <1>9, <2>1
  <2>3. fs[k - 1] < fs[k]
    BY <1>4, <2>1
  <2> QED BY <2>2, <2>3
<1>12. ASSUME vphase = "done"
       PROVE  /\ Len(Video!FramesOf(w)) <= Len(video)
              /\ \A k \in DOMAIN Video!FramesOf(w) : video[k][2] = Video!FramesOf(w)[k]
              /\ w = Video!InFile => Len(video) = Len(Video!FramesOf(Video!InFile))
  <2>1. s[w + 1] <= n
    BY <1>1, <1>2, <1>12 DEF Phased
  <2>2. PICK r : r = Video!FramesOf(w)
    OBVIOUS
  <2>3. r \in Seq(Int) /\ Len(r) = s[w + 1] /\ \A k \in 1 .. Len(r) : fs[0 + k] = r[k]
    BY <1>4, <1>6, <2>2 DEF LiesIn
  <2>4. Len(r) <= n
    BY <2>1, <2>3
  <2>5. ASSUME NEW k \in DOMAIN r
        PROVE  video[k][2] = r[k]
    <3>1. k \in 1 .. Len(r) /\ k \in 1 .. n /\ 0 + k = k
      BY <2>3, <2>4
    <3>2. fs[k] = r[k]
      BY <2>3, <3>1
    <3> QED BY <1>9, <3>1, <3>2
  <2>6. ASSUME w = m
        PROVE  n = Len(r)
    <3>1. s[q + 1] <= s[m + 1]
      BY <1>1, <1>5, NoMoreFrames
    <3>2. s[q + 1] \in Nat /\ s[m + 1] \in Nat
      <4>1. q + 1 \in 1 .. l + 1 /\ m + 1 \in 1 .. l + 1
        BY <1>1, <1>3, <1>5
      <4> QED BY <1>4, <4>1
    <3>3. Len(r) = s[m + 1]
      BY <2>3, <2>6
    <3> QED BY <1>7, <2>4, <3>1, <3>2, <3>3
  <2> QED BY <1>2, <1>5, <2>2, <2>4, <2>5, <2>6
<1>13. /\ Video!Damage = {} => w = Video!InFile
       /\ Video!Damage # {} =>
              (CHOOSE p \in Video!Damage : \A g \in Video!Damage : p <= g) - 1 = w
  BY <1>1, <1>5, SoundIs DEF Known
<1>14. (IF Video!Damage = {} THEN Video!InFile
        ELSE (CHOOSE p \in Video!Damage : \A g \in Video!Damage : p <= g) - 1) = w
  BY <1>13
<1> HIDE <1>2, <1>3, <1>4, <1>5, <1>6, <1>7, <1>8, <1>9
<1>15. vphase = "done" =>
         LET sound == IF Video!Damage = {} THEN Video!InFile
                      ELSE (CHOOSE p \in Video!Damage : \A g \in Video!Damage : p <= g) - 1
         IN  /\ Len(Video!FramesOf(sound)) <= Len(video)
             /\ \A k \in DOMAIN Video!FramesOf(sound) : video[k][2] = Video!FramesOf(sound)[k]
             /\ Video!Damage = {} => Len(video) = Len(Video!FramesOf(Video!InFile))
  BY <1>12, <1>13, <1>14
<1> QED BY <1>10, <1>11, <1>15 DEF Video!PicturesAreFrames

(* What is known of a video that is decoded and has a stream of pictures. *)
PicturesInv ==
  OGVFlag = "png" /\ Video!Theora =>
    \E h, low, fs, s, w, q : Watched(h, low, fs, s, w, q)

(* Every step keeps the invariant. *)
LEMMA NextWatched ==
  ASSUME Video!Next \/ UNCHANGED Video!vvars,
         NEW h, NEW low, NEW fs, NEW s, NEW w, NEW q, Watched(h, low, fs, s, w, q)
  PROVE  \E p : Watched(h, low, fs, s, w, p)'
<1>1. CASE Video!Copy \/ Video!RefuseCopy
  BY <1>1 DEF Video!Copy, Video!RefuseCopy, Watched, Phased, Looping
<1>2. CASE Video!BosRead
  BY <1>2, BosReadWatched
<1>3. CASE Video!BosPage
  BY <1>3, BosPageWatched
<1>4. CASE Video!HeaderPacket
  BY <1>4, HeaderPacketWatched
<1>5. CASE Video!HeaderPage
  BY <1>5, HeaderPageWatched
<1>6. CASE Video!HeaderRead
  BY <1>6, HeaderReadWatched
<1>7. CASE Video!InitDecoder
  BY <1>7, InitDecoderWatched
<1>8. CASE Video!QueueRest
  <2>1. /\ vphase \in {"rest", "pages"}
        /\ \/ Video!NextPage /\ UNCHANGED vphase
           \/ Video!NoPage /\ vphase' = "main"
        /\ UNCHANGED Video!film /\ UNCHANGED <<position, theora_p, videobuf_ready, frames, video>>
    BY <1>8 DEF Video!QueueRest
  <2> QED BY <2>1, LoopPageWatched
<1>9. CASE Video!DecodePacket
  BY <1>9, DecodePacketWatched
<1>10. CASE Video!EndOfVideo
  BY <1>10, EndOfVideoWatched
<1>11. CASE Video!ReadMore
  BY <1>11, ReadMoreWatched
<1>12. CASE Video!QueuePages
  <2>1. /\ vphase \in {"rest", "pages"}
        /\ \/ Video!NextPage /\ UNCHANGED vphase
           \/ Video!NoPage /\ vphase' = "main"
        /\ UNCHANGED Video!film /\ UNCHANGED <<position, theora_p, videobuf_ready, frames, video>>
    BY <1>12 DEF Video!QueuePages
  <2> QED BY <2>1, LoopPageWatched
<1>13. CASE Video!WriteFrame
  BY <1>13, WriteFrameWatched
<1>14. CASE UNCHANGED Video!vvars
  <2>1. /\ UNCHANGED Video!film
        /\ UNCHANGED <<position, sync, to, lastpage, theora_p, vphase, videobuf_ready, frames, video>>
    BY <1>14 DEF Video!vvars, Video!ogg
  <2>2. /\ Known(h, low, fs, s, w) /\ pages[1].theora /\ q \in Nat /\ q <= Len(pages)
        /\ Synced(q) /\ Gathered(h, fs, s, w, q) /\ Drawn(fs) /\ Phased(h, s, w, q)
    BY DEF Watched
  <2>3. Synced(q)' /\ Gathered(h, fs, s, w, q)'
    BY <2>1, <2>2, SyncedKept, GatheredKept
  <2>4. Drawn(fs)'
    BY <2>1, <2>2 DEF Drawn
  <2>5. Phased(h, s, w, q)'
    <3>1. Awaits(q, w) => Awaits(q, w)'
      BY <2>1, AwaitsKept
    <3>2. NoHeader(to) => NoHeader(to)'
      BY <2>1 DEF NoHeader
    <3>3. Video!InFile' = Video!InFile
      BY <2>1 DEF Video!InFile, Video!film
    <3>4. PICK e : e = Len(video)
      OBVIOUS
    <3>5. e = Len(video')
      BY <2>1, <3>4
    <3> QED BY <2>1, <2>2, <3>1, <3>2, <3>3, <3>4, <3>5 DEF Phased, Looping
  <2> QED BY <2>1, <2>2, <2>3, <2>4, <2>5, WatchKept
<1> QED BY <1>1, <1>2, <1>3, <1>4, <1>5, <1>6, <1>7, <1>8, <1>9, <1>10, <1>11, <1>12, <1>13, <1>14
        DEF Video!Next

(* The pictures written have the numbers from 1 on without a gap and are frames of the
   video in its order, and when the loop is done none of the frames before the first
   damaged page is missing: for every number, size and sequence of pages, a whole
   or a cut file, whichever pages are damaged and however many units a read gives. *)
THEOREM FramesAreDrawn == MediaSpec => []PicturesAreFrames
<1> DEFINE Inv == program = "video" => PicturesInv
<1>1. MediaInit => Inv
  BY StartWatched DEF MediaInit, PicturesInv
<1>2. Inv /\ [MediaNext]_mediavars => Inv'
  <2> SUFFICES ASSUME PicturesInv, Video!Next \/ UNCHANGED Video!vvars
               PROVE  PicturesInv'
    BY DEF MediaNext, mediavars, videovars, Video!vvars, Video!film, Video!ogg
  <2>1. UNCHANGED Video!film
    BY DEF Video!Next, Video!vvars, Video!RefuseCopy, Video!Copy, Video!BosRead, Video!BosPage, Video!HeaderPacket,
           Video!HeaderPage, Video!HeaderRead, Video!InitDecoder, Video!QueueRest, Video!DecodePacket,
           Video!EndOfVideo, Video!ReadMore, Video!QueuePages, Video!WriteFrame
  <2>2. UNCHANGED <<OGVFlag, pages>>
    BY <2>1 DEF Video!film
  <2>3. Video!Theora' => Video!Theora
    BY <2>2 DEF Video!Theora
  <2> SUFFICES ASSUME OGVFlag = "png", Video!Theora
               PROVE  \E h, low, fs, s, w, q : Watched(h, low, fs, s, w, q)'
    BY <2>2, <2>3 DEF PicturesInv
  <2>4. PICK h, low, fs, s, w, q : Watched(h, low, fs, s, w, q)
    BY DEF PicturesInv
  <2>5. \E p : Watched(h, low, fs, s, w, p)'
    BY <2>4, NextWatched
  <2> QED BY <2>5
<1>3. Inv => PicturesAreFrames
  <2> SUFFICES ASSUME PicturesInv
               PROVE  Video!PicturesAreFrames
    BY DEF PicturesAreFrames
  <2>1. CASE OGVFlag = "png" /\ Video!Theora
    BY <2>1, PicturesFollow DEF PicturesInv
  <2>2. CASE ~(OGVFlag = "png" /\ Video!Theora)
    BY <2>2 DEF Video!PicturesAreFrames
  <2> QED BY <2>1, <2>2
<1> QED BY <1>1, <1>2, <1>3, PTL DEF MediaSpec

=============================================================================
