------------------------------ MODULE ToolProofs ------------------------------
(***************************************************************************)
(* The programs beside SiglusExtract.                                      *)
(*                                                                         *)
(* The script that ScriptRepacker writes is consistent and the lines of    *)
(* the translator are kept, for all strings, all edits of them and         *)
(* everything the heap may hold.                                           *)
(*                                                                         *)
(* The configuration tool and the library in the game, for every set of    *)
(* names, fonts, configurations and files: "Save ok" is true, as the       *)
(* argument that follows a value from the box to the file shows.  Once its *)
(* box is shown a setting is what the box says (ConfigShown), the keys     *)
(* written so far are the settings, which a save holds still               *)
(* (ConfigSaving), and that is all of them when it is reported             *)
(* (ConfigSaved).                                                          *)
(***************************************************************************)
EXTENDS Tools, SequenceLemmas, SequenceTheorems, TLAPS

(* What GetLines may read: of the text, of the zeros behind it or of the heap. *)
Found == {memory[k] : k \in Nat}

LinesTyped ==
  /\ pos \in Nat
  /\ line \in Seq(Found)
  /\ lines \in Seq(Seq(Found))

(* A string is replaced by one line or by none. *)
Replacements == {<<>>} \cup {<<s>> : s \in Seq(Found)}

NewTyped ==
  /\ strings \in Seq(Seq(Chars))
  /\ new \in [1 .. Len(strings) -> Replacements]

Letters == Chars \cup Found

(* Every string written so far is where the index says, under its own key. *)
Placed ==
  /\ index \in Seq([offset : Nat, length : Nat])
  /\ data \in Seq([char : Letters, key : Nat])
  /\ Len(index) <= Len(strings)
  /\ \A n \in 1 .. Len(index) :
       /\ index[n].length = Len(Chosen(n))
       /\ index[n].offset + index[n].length <= Len(data)
       /\ \A k \in 1 .. index[n].length :
            data[index[n].offset + k] = [char |-> Chosen(n)[k], key |-> n - 1]

RepackInv ==
  /\ LinesTyped /\ NewTyped /\ Placed
  /\ phase \in {"lines", "match"} => index = <<>> /\ data = <<>>
  /\ phase = "written" => Len(index) = Len(strings)

-----------------------------------------------------------------------------
(* wcscpy gives a string of the same letters. *)
LEMMA UpToNulTyped ==
  ASSUME NEW S, NEW s \in Seq(S)
  PROVE  UpToNul(s) \in Seq(S)
<1>1. CASE ~Contains(s, NUL)
  BY <1>1 DEF UpToNul
<1>2. CASE Contains(s, NUL)
  <2> DEFINE First(k) == s[k] = NUL /\ \A j \in 1 .. k - 1 : s[j] # NUL
             at == CHOOSE k \in DOMAIN s : First(k)
             nuls == {k \in 1 .. Len(s) : s[k] = NUL}
  <2>1. nuls # {} /\ nuls \subseteq Nat
    BY <1>2 DEF Contains
  <2>2. PICK m \in nuls : \A k \in nuls : m <= k
    BY <2>1, Least
  <2>3. First(m) /\ m \in DOMAIN s
    BY <2>2
  <2>4. at \in 1 .. Len(s)
    BY <2>3
  <2>5. UpToNul(s) = SubSeq(s, 1, at - 1)
    BY <1>2 DEF UpToNul
  <2>6. \A k \in 1 .. at - 1 : s[k] \in S
    BY <2>4
  <2> HIDE DEF at
  <2> QED BY <2>4, <2>5, <2>6, SubSeqProperties
<1> QED BY <1>1, <1>2

LEMMA InitTyped == Init => RepackInv
<1> SUFFICES ASSUME Init PROVE RepackInv
  OBVIOUS
<1>1. strings \in Seq(Seq(Chars))
  <2>1. PICK k \in 0 .. MaxStrings : strings \in [1 .. k -> UpTo(Chars, MaxLength)]
    BY DEF Init, Texts, UpTo
  <2>2. UpTo(Chars, MaxLength) \subseteq Seq(Chars)
    BY RepackAssumption DEF UpTo
  <2> QED BY <2>1, <2>2, RepackAssumption
<1> QED BY <1>1 DEF Init, RepackInv, LinesTyped, NewTyped, Placed, Replacements
-----------------------------------------------------------------------------
LEMMA ReadTyped ==
  ASSUME LinesTyped, ReadChar
  PROVE  LinesTyped'
<1>1. AfterReturn(pos) \in Nat
  BY DEF LinesTyped, AfterReturn
<1>2. \A p \in Nat : At(p) \in Found
  BY DEF At, Found
<1>3. memory' = memory
  BY DEF ReadChar, file
<1> DEFINE p1 == IF At(pos) = CR THEN AfterReturn(pos) ELSE pos
           p2 == IF At(p1) = LF THEN p1 + 1 ELSE p1
           s1 == IF At(pos) = CR THEN <<Append(lines, line), <<>>>> ELSE <<lines, line>>
           s2 == IF At(p1) = LF THEN <<Append(s1[1], s1[2]), <<>>>> ELSE s1
<1>4. p1 \in Nat /\ p2 \in Nat
  BY <1>1 DEF LinesTyped
<1>5. lines' = s2[1] /\ line' = Append(s2[2], At(p2)) /\ pos' = p2 + 1
  BY DEF ReadChar
<1>6. s1[1] \in Seq(Seq(Found)) /\ s1[2] \in Seq(Found)
  BY DEF LinesTyped
<1>7. s2[1] \in Seq(Seq(Found)) /\ s2[2] \in Seq(Found)
  <2> HIDE DEF p1, s1
  <2> QED BY <1>6
<1>8. Append(s2[2], At(p2)) \in Seq(Found)
  <2> HIDE DEF s2, p2
  <2> QED BY <1>2, <1>4, <1>7
<1> HIDE DEF p1, p2, s1, s2
<1> QED BY <1>3, <1>4, <1>5, <1>7, <1>8 DEF LinesTyped, Found

LEMMA MatchTyped ==
  ASSUME LinesTyped, NewTyped, MatchLines
  PROVE  NewTyped'
<1>1. \A n \in DOMAIN new : n <= Len(lines) => UpToNul(lines[n]) \in Seq(Found)
  <2> TAKE n \in DOMAIN new
  <2> HAVE n <= Len(lines)
  <2>1. n \in 1 .. Len(lines) /\ lines[n] \in Seq(Found)
    BY DEF LinesTyped, NewTyped
  <2> QED BY <2>1, UpToNulTyped
<1>2. memory' = memory /\ strings' = strings
  BY DEF MatchLines, file
<1>3. new' = [n \in DOMAIN new |-> IF n <= Len(lines) THEN <<UpToNul(lines[n])>> ELSE <<>>]
  BY DEF MatchLines
<1>4. DOMAIN new = 1 .. Len(strings)
  BY DEF NewTyped
<1>5. new' \in [1 .. Len(strings) -> Replacements]
  <2> HIDE DEF NewTyped
  <2> QED BY <1>1, <1>3, <1>4 DEF Replacements
<1> QED BY <1>2, <1>5 DEF NewTyped, Replacements, Found

LEMMA ChosenTyped ==
  ASSUME NewTyped, NEW n \in 1 .. Len(strings)
  PROVE  Chosen(n) \in Seq(Letters)
<1>1. CASE new[n] = <<>>
  BY <1>1, SeqMonotonic DEF NewTyped, Chosen, Letters
<1>2. CASE new[n] # <<>>
  <2>1. PICK s \in Seq(Found) : new[n] = <<s>>
    BY <1>2 DEF NewTyped, Replacements
  <2>2. Chosen(n) = s
    BY <1>2, <2>1 DEF Chosen
  <2> QED BY <2>2, SeqMonotonic DEF Letters
<1> QED BY <1>1, <1>2

(* One more string keeps those before it in their places. *)
LEMMA WritePlaces ==
  ASSUME NewTyped, Placed, WriteString
  PROVE  Placed'
<1> DEFINE n == Len(index) + 1
           s == Chosen(n)
           entry == [offset |-> Len(data), length |-> Len(s)]
           more == [k \in 1 .. Len(s) |-> [char |-> s[k], key |-> Key(n)]]
           Char == [char : Letters, key : Nat]
<1>1. n \in 1 .. Len(strings)
  BY DEF WriteString, Placed, NewTyped
<1>2. s \in Seq(Letters) /\ Len(s) \in Nat /\ n \in Nat /\ Len(data) \in Nat
  <2> HIDE DEF n
  <2>1. s \in Seq(Letters)
    BY <1>1, ChosenTyped
  <2> HIDE DEF s
  <2> QED BY <1>1, <2>1 DEF Placed, NewTyped
<1>3. index' = Append(index, entry) /\ data' = data \o more
  BY DEF WriteString
<1>4. UNCHANGED <<strings, memory, new>>
  BY DEF WriteString, file
<1>5. (\A m : Chosen(m)' = Chosen(m)) /\ Letters' = Letters
  BY <1>4 DEF Chosen, Letters, Found
<1>6. \A k \in 1 .. Len(s) : [char |-> s[k], key |-> Key(n)] \in Char
  <2> TAKE k \in 1 .. Len(s)
  <2> HIDE DEF s, n
  <2> QED BY <1>1, <1>2 DEF Key
<1>7. more \in Seq(Char) /\ Len(more) = Len(s)
  <2> HIDE DEF Char, s, n
  <2> QED BY <1>2, <1>6
<1>8. entry \in [offset : Nat, length : Nat]
  BY <1>2
<1>9. /\ index' \in Seq([offset : Nat, length : Nat]) /\ Len(index') = n
      /\ index'[n] = entry
      /\ \A m \in 1 .. Len(index) : index'[m] = index[m]
  <2> HIDE DEF entry
  <2> QED BY <1>3, <1>8, AppendProperties DEF Placed
<1>10. /\ data' \in Seq(Char) /\ Len(data') = Len(data) + Len(s)
       /\ \A i \in 1 .. Len(data) : data'[i] = data[i]
       /\ \A k \in 1 .. Len(s) : data'[Len(data) + k] = more[k]
  <2>1. data \in Seq(Char)
    BY DEF Placed
  <2> HIDE DEF more, s, Char
  <2>2. /\ data \o more \in Seq(Char) /\ Len(data \o more) = Len(data) + Len(more)
        /\ \A i \in 1 .. Len(data) + Len(more) :
             (data \o more)[i] = IF i <= Len(data) THEN data[i] ELSE more[i - Len(data)]
    BY <1>7, <2>1, ConcatProperties
  <2> QED BY <1>2, <1>3, <1>7, <2>2, SMTT(60)
<1>11. \A k \in 1 .. Len(s) : more[k] = [char |-> s[k], key |-> n - 1]
  BY DEF Key
<1> DEFINE InPlace(m) == /\ index'[m].length = Len(Chosen(m))
                         /\ index'[m].offset + index'[m].length <= Len(data')
                         /\ \A k \in 1 .. index'[m].length :
                              data'[index'[m].offset + k] = [char |-> Chosen(m)[k], key |-> m - 1]
<1>12. ASSUME NEW m \in 1 .. Len(index) PROVE InPlace(m)
  <2>1. /\ index'[m] = index[m] /\ index[m].offset \in Nat /\ index[m].length \in Nat
        /\ index[m].length = Len(Chosen(m))
        /\ index[m].offset + index[m].length <= Len(data)
        /\ \A k \in 1 .. index[m].length :
             data[index[m].offset + k] = [char |-> Chosen(m)[k], key |-> m - 1]
    <3> DEFINE Entries == [offset : Nat, length : Nat]
    <3>1. index \in Seq(Entries)
      BY DEF Placed
    <3>2. index[m] \in Entries
      <4> HIDE DEF Entries, Placed
      <4> QED BY <3>1, ElementOfSeq
    <3>3. index[m].offset \in Nat /\ index[m].length \in Nat
      BY <3>2
    <3>4. index'[m] = index[m]
      BY <1>9
    <3> QED BY <3>3, <3>4 DEF Placed
  <2> HIDE DEF s, n, entry, more, Char
  <2>2. \A k \in 1 .. index[m].length : index[m].offset + k \in 1 .. Len(data)
    BY <1>2, <2>1
  <2>3. \A k \in 1 .. index[m].length :
          data'[index[m].offset + k] = [char |-> Chosen(m)[k], key |-> m - 1]
    BY <1>10, <2>1, <2>2
  <2>4. index[m].offset + index[m].length <= Len(data')
    BY <1>2, <1>10, <2>1
  <2> QED BY <2>1, <2>3, <2>4
<1>13. InPlace(n)
  <2>1. index'[n].offset = Len(data) /\ index'[n].length = Len(s)
    BY <1>9
  <2>2. Chosen(n) = s
    OBVIOUS
  <2> HIDE DEF s, entry, more, Char
  <2>3. \A k \in 1 .. Len(s) : data'[Len(data) + k] = [char |-> s[k], key |-> n - 1]
    BY <1>10, <1>11
  <2>4. Len(data) + Len(s) <= Len(data')
    BY <1>2, <1>10
  <2> HIDE DEF n
  <2> QED BY <2>1, <2>2, <2>3, <2>4
<1>14. \A m \in 1 .. Len(index') : InPlace(m)
  <2>1. 1 .. Len(index') = (1 .. Len(index)) \cup {n}
    BY <1>9 DEF Placed
  <2> HIDE DEF InPlace, n
  <2> QED BY <1>12, <1>13, <2>1
<1>15. Len(index') <= Len(strings')
  <2> HIDE DEF n
  <2> QED BY <1>1, <1>4, <1>9
<1> HIDE DEF n, s, entry, more
<1> QED BY <1>5, <1>9, <1>10, <1>14, <1>15 DEF Placed

LEMMA StepTyped == RepackInv /\ [Next]_vars => RepackInv'
<1> SUFFICES ASSUME RepackInv, [Next]_vars
             PROVE  RepackInv'
  OBVIOUS
<1> USE DEF RepackInv
<1>1. CASE ReadChar
  <2>1. LinesTyped'
    BY <1>1, ReadTyped
  <2> QED BY <1>1, <2>1 DEF ReadChar, file, NewTyped, Placed, Replacements, Found, Letters, Chosen
<1>2. CASE EndLines
  <2>1. LinesTyped'
    BY <1>2 DEF EndLines, file, LinesTyped, Found
  <2> QED BY <1>2, <2>1 DEF EndLines, file, NewTyped, Placed, Replacements, Found, Letters, Chosen
<1>3. CASE MatchLines
  <2>1. NewTyped'
    BY <1>3, MatchTyped
  <2>2. index' = <<>> /\ data' = <<>> /\ strings' = strings
    BY <1>3 DEF MatchLines, file
  <2>3. LinesTyped'
    BY <1>3 DEF MatchLines, file, LinesTyped, Found
  <2>4. Placed'
    BY <2>2 DEF Placed, NewTyped
  <2> QED BY <1>3, <2>1, <2>2, <2>3, <2>4 DEF MatchLines
<1>4. CASE WriteString
  <2>1. Placed'
    BY <1>4, WritePlaces
  <2> QED BY <1>4, <2>1 DEF WriteString, file, LinesTyped, NewTyped, Replacements, Found
<1>5. CASE WriteScript
  BY <1>5 DEF WriteScript, file, LinesTyped, NewTyped, Placed, Replacements, Found, Letters, Chosen
<1>6. CASE UNCHANGED vars
  BY <1>6 DEF vars, file, LinesTyped, NewTyped, Placed, Replacements, Found, Letters, Chosen
<1> QED BY <1>1, <1>2, <1>3, <1>4, <1>5, <1>6 DEF Next

(* Each string is read as it was chosen. *)
LEMMA ReadsChosen == RepackInv => IndexMatchesData
<1> SUFFICES ASSUME RepackInv, phase = "written", NEW n \in DOMAIN strings
             PROVE  Reads(n) = Chosen(n)
  BY DEF IndexMatchesData
<1>1. n \in 1 .. Len(strings) /\ n \in 1 .. Len(index)
  BY DEF RepackInv, NewTyped
<1>2. Chosen(n) \in Seq(Letters)
  BY <1>1, ChosenTyped DEF RepackInv
<1> DEFINE s == Chosen(n)
           entry == index[n]
<1>3. /\ entry.length = Len(s)
      /\ \A k \in 1 .. entry.length : data[entry.offset + k] = [char |-> s[k], key |-> n - 1]
  BY <1>1 DEF RepackInv, Placed
<1>4. s = [k \in 1 .. Len(s) |-> s[k]]
  <2> HIDE DEF s
  <2> QED BY <1>2 DEF s
<1>5. Reads(n) = [k \in 1 .. Len(s) |-> s[k]]
  <2> HIDE DEF s
  <2>1. \A k \in 1 .. Len(s) :
          data[entry.offset + k].key = n - 1 /\ data[entry.offset + k].char = s[k]
    <3> TAKE k \in 1 .. Len(s)
    <3>1. data[entry.offset + k] = [char |-> s[k], key |-> n - 1]
      BY <1>3
    <3> QED BY <3>1
  <2> QED BY <1>3, <2>1 DEF Reads
<1> QED BY <1>4, <1>5

(* The script that is written is consistent: each string is found where its
   index entry says, under the key of its number, and is the line of that
   number or the old string, for all strings and lines and whatever was read
   behind the text. *)
THEOREM RepackIsConsistent == Spec => []IndexMatchesData
BY ReadsChosen, InitTyped, StepTyped, PTL DEF Spec

-----------------------------------------------------------------------------
(* GetLines finds each line that was saved, and at most zeros and what the
   heap holds behind the last one.  s is a line found, e a line saved. *)
Keeps(s, e) ==
  /\ Len(s) >= Len(e) /\ \A k \in 1 .. Len(e) : s[k] = e[k]
  /\ Len(s) > Len(e) => s[Len(e) + 1] = NUL

KeptUpTo(ls, es, n) == Len(ls) >= n /\ \A k \in 1 .. n : Keeps(ls[k], es[k])

Ends == {<<CR, LF>>, <<LF>>}

(* The n-th line saved begins behind off[n]; a zero follows the L characters. *)
Buffer(mem, es, whole, off, eol, L) ==
  /\ es \in Seq(Seq(Chars)) /\ es # <<>>
  /\ off \in [1 .. Len(es) -> Nat] /\ off[1] = 0
  /\ eol \in Ends /\ L \in Nat /\ L > 0 /\ mem[L + 1] = NUL
  /\ \A n \in 1 .. Len(es) :
       /\ off[n] + Len(es[n]) <= L
       /\ \A j \in 1 .. Len(es[n]) : mem[off[n] + j] = es[n][j]
       /\ n < Len(es) \/ whole => \A i \in 1 .. Len(eol) : mem[off[n] + Len(es[n]) + i] = eol[i]
       /\ n < Len(es) => off[n + 1] = off[n] + Len(es[n]) + Len(eol)
       /\ n = Len(es) => L = off[n] + Len(es[n]) + (IF whole THEN Len(eol) ELSE 0)

(* GetLines has taken j characters of the n-th line. *)
InText(es, off, ls, ln, p, n, j) ==
  /\ n \in 1 .. Len(es) /\ j \in 0 .. Len(es[n]) /\ p = off[n] + j
  /\ Len(ls) = n - 1 /\ KeptUpTo(ls, es, n - 1)
  /\ Len(ln) = j /\ \A k \in 1 .. j : ln[k] = es[n][k]
  /\ j > 0 \/ n = 1

(* It reads on behind a text that has no line end. *)
Behind(es, ls, ln) ==
  /\ Len(ls) = Len(es) - 1 /\ KeptUpTo(ls, es, Len(es) - 1)
  /\ Keeps(ln, es[Len(es)]) /\ Len(ln) > Len(es[Len(es)])

Kept(es, ls) == KeptUpTo(ls, es, Len(es))

(* Only the first of the lines may be empty. *)
Full(es) == es # <<>> /\ \A n \in 2 .. Len(es) : es[n] # <<>>

-----------------------------------------------------------------------------
(* What one iteration of GetLines does. *)
LEMMA ReadLetter ==
  ASSUME ReadChar, At(pos) \notin {CR, LF}
  PROVE  lines' = lines /\ line' = Append(line, At(pos)) /\ pos' = pos + 1
BY DEF ReadChar

LEMMA ReadEnd ==
  ASSUME ReadChar, pos \in Nat, NEW eol \in Ends, \A i \in 1 .. Len(eol) : memory[pos + i] = eol[i],
         At(pos + Len(eol)) \notin {CR, LF}
  PROVE  /\ lines' = Append(lines, line) /\ line' = Append(<<>>, At(pos + Len(eol)))
         /\ pos' = pos + Len(eol) + 1
<1>1. CASE eol = <<LF>>
  <2>1. Len(eol) = 1 /\ memory[pos + 1] = LF
    BY <1>1
  <2>2. At(pos) = LF /\ At(pos) # CR
    BY <2>1 DEF At, CR, LF
  <2>3. lines' = Append(lines, line) /\ line' = Append(<<>>, At(pos + 1)) /\ pos' = (pos + 1) + 1
    BY <2>2 DEF ReadChar
  <2> QED BY <2>1, <2>3
<1>2. CASE eol = <<CR, LF>>
  <2>1. Len(eol) = 2 /\ memory[pos + 1] = CR /\ memory[pos + 2] = LF
    BY <1>2
  <2>2. At(pos) = CR /\ At(pos + 1) = LF
    <3>1. (pos + 1) + 1 = pos + 2
      OBVIOUS
    <3> QED BY <2>1, <3>1 DEF At
  <2>3. AfterReturn(pos) = pos + 2 /\ At(pos + 2) # LF
    BY <2>1, <2>2 DEF AfterReturn
  <2>4. lines' = Append(lines, line) /\ line' = Append(<<>>, At(pos + 2)) /\ pos' = (pos + 2) + 1
    BY <2>2, <2>3 DEF ReadChar
  <2> QED BY <2>1, <2>4
<1> QED BY <1>1, <1>2 DEF Ends

LEMMA ReadAny ==
  ASSUME ReadChar
  PROVE  \/ lines' = lines /\ \E x : line' = Append(line, x)
         \/ lines' = Append(lines, line)
         \/ lines' = Append(Append(lines, line), <<>>)
<1> DEFINE p1 == IF At(pos) = CR THEN AfterReturn(pos) ELSE pos
           p2 == IF At(p1) = LF THEN p1 + 1 ELSE p1
<1>1. CASE At(pos) # CR /\ At(p1) # LF
  <2>1. lines' = lines /\ line' = Append(line, At(p2))
    BY <1>1 DEF ReadChar
  <2> QED BY <2>1
<1>2. CASE At(pos) = CR /\ At(p1) # LF
  BY <1>2 DEF ReadChar
<1>3. CASE At(pos) # CR /\ At(p1) = LF
  BY <1>3 DEF ReadChar
<1>4. CASE At(pos) = CR /\ At(p1) = LF
  BY <1>4 DEF ReadChar
<1> QED BY <1>1, <1>2, <1>3, <1>4

(* A line added at the end disturbs none before it. *)
LEMMA KeptGrows ==
  ASSUME NEW S, NEW ls \in Seq(Seq(S)), NEW ln \in Seq(S), NEW es, NEW n \in Nat, KeptUpTo(ls, es, n)
  PROVE  /\ KeptUpTo(Append(ls, ln), es, n)
         /\ Len(ls) = n /\ Keeps(ln, es[n + 1]) => KeptUpTo(Append(ls, ln), es, n + 1)
<1> DEFINE more == Append(ls, ln)
<1>1. /\ Len(more) = Len(ls) + 1 /\ more[Len(ls) + 1] = ln
      /\ \A i \in 1 .. Len(ls) : more[i] = ls[i]
  BY AppendProperties
<1>2. Len(ls) \in Nat
  OBVIOUS
<1> HIDE DEF more
<1>3. KeptUpTo(more, es, n)
  <2>1. \A k \in 1 .. n : k \in 1 .. Len(ls) /\ Keeps(ls[k], es[k])
    BY <1>2 DEF KeptUpTo
  <2>2. Len(more) >= n
    BY <1>1, <1>2 DEF KeptUpTo
  <2> QED BY <1>1, <2>1, <2>2 DEF KeptUpTo
<1>4. Len(ls) = n /\ Keeps(ln, es[n + 1]) => KeptUpTo(more, es, n + 1)
  <2> SUFFICES ASSUME Len(ls) = n, Keeps(ln, es[n + 1])
               PROVE  KeptUpTo(more, es, n + 1)
    OBVIOUS
  <2>1. \A k \in 1 .. n + 1 : k \in 1 .. n \/ k = n + 1
    OBVIOUS
  <2>2. Len(more) = n + 1 /\ more[n + 1] = ln
    BY <1>1
  <2>3. \A k \in 1 .. n : Keeps(more[k], es[k])
    BY <1>3 DEF KeptUpTo
  <2>4. \A k \in 1 .. n + 1 : Keeps(more[k], es[k])
    BY <2>1, <2>2, <2>3
  <2> QED BY <2>2, <2>4 DEF KeptUpTo
<1> QED BY <1>3, <1>4 DEF more

(* The characters of a line are none of the three that mean something else. *)
LEMMA Plain == \A c \in Chars : c \notin {NUL, CR, LF}
BY RepackAssumption

LEMMA Marks == NUL \notin {CR, LF}
BY DEF NUL, CR, LF

(* What the buffer holds of one line. *)
LEMMA BufferLine ==
  ASSUME NEW off, NEW eol, NEW L, Buffer(memory, edited, ended, off, eol, L),
         NEW n \in 1 .. Len(edited)
  PROVE  /\ Len(edited) \in Nat /\ edited[n] \in Seq(Chars) /\ Len(edited[n]) \in Nat
         /\ off[n] \in Nat /\ off[n] + Len(edited[n]) <= L
         /\ eol \in Ends /\ Len(eol) \in Nat /\ L \in Nat /\ memory[L + 1] = NUL
         /\ \A j \in 1 .. Len(edited[n]) : memory[off[n] + j] = edited[n][j]
         /\ n < Len(edited) \/ ended
              => \A i \in 1 .. Len(eol) : memory[off[n] + Len(edited[n]) + i] = eol[i]
         /\ n < Len(edited) => off[n + 1] = off[n] + Len(edited[n]) + Len(eol)
         /\ n = Len(edited) => L = off[n] + Len(edited[n]) + (IF ended THEN Len(eol) ELSE 0)
<1>1. edited \in Seq(Seq(Chars)) /\ off \in [1 .. Len(edited) -> Nat] /\ eol \in Ends
  BY DEF Buffer
<1>2. edited[n] \in Seq(Chars) /\ off[n] \in Nat
  <2>1. edited[n] \in Seq(Chars)
    BY <1>1, ElementOfSeq
  <2>2. off[n] \in Nat
    BY <1>1
  <2> QED BY <2>1, <2>2
<1>3. Len(edited) \in Nat /\ Len(edited[n]) \in Nat /\ Len(eol) \in Nat
  BY <1>1, <1>2 DEF Ends
<1> QED BY <1>1, <1>2, <1>3 DEF Buffer

(* In the middle of a line, GetLines takes one more character of it. *)
LEMMA InLine ==
  ASSUME LinesTyped, ReadChar, NEW off, NEW eol, NEW L, Buffer(memory, edited, ended, off, eol, L),
         NEW n, NEW j, InText(edited, off, lines, line, pos, n, j), j < Len(edited[n])
  PROVE  InText(edited, off, lines', line', pos', n, j + 1)
<1> DEFINE e == edited[n]
<1>1. n \in 1 .. Len(edited) /\ j \in Nat /\ pos = off[n] + j /\ Len(line) = j
  BY DEF InText
<1>2. /\ e \in Seq(Chars) /\ Len(e) \in Nat /\ off[n] \in Nat
      /\ \A k \in 1 .. Len(e) : memory[off[n] + k] = e[k]
  BY <1>1, BufferLine
<1>3. j + 1 \in 1 .. Len(e)
  BY <1>1, <1>2
<1>4. At(pos) = e[j + 1]
  <2>1. pos + 1 = off[n] + (j + 1)
    BY <1>1, <1>2
  <2> HIDE DEF e
  <2> QED BY <1>2, <1>3, <2>1 DEF At
<1>5. e[j + 1] \in Chars
  <2> HIDE DEF e
  <2> QED BY <1>2, <1>3
<1>6. lines' = lines /\ line' = Append(line, e[j + 1]) /\ pos' = pos + 1
  BY <1>4, <1>5, Plain, ReadLetter
<1>7. line \in Seq(Found) /\ At(pos) \in Found
  <2>1. pos + 1 \in Nat
    BY <1>1, <1>2
  <2> QED BY <2>1 DEF LinesTyped, Found, At
<1>8. Len(line') = j + 1 /\ line'[j + 1] = e[j + 1] /\ \A k \in 1 .. j : line'[k] = line[k]
  <2> DEFINE more == Append(line, At(pos))
  <2>1. line' = more
    BY <1>4, <1>6
  <2>2. /\ Len(more) = Len(line) + 1 /\ more[Len(line) + 1] = At(pos)
        /\ \A k \in 1 .. Len(line) : more[k] = line[k]
    BY <1>7, AppendProperties
  <2> HIDE DEF e, more
  <2> QED BY <1>1, <1>4, <2>1, <2>2
<1>9. pos' = off[n] + (j + 1)
  <2>1. off[n] \in Nat /\ j \in Nat /\ pos = off[n] + j /\ pos' = pos + 1
    BY <1>1, <1>2, <1>6
  <2> HIDE DEF e
  <2> QED BY <2>1
<1>10. \A k \in 1 .. j : line[k] = e[k]
  BY DEF InText
<1>11. \A k \in 1 .. j + 1 : line'[k] = e[k]
  <2>1. \A k \in 1 .. j + 1 : k \in 1 .. j \/ k = j + 1
    BY <1>1
  <2> HIDE DEF e
  <2> QED BY <1>8, <1>10, <2>1
<1>12. j + 1 \in 0 .. Len(e) /\ j + 1 > 0
  BY <1>1, <1>3
<1>13. Len(lines) = n - 1 /\ KeptUpTo(lines, edited, n - 1)
  BY DEF InText
<1> QED BY <1>1, <1>6, <1>8, <1>9, <1>11, <1>12, <1>13 DEF InText

(* Behind a line, it takes the line end and the first character of the next. *)
LEMMA NextLine ==
  ASSUME LinesTyped, ReadChar, NEW off, NEW eol, NEW L, Buffer(memory, edited, ended, off, eol, L),
         Full(edited),
         NEW n, InText(edited, off, lines, line, pos, n, Len(edited[n])), n < Len(edited)
  PROVE  InText(edited, off, lines', line', pos', n + 1, 1)
<1> DEFINE e == edited[n]
           next == edited[n + 1]
<1>1. n \in 1 .. Len(edited) /\ pos = off[n] + Len(e) /\ Len(line) = Len(e)
  BY DEF InText
<1>2. /\ Len(edited) \in Nat /\ Len(e) \in Nat /\ off[n] \in Nat /\ eol \in Ends /\ Len(eol) \in Nat
      /\ \A i \in 1 .. Len(eol) : memory[off[n] + Len(e) + i] = eol[i]
      /\ off[n + 1] = off[n] + Len(e) + Len(eol)
  BY <1>1, BufferLine, SMTT(60)
<1>3. n + 1 \in 1 .. Len(edited) /\ n + 1 \in 2 .. Len(edited)
  BY <1>1, <1>2
<1>4. next \in Seq(Chars) /\ \A k \in 1 .. Len(next) : memory[off[n + 1] + k] = next[k]
  BY <1>3, BufferLine, SMTT(60)
<1>5. 1 \in 1 .. Len(next) /\ next[1] \in Chars
  <2>1. next # <<>>
    BY <1>3 DEF Full
  <2> HIDE DEF next
  <2> QED BY <1>4, <2>1
<1>6. At(pos + Len(eol)) = next[1]
  <2>1. pos + Len(eol) + 1 = off[n + 1] + 1
    BY <1>1, <1>2
  <2> HIDE DEF next
  <2> QED BY <1>4, <1>5, <2>1 DEF At
<1>7. \A i \in 1 .. Len(eol) : memory[pos + i] = eol[i]
  BY <1>1, <1>2
<1>8. pos \in Nat
  BY DEF LinesTyped
<1>9. lines' = Append(lines, line) /\ line' = Append(<<>>, next[1]) /\ pos' = pos + Len(eol) + 1
  <2>1. At(pos + Len(eol)) \notin {CR, LF}
    BY <1>5, <1>6, Plain
  <2> QED BY <1>2, <1>6, <1>7, <1>8, <2>1, ReadEnd
<1>10. Len(line') = 1 /\ line'[1] = next[1]
  <2> HIDE DEF next
  <2> QED BY <1>9
<1>11. pos' = off[n + 1] + 1
  BY <1>1, <1>2, <1>9
<1>12. Len(lines) = n - 1 /\ KeptUpTo(lines, edited, n - 1) /\ \A k \in 1 .. Len(e) : line[k] = e[k]
  BY DEF InText
<1>13. Keeps(line, e)
  BY <1>1, <1>2, <1>12 DEF Keeps
<1>14. KeptUpTo(lines', edited, n) /\ Len(lines') = n
  <2>1. lines \in Seq(Seq(Found)) /\ line \in Seq(Found)
    BY DEF LinesTyped
  <2>2. n - 1 \in Nat /\ (n - 1) + 1 = n
    BY <1>1
  <2> HIDE DEF e
  <2>3. KeptUpTo(Append(lines, line), edited, (n - 1) + 1)
    BY <1>12, <1>13, <2>1, <2>2, KeptGrows DEF e
  <2>4. Len(Append(lines, line)) = (n - 1) + 1
    BY <1>12, <2>1, AppendProperties
  <2> QED BY <1>9, <2>2, <2>3, <2>4
<1>15. (n + 1) - 1 = n /\ 1 \in 0 .. Len(next)
  BY <1>1, <1>5
<1>16. \A k \in 1 .. 1 : line'[k] = next[k]
  BY <1>10
<1> QED BY <1>3, <1>10, <1>11, <1>14, <1>15, <1>16 DEF InText

(* Behind the last line it finds the line end and the zero, or the zero alone. *)
LEMMA LastLine ==
  ASSUME LinesTyped, ReadChar, NEW off, NEW eol, NEW L, Buffer(memory, edited, ended, off, eol, L),
         NEW n, InText(edited, off, lines, line, pos, n, Len(edited[n])), n = Len(edited)
  PROVE  Behind(edited, lines', line') \/ Kept(edited, lines')
<1> DEFINE e == edited[n]
<1>1. n \in 1 .. Len(edited) /\ pos = off[n] + Len(e) /\ Len(line) = Len(e)
  BY DEF InText
<1>2. /\ Len(edited) \in Nat /\ Len(e) \in Nat /\ off[n] \in Nat /\ eol \in Ends /\ Len(eol) \in Nat
      /\ memory[L + 1] = NUL /\ L \in Nat
      /\ L = off[n] + Len(e) + (IF ended THEN Len(eol) ELSE 0)
  BY <1>1, BufferLine
<1>3. ended => \A i \in 1 .. Len(eol) : memory[off[n] + Len(e) + i] = eol[i]
  <2>1. n < Len(edited) \/ ended
          => \A i \in 1 .. Len(eol) : memory[off[n] + Len(edited[n]) + i] = eol[i]
    BY <1>1, BufferLine, SMTT(60)
  <2> QED BY <2>1
<1>4. Len(lines) = n - 1 /\ KeptUpTo(lines, edited, n - 1) /\ \A k \in 1 .. Len(e) : line[k] = e[k]
  BY DEF InText
<1>5. lines \in Seq(Seq(Found)) /\ line \in Seq(Found) /\ pos \in Nat
  BY DEF LinesTyped
<1>6. n - 1 \in Nat /\ (n - 1) + 1 = n
  BY <1>1
<1>7. CASE ended
  <2>1. At(pos + Len(eol)) = NUL
    <3>1. pos + Len(eol) = L
      BY <1>1, <1>2, <1>7
    <3> QED BY <1>2, <3>1 DEF At
  <2>2. \A i \in 1 .. Len(eol) : memory[pos + i] = eol[i]
    BY <1>1, <1>3, <1>7
  <2>3. lines' = Append(lines, line)
    BY <1>2, <1>5, <2>1, <2>2, Marks, ReadEnd
  <2>4. Keeps(line, e)
    BY <1>1, <1>2, <1>4 DEF Keeps
  <2>5. KeptUpTo(Append(lines, line), edited, (n - 1) + 1)
    BY <1>4, <1>5, <1>6, <2>4, KeptGrows
  <2> QED BY <1>6, <2>3, <2>5 DEF Kept
<1>8. CASE ~ended
  <2>1. At(pos) = NUL
    <3>1. pos = L
      BY <1>1, <1>2, <1>8
    <3> QED BY <1>2, <3>1 DEF At
  <2>2. lines' = lines /\ line' = Append(line, NUL)
    BY <2>1, Marks, ReadLetter
  <2>3. NUL \in Found
    <3>1. pos + 1 \in Nat
      BY <1>5
    <3> QED BY <2>1, <3>1 DEF At, Found
  <2>4. /\ Len(line') = Len(e) + 1 /\ line'[Len(e) + 1] = NUL
        /\ \A k \in 1 .. Len(e) : line'[k] = line[k]
    <3> DEFINE more == Append(line, NUL)
    <3>1. /\ Len(more) = Len(line) + 1 /\ more[Len(line) + 1] = NUL
          /\ \A k \in 1 .. Len(line) : more[k] = line[k]
      BY <1>5, <2>3, AppendProperties
    <3> HIDE DEF e, more
    <3> QED BY <1>1, <2>2, <3>1 DEF more
  <2>5. Keeps(line', e) /\ Len(line') > Len(e)
    <3> HIDE DEF e
    <3>1. \A k \in 1 .. Len(e) : line'[k] = e[k]
      BY <1>4, <2>4 DEF e
    <3>2. Len(line') > Len(e) /\ Len(line') >= Len(e)
      BY <1>2, <2>4
    <3> QED BY <2>4, <3>1, <3>2 DEF Keeps
  <2>6. Len(lines') = Len(edited) - 1 /\ KeptUpTo(lines', edited, Len(edited) - 1)
    BY <1>4, <2>2
  <2> QED BY <2>5, <2>6 DEF Behind
<1> QED BY <1>7, <1>8

(* What it reads behind the text comes behind the last line or its zero. *)
LEMMA ReadsBehind ==
  ASSUME LinesTyped, ReadChar, edited \in Seq(Seq(Chars)), edited # <<>>, Behind(edited, lines, line)
  PROVE  Behind(edited, lines', line') \/ Kept(edited, lines')
<1> DEFINE m == Len(edited)
           e == edited[m]
<1>1. m \in 1 .. Len(edited) /\ m - 1 \in Nat /\ (m - 1) + 1 = m
  <2>1. Len(edited) \in Nat /\ Len(edited) # 0
    BY EmptySeq
  <2> QED BY <2>1
<1>2. e \in Seq(Chars) /\ Len(e) \in Nat
  <2>1. e \in Seq(Chars)
    BY <1>1, ElementOfSeq
  <2> QED BY <2>1, LenProperties
<1>3. lines \in Seq(Seq(Found)) /\ line \in Seq(Found)
  BY DEF LinesTyped
<1>4. Len(lines) = m - 1 /\ KeptUpTo(lines, edited, m - 1) /\ Keeps(line, e) /\ Len(line) > Len(e)
  BY DEF Behind
<1>5. KeptUpTo(Append(lines, line), edited, m)
  <2>1. KeptUpTo(Append(lines, line), edited, (m - 1) + 1)
    BY <1>1, <1>3, <1>4, KeptGrows
  <2> QED BY <1>1, <2>1
<1>6. CASE lines' = lines /\ \E x : line' = Append(line, x)
  <2>1. PICK x : line' = Append(line, x)
    BY <1>6
  <2> DEFINE S == Found \cup {x}
             more == Append(line, x)
  <2>2. line \in Seq(S)
    BY <1>3, SeqMonotonic
  <2>3. Len(more) = Len(line) + 1 /\ \A k \in 1 .. Len(line) : more[k] = line[k]
    BY <2>2, AppendProperties
  <2>4. Len(line) \in Nat
    BY <1>3
  <2> HIDE DEF e, more
  <2>5. Len(line) > Len(e) /\ line[Len(e) + 1] = NUL /\ \A k \in 1 .. Len(e) : line[k] = e[k]
    BY <1>4 DEF Keeps
  <2>6. Len(e) + 1 \in 1 .. Len(line) /\ \A k \in 1 .. Len(e) : k \in 1 .. Len(line)
    BY <1>2, <2>4, <2>5
  <2>7. more[Len(e) + 1] = NUL /\ \A k \in 1 .. Len(e) : more[k] = e[k]
    BY <2>3, <2>5, <2>6
  <2>8. Len(more) > Len(e) /\ Len(more) >= Len(e)
    BY <1>2, <2>3, <2>4, <2>5
  <2>9. Keeps(more, e)
    BY <2>7, <2>8 DEF Keeps
  <2> QED BY <1>4, <1>6, <2>1, <2>8, <2>9 DEF Behind, e, more
<1>7. CASE lines' = Append(lines, line)
  BY <1>5, <1>7 DEF Kept
<1>8. CASE lines' = Append(Append(lines, line), <<>>)
  <2>1. Append(lines, line) \in Seq(Seq(Found)) /\ <<>> \in Seq(Found)
    BY <1>3, AppendProperties
  <2>2. KeptUpTo(Append(Append(lines, line), <<>>), edited, m)
    <3>1. m \in Nat
      BY <1>1
    <3> HIDE DEF m
    <3> QED BY <1>5, <2>1, <3>1, KeptGrows
  <2> QED BY <1>8, <2>2 DEF Kept
<1> QED BY <1>6, <1>7, <1>8, ReadAny

(* Further lines leave those before them alone. *)
LEMMA ReadsOn ==
  ASSUME LinesTyped, ReadChar, Kept(edited, lines), Len(edited) \in Nat
  PROVE  Kept(edited, lines')
<1>1. lines \in Seq(Seq(Found)) /\ line \in Seq(Found) /\ KeptUpTo(lines, edited, Len(edited))
  BY DEF LinesTyped, Kept
<1>2. Append(lines, line) \in Seq(Seq(Found)) /\ <<>> \in Seq(Found)
  BY <1>1, AppendProperties
<1>3. KeptUpTo(Append(lines, line), edited, Len(edited))
  BY <1>1, KeptGrows
<1>4. KeptUpTo(Append(Append(lines, line), <<>>), edited, Len(edited))
  BY <1>2, <1>3, KeptGrows
<1> QED BY <1>1, <1>3, <1>4, ReadAny DEF Kept

-----------------------------------------------------------------------------
(* The text that was saved. *)
Signs == Chars \cup {CR, LF}

WithEnds(es, eol) == [n \in 1 .. Len(es) |-> es[n] \o eol]

LEMMA LineWithEnd ==
  ASSUME NEW es \in Seq(Seq(Chars)), NEW eol \in Ends, NEW n \in 1 .. Len(es)
  PROVE  LET s == WithEnds(es, eol)[n]
         IN  /\ s \in Seq(Signs) /\ Len(s) = Len(es[n]) + Len(eol)
             /\ \A j \in 1 .. Len(es[n]) : s[j] = es[n][j]
             /\ \A i \in 1 .. Len(eol) : s[Len(es[n]) + i] = eol[i]
<1> DEFINE e == es[n]
<1>1. e \in Seq(Chars)
  BY ElementOfSeq
<1>2. e \in Seq(Signs)
  BY <1>1, SeqMonotonic DEF Signs
<1>3. eol \in Seq(Signs)
  <2>1. CR \in Signs /\ LF \in Signs
    BY DEF Signs
  <2>2. eol = <<CR, LF>> \/ eol = <<LF>>
    BY DEF Ends
  <2>3. <<CR, LF>> \in Seq(Signs) /\ <<LF>> \in Seq(Signs)
    <3> HIDE DEF e
    <3> QED BY <2>1
  <2> QED BY <2>2, <2>3
<1>4. WithEnds(es, eol)[n] = e \o eol
  BY DEF WithEnds
<1> HIDE DEF e
<1>5. /\ e \o eol \in Seq(Signs) /\ Len(e \o eol) = Len(e) + Len(eol)
      /\ \A i \in 1 .. Len(e) + Len(eol) : (e \o eol)[i] = IF i <= Len(e) THEN e[i] ELSE eol[i - Len(e)]
  BY <1>2, <1>3, ConcatProperties
<1>6. Len(e) \in Nat /\ Len(eol) \in Nat
  BY <1>2, <1>3, LenProperties
<1>7. \A j \in 1 .. Len(e) : (e \o eol)[j] = e[j]
  BY <1>5, <1>6
<1>8. \A i \in 1 .. Len(eol) : (e \o eol)[Len(e) + i] = eol[i]
  BY <1>5, <1>6
<1> QED BY <1>4, <1>5, <1>7, <1>8 DEF e

(* What FlattenSeq makes of n sequences. *)
LEMMA FlattenIs ==
  ASSUME NEW s, NEW n \in Nat \ {0}, Len(s) = n
  PROVE  \E f : Flat(s, f, n) /\ FlattenSeq(s) = f[n]
<1> DEFINE g == CHOOSE h : Flat(s, h, n)
<1>1. Flat(s, g, n)
  BY FlatExists
<1>2. FlattenSeq(s) = g[n]
  BY DEF FlattenSeq, Flat
<1> HIDE DEF g
<1> QED BY <1>1, <1>2

(* All lines but the last, one behind the other. *)
LEMMA FrontLines ==
  ASSUME NEW es \in Seq(Seq(Chars)), NEW m \in Nat, m = Len(es), m > 0, NEW eol \in Ends,
         NEW f, Flat(WithEnds(es, eol), f, m)
  PROVE  LET t == Lines(Front(es), eol)
         IN  t \in Seq(Signs) /\ Len(t) = Start(f, m) /\ \A j \in 1 .. Start(f, m) : t[j] = f[m][j]
<1> DEFINE fr == Front(es)
           s == WithEnds(fr, eol)
           t == Lines(fr, eol)
<1>1. /\ fr \in Seq(Seq(Chars)) /\ Len(fr) = m - 1 /\ m - 1 \in Nat
      /\ \A k \in 1 .. m - 1 : fr[k] = es[k]
  <2>1. \A k \in 1 .. m - 1 : es[k] \in Seq(Chars)
    BY ElementOfSeq
  <2>2. 1 \in Int /\ m - 1 \in Int /\ fr = SubSeq(es, 1, m - 1) /\ m - 1 \in Nat
    BY DEF Front
  <2>3. /\ SubSeq(es, 1, m - 1) \in Seq(Seq(Chars))
        /\ Len(SubSeq(es, 1, m - 1)) = IF 1 <= m - 1 THEN (m - 1) - 1 + 1 ELSE 0
        /\ \A k \in 1 .. (m - 1) - 1 + 1 : SubSeq(es, 1, m - 1)[k] = es[1 + k - 1]
    BY <2>1, <2>2, SubSeqProperties
  <2> HIDE DEF fr
  <2>4. Len(fr) = m - 1
    BY <2>2, <2>3
  <2>5. \A k \in 1 .. m - 1 : k \in 1 .. (m - 1) - 1 + 1 /\ 1 + k - 1 = k
    OBVIOUS
  <2> QED BY <2>2, <2>3, <2>4, <2>5
<1>2. t = FlattenSeq(s)
  BY DEF Lines, WithEnds
<1>3. s = [n \in 1 .. m - 1 |-> fr[n] \o eol]
  BY <1>1 DEF WithEnds
<1>4. Len(s) = m - 1
  BY <1>1, <1>3
<1>5. CASE m = 1
  <2>1. s = <<>>
    <3> HIDE DEF fr
    <3> QED BY <1>3, <1>5
  <2>2. t = <<>>
    <3> HIDE DEF s, t
    <3> QED BY <1>2, <2>1 DEF FlattenSeq
  <2>3. Start(f, m) = 0
    BY <1>5 DEF Start
  <2> HIDE DEF t, fr, s
  <2>4. t \in Seq(Signs) /\ Len(t) = 0
    BY <2>2
  <2>5. Lines(Front(es), eol) = t
    BY DEF t, fr
  <2> QED BY <2>3, <2>4, <2>5
<1>6. CASE m > 1
  <2>1. PICK g : Flat(s, g, m - 1) /\ FlattenSeq(s) = g[m - 1]
    <3>1. m - 1 \in Nat \ {0}
      BY <1>6
    <3> HIDE DEF s
    <3> QED BY <1>4, <3>1, FlattenIs
  <2>2. t = g[m - 1]
    <3> HIDE DEF s, t
    <3> QED BY <1>2, <2>1
  <2>3. \A k \in 1 .. m - 1 : s[k] = WithEnds(es, eol)[k]
    <3> TAKE k \in 1 .. m - 1
    <3>1. k \in 1 .. Len(es) /\ fr[k] = es[k] /\ s[k] = fr[k] \o eol
      <4> HIDE DEF fr, s, t
      <4>1. k \in 1 .. Len(es)
        OBVIOUS
      <4>2. fr[k] = es[k]
        BY <1>1
      <4>3. s[k] = fr[k] \o eol
        BY <1>3
      <4> QED BY <4>1, <4>2, <4>3
    <3> QED BY <3>1 DEF WithEnds
  <2>4. \A k \in 1 .. m - 1 : g[k] = f[k]
    <3> DEFINE all == WithEnds(es, eol)
    <3>1. m - 1 \in Nat /\ m - 1 <= m
      BY <1>1
    <3>2. Flat(all, f, m) /\ \A k \in 1 .. m - 1 : s[k] = all[k]
      BY <2>3
    <3> HIDE DEF fr, s, t, all
    <3>3. PICK n \in Nat : n = m - 1
      BY <3>1
    <3>4. n <= m /\ Flat(s, g, n) /\ \A k \in 1 .. n : s[k] = all[k]
      BY <2>1, <3>1, <3>2, <3>3
    <3>5. \A k \in 1 .. n : g[k] = f[k]
      BY <3>2, <3>4, FlatSame, SMTT(60)
    <3> QED BY <3>3, <3>5
  <2>5. t = f[m - 1] /\ Start(f, m) = Len(f[m - 1]) /\ m - 1 \in 1 .. m /\ m \in 1 .. m
    <3>1. m - 1 \in 1 .. m - 1
      BY <1>6
    <3> HIDE DEF t
    <3> QED BY <1>6, <2>2, <2>4, <3>1 DEF Start
  <2>6. Pieces(Signs, WithEnds(es, eol), m)
    BY LineWithEnd DEF Pieces
  <2>7. f[m - 1] \in Seq(Signs)
    <3> DEFINE all == WithEnds(es, eol)
    <3>1. \A k \in 1 .. m : all[k] \in Seq(Signs)
      BY <2>6 DEF Pieces
    <3> HIDE DEF all, t, s, fr
    <3> QED BY <2>5, <3>1, FlatType DEF all
  <2>8. \A j \in 1 .. Start(f, m) : f[m][j] = f[m - 1][j]
    <3> DEFINE all == WithEnds(es, eol)
    <3> HIDE DEF all, t, s, fr
    <3> QED BY <2>5, <2>6, FlatStep, SMTT(60) DEF all
  <2>9. Lines(Front(es), eol) = t
    OBVIOUS
  <2> HIDE DEF t, s, fr
  <2> QED BY <2>5, <2>7, <2>8, <2>9
<1> QED BY <1>5, <1>6

(* The text is the head of all the lines with their ends. *)
LEMMA SavedIsHead ==
  ASSUME NEW es \in Seq(Seq(Chars)), NEW m \in Nat, m = Len(es), m > 0, NEW eol \in Ends,
         NEW whole \in BOOLEAN, NEW f, Flat(WithEnds(es, eol), f, m)
  PROVE  LET t == Saved(es, eol, whole)
             L == Start(f, m) + Len(es[m]) + (IF whole THEN Len(eol) ELSE 0)
         IN  t \in Seq(Signs) /\ Len(t) = L /\ \A k \in 1 .. L : t[k] = f[m][k]
<1> DEFINE t == Saved(es, eol, whole)
           s == WithEnds(es, eol)
           e == es[m]
           a == Start(f, m)
<1>1. m \in 1 .. Len(es) /\ m \in 1 .. m
  OBVIOUS
<1>2. /\ e \in Seq(Chars)
      /\ s[m] \in Seq(Signs) /\ Len(s[m]) = Len(e) + Len(eol)
      /\ \A j \in 1 .. Len(e) : s[m][j] = e[j]
  BY <1>1, LineWithEnd, ElementOfSeq
<1>3. Pieces(Signs, s, m)
  BY LineWithEnd DEF Pieces
<1>4. /\ a \in Nat /\ Len(f[m]) = a + Len(s[m])
      /\ \A j \in 1 .. Len(s[m]) : f[m][a + j] = s[m][j]
  <2>1. Flat(s, f, m)
    OBVIOUS
  <2> HIDE DEF s, e
  <2> QED BY <1>1, <1>3, <2>1, FlatStep
<1>5. f[m] \in Seq(Signs)
  <2>1. Flat(s, f, m) /\ \A k \in 1 .. m : s[k] \in Seq(Signs)
    BY <1>3 DEF Pieces
  <2> HIDE DEF s
  <2> QED BY <1>1, <2>1, FlatType
<1>6. Len(e) \in Nat /\ Len(eol) \in Nat
  BY <1>2 DEF Ends
<1>7. CASE whole
  <2>1. Len(s) = m
    BY DEF WithEnds
  <2>2. t = FlattenSeq(s)
    BY <1>7 DEF Saved, Lines, WithEnds
  <2>3. t = f[m]
    <3> DEFINE h == CHOOSE g : Flat(s, g, m)
    <3>1. Flat(s, f, m)
      OBVIOUS
    <3>2. h = f
      <4>1. Flat(s, h, m)
        <5> HIDE DEF s
        <5> QED BY <3>1
      <4>2. \A k \in 1 .. m : h[k] = f[k]
        <5>1. m <= m /\ \A k \in 1 .. m : s[k] = s[k]
          OBVIOUS
        <5> HIDE DEF s, h
        <5> QED BY <3>1, <4>1, <5>1, FlatSame
      <4>3. h = [k \in 1 .. m |-> h[k]] /\ f = [k \in 1 .. m |-> f[k]]
        <5> HIDE DEF s, h
        <5> QED BY <3>1, <4>1 DEF Flat
      <4> HIDE DEF h
      <4> QED BY <4>2, <4>3
    <3>3. FlattenSeq(s) = h[m]
      <4> HIDE DEF s
      <4> QED BY <2>1 DEF FlattenSeq, Flat
    <3> HIDE DEF h, s, t
    <3> QED BY <2>2, <3>2, <3>3
  <2>4. Len(f[m]) = a + Len(e) + Len(eol)
    <3> HIDE DEF a, e, s, t
    <3> QED BY <1>2, <1>4, <1>6
  <2> HIDE DEF t, s, a, e
  <2> QED BY <1>5, <1>7, <2>3, <2>4 DEF t, a, e
<1>8. CASE ~whole
  <2> DEFINE head == Lines(Front(es), eol)
  <2>1. head \in Seq(Signs) /\ Len(head) = a /\ \A j \in 1 .. a : head[j] = f[m][j]
    <3> HIDE DEF s, t, e
    <3> QED BY FrontLines, SMTT(30)
  <2>2. es # <<>>
    OBVIOUS
  <2>3. t = head \o e
    BY <1>8, <2>2 DEF Saved, Last
  <2>4. e \in Seq(Signs)
    BY <1>2, SeqMonotonic DEF Signs
  <2> HIDE DEF t, s, a, e, head
  <2>5. /\ t \in Seq(Signs) /\ Len(t) = Len(head) + Len(e)
        /\ \A i \in 1 .. Len(head) + Len(e) : t[i] = IF i <= Len(head) THEN head[i] ELSE e[i - Len(head)]
    BY <2>1, <2>3, <2>4, ConcatProperties
  <2>6. \A k \in 1 .. a + Len(e) : t[k] = f[m][k]
    <3> TAKE k \in 1 .. a + Len(e)
    <3>1. CASE k <= a
      BY <1>4, <1>6, <2>1, <2>5, <3>1
    <3>2. CASE k > a
      <4>1. k - a \in 1 .. Len(e) /\ a + (k - a) = k /\ k - a \in 1 .. Len(s[m])
        BY <1>2, <1>4, <1>6, <3>2
      <4>2. t[k] = e[k - a]
        BY <1>4, <1>6, <2>1, <2>5, <3>2
      <4> QED BY <1>2, <1>4, <4>1, <4>2
    <3> QED BY <1>4, <1>6, <3>1, <3>2
  <2>7. Len(t) = a + Len(e) + 0
    BY <1>4, <1>6, <2>1, <2>5
  <2> QED BY <1>4, <1>6, <1>8, <2>5, <2>6, <2>7 DEF t, a, e
<1> QED BY <1>7, <1>8

(* The file stands in the buffer with a zero behind it. *)
LEMMA HeapHolds ==
  ASSUME NEW t, NEW L \in Nat, L = Len(t), NEW g
  PROVE  Heap(t, g)[L + 1] = NUL /\ \A k \in 1 .. L : Heap(t, g)[k] = t[k]
<1>1. L + 1 <= 2 * ((2 * L + 4) \div 4)
  <2>1. PICK q \in Nat : q = (2 * L + 4) \div 4
    OBVIOUS
  <2>2. 4 * q > 2 * L + 4 - 4
    BY <2>1
  <2> QED BY <2>1, <2>2
<1>2. Allocated(t) = 2 * ((2 * L + 4) \div 4) /\ Bytes(t) + 3 = 2 * L + 3
  BY DEF Allocated, Bytes
<1>3. L + 1 \in 1 .. 2 * L + 3 /\ \A k \in 1 .. L : k \in 1 .. 2 * L + 3
  OBVIOUS
<1>4. L + 1 <= Allocated(t) /\ ~(L + 1 <= L)
  BY <1>1, <1>2
<1>5. Heap(t, g) = [k \in 1 .. 2 * L + 3 |->
                      IF k <= L THEN t[k] ELSE IF k <= Allocated(t) THEN NUL ELSE g[1 + (k % 2)]]
  BY <1>2 DEF Heap
<1> QED BY <1>3, <1>4, <1>5

LEMMA TextsTyped == Texts \subseteq Seq(Seq(Chars))
<1>1. UpTo(Chars, MaxLength) \subseteq Seq(Chars)
  BY RepackAssumption DEF UpTo
<1>2. UpTo(Seq(Chars), MaxStrings) \subseteq Seq(Seq(Chars))
  BY RepackAssumption DEF UpTo
<1>3. Texts \subseteq UpTo(Seq(Chars), MaxStrings)
  BY <1>1 DEF Texts, UpTo
<1> QED BY <1>2, <1>3

(* The file as it was saved is such a buffer. *)
LEMMA InitBuffer ==
  ASSUME Init, edited # <<>>
  PROVE  \E off, eol : Buffer(memory, edited, ended, off, eol, Len(text))
<1>1. edited \in Seq(Seq(Chars)) /\ ended \in BOOLEAN
  <2>1. edited \in Seq(Seq(Chars))
    BY TextsTyped DEF Init
  <2>2. ended \in BOOLEAN
    BY DEF Init
  <2> QED BY <2>1, <2>2
<1>2. PICK eol \in Ends : text = Saved(edited, eol, ended)
  BY DEF Init, Ends
<1>3. PICK g : memory = Heap(text, g)
  BY DEF Init
<1>4. PICK m \in Nat : m = Len(edited)
  BY <1>1, LenProperties
<1>5. m > 0
  BY <1>1, <1>4, EmptySeq
<1> DEFINE s == WithEnds(edited, eol)
<1>6. PICK f : Flat(s, f, m)
  <2> HIDE DEF s
  <2> QED BY <1>4, FlatExists
<1> DEFINE off == [n \in 1 .. m |-> Start(f, n)]
           e == edited[m]
           L == Start(f, m) + Len(e) + (IF ended THEN Len(eol) ELSE 0)
<1>7. text \in Seq(Signs) /\ Len(text) = L /\ \A k \in 1 .. L : text[k] = f[m][k]
  BY <1>1, <1>2, <1>4, <1>5, <1>6, SavedIsHead
<1>8. L \in Nat
  <2> HIDE DEF L
  <2> QED BY <1>7, LenProperties
<1>9. memory[L + 1] = NUL /\ \A k \in 1 .. L : memory[k] = f[m][k]
  <2> HIDE DEF L
  <2> QED BY <1>3, <1>7, <1>8, HeapHolds
<1>10. Len(eol) \in Nat /\ Len(eol) > 0
  BY DEF Ends
<1>11. Pieces(Signs, s, m)
  BY <1>1, <1>4, LineWithEnd DEF Pieces
<1>12. ASSUME NEW n \in 1 .. m
       PROVE  /\ edited[n] \in Seq(Chars) /\ Len(edited[n]) \in Nat /\ Start(f, n) \in Nat
              /\ \A j \in 1 .. Len(edited[n]) : f[m][Start(f, n) + j] = edited[n][j]
              /\ \A i \in 1 .. Len(eol) : f[m][Start(f, n) + Len(edited[n]) + i] = eol[i]
              /\ Start(f, n) + Len(edited[n]) + Len(eol) <= Len(f[m])
              /\ n < m => Start(f, n + 1) = Start(f, n) + Len(edited[n]) + Len(eol)
  <2> DEFINE c == edited[n]
             b == Start(f, n)
  <2>1. /\ c \in Seq(Chars)
        /\ Len(s[n]) = Len(c) + Len(eol)
        /\ \A j \in 1 .. Len(c) : s[n][j] = c[j]
        /\ \A i \in 1 .. Len(eol) : s[n][Len(c) + i] = eol[i]
    BY <1>1, <1>4, LineWithEnd, ElementOfSeq
  <2> HIDE DEF s
  <2>2. /\ b \in Nat /\ b + Len(s[n]) <= Len(f[m])
        /\ n < m => Start(f, n + 1) = b + Len(s[n])
        /\ \A j \in 1 .. Len(s[n]) : f[m][b + j] = s[n][j]
    BY <1>4, <1>6, <1>11, FlatPlaces
  <2>3. Len(c) \in Nat
    BY <2>1, LenProperties
  <2> HIDE DEF b, c
  <2>4. \A j \in 1 .. Len(c) : f[m][b + j] = c[j]
    <3> TAKE j \in 1 .. Len(c)
    <3>1. j \in 1 .. Len(s[n])
      BY <1>10, <2>1, <2>3
    <3> QED BY <2>1, <2>2, <3>1
  <2>5. \A i \in 1 .. Len(eol) : f[m][b + Len(c) + i] = eol[i]
    <3> TAKE i \in 1 .. Len(eol)
    <3>1. Len(c) + i \in 1 .. Len(s[n]) /\ b + Len(c) + i = b + (Len(c) + i)
      BY <1>10, <2>1, <2>2, <2>3
    <3> QED BY <2>1, <2>2, <3>1
  <2>6. b + Len(c) + Len(eol) <= Len(f[m]) /\ (n < m => Start(f, n + 1) = b + Len(c) + Len(eol))
    BY <1>10, <2>1, <2>2, <2>3
  <2> QED BY <2>1, <2>2, <2>3, <2>4, <2>5, <2>6 DEF b, c
<1>13. m \in 1 .. m
  BY <1>5
<1>14. L > 0
  <2>1. CASE ended
    <3>1. L = Start(f, m) + Len(e) + Len(eol)
      BY <2>1
    <3> HIDE DEF L
    <3> QED BY <1>10, <1>12, <1>13, <3>1
  <2>2. CASE ~ended
    <3>1. e # <<>>
      BY <1>4, <2>2 DEF Init, Last
    <3>2. e \in Seq(Chars) /\ Start(f, m) \in Nat
      BY <1>12, <1>13
    <3>3. Len(e) \in Nat \ {0}
      <4> HIDE DEF e
      <4> QED BY <3>1, <3>2, EmptySeq
    <3>4. L = Start(f, m) + Len(e) + 0
      BY <2>2
    <3> HIDE DEF L, e
    <3> QED BY <3>2, <3>3, <3>4
  <2> QED BY <1>1, <2>1, <2>2
(* A line ends before the text does. *)
<1>15. ASSUME NEW n \in 1 .. m
       PROVE  /\ Start(f, n) + Len(edited[n]) <= L
              /\ n < m \/ ended => Start(f, n) + Len(edited[n]) + Len(eol) <= L
              /\ n = m => L = Start(f, n) + Len(edited[n]) + (IF ended THEN Len(eol) ELSE 0)
  <2>1. CASE n = m
    BY <1>10, <1>12, <2>1
  <2>2. CASE n < m
    <3>1. Start(f, m) <= L
      BY <1>10, <1>12, <1>13
    <3>2. n \in 1 .. m - 1 /\ n + 1 \in 1 .. m /\ m \in n + 1 .. m
      BY <2>2
    <3>3. Start(f, n + 1) <= Start(f, m)
      <4>1. CASE n + 1 = m
        BY <1>12, <1>13, <4>1
      <4>2. CASE n + 1 # m
        <5>1. n \in 1 .. m /\ m - 1 \in n .. m
          BY <2>2
        <5>2. Len(f[n]) <= Len(f[m - 1])
          <6> HIDE DEF s
          <6> QED BY <1>4, <1>6, <1>11, <5>1, FlatStays
        <5>3. Start(f, n + 1) = Len(f[n]) /\ Start(f, m) = Len(f[m - 1])
          BY <2>2 DEF Start
        <5> QED BY <5>2, <5>3
      <4> QED BY <4>1, <4>2
    <3>4. Start(f, n + 1) = Start(f, n) + Len(edited[n]) + Len(eol)
      BY <1>12, <2>2
    <3>5. Start(f, n) \in Nat /\ Len(edited[n]) \in Nat /\ Start(f, m) \in Nat
      BY <1>12, <1>13
    <3> HIDE DEF L
    <3> QED BY <1>8, <1>10, <2>2, <3>1, <3>3, <3>4, <3>5
  <2> QED BY <2>1, <2>2
<1> DEFINE Laid(n) == /\ off[n] + Len(edited[n]) <= L
                      /\ \A j \in 1 .. Len(edited[n]) : memory[off[n] + j] = edited[n][j]
                      /\ n < m \/ ended
                           => \A i \in 1 .. Len(eol) : memory[off[n] + Len(edited[n]) + i] = eol[i]
                      /\ n < m => off[n + 1] = off[n] + Len(edited[n]) + Len(eol)
                      /\ n = m => L = off[n] + Len(edited[n]) + (IF ended THEN Len(eol) ELSE 0)
<1>16. \A n \in 1 .. m : Laid(n)
  <2> TAKE n \in 1 .. m
  <2>1. off[n] = Start(f, n) /\ (n < m => n + 1 \in 1 .. m /\ off[n + 1] = Start(f, n + 1))
    OBVIOUS
  <2> DEFINE b == off[n]
             c == edited[n]
  <2>2. b \in Nat /\ Len(c) \in Nat
    BY <1>12, <2>1
  <2>3. b + Len(c) <= L /\ (n < m \/ ended => b + Len(c) + Len(eol) <= L)
    BY <1>15, <2>1
  <2>4. /\ \A j \in 1 .. Len(c) : f[m][b + j] = c[j]
        /\ \A i \in 1 .. Len(eol) : f[m][b + Len(c) + i] = eol[i]
    BY <1>12, <2>1
  <2>5. \A j \in 1 .. Len(c) : memory[b + j] = c[j]
    <3> HIDE DEF b, c, L
    <3>1. \A j \in 1 .. Len(c) : b + j \in 1 .. L
      BY <1>8, <2>2, <2>3
    <3> QED BY <1>9, <2>4, <3>1
  <2>6. n < m \/ ended => \A i \in 1 .. Len(eol) : memory[b + Len(c) + i] = eol[i]
    <3> HIDE DEF b, c, L
    <3> SUFFICES ASSUME n < m \/ ended, NEW i \in 1 .. Len(eol)
                 PROVE  memory[b + Len(c) + i] = eol[i]
      OBVIOUS
    <3>1. b + Len(c) + i \in 1 .. L
      BY <1>8, <1>10, <2>2, <2>3
    <3> QED BY <1>9, <2>4, <3>1
  <2>7. n < m => off[n + 1] = b + Len(c) + Len(eol)
    BY <1>12, <2>1
  <2>8. n = m => L = b + Len(c) + (IF ended THEN Len(eol) ELSE 0)
    BY <1>15, <2>1
  <2> HIDE DEF L, off
  <2> QED BY <2>3, <2>5, <2>6, <2>7, <2>8
<1>17. off \in [1 .. m -> Nat] /\ off[1] = 0
  BY <1>12, <1>13 DEF Start
<1> HIDE DEF off, L, s, e
<1>18. Buffer(memory, edited, ended, off, eol, L)
  BY <1>1, <1>4, <1>8, <1>9, <1>14, <1>16, <1>17 DEF Buffer
<1> QED BY <1>7, <1>18

-----------------------------------------------------------------------------
(* wcscpy cuts what was read behind the text. *)
LEMMA UpToNulKeeps ==
  ASSUME NEW S, NEW s \in Seq(S), NEW e \in Seq(Chars), Keeps(s, e)
  PROVE  UpToNul(s) = e
<1> DEFINE T == S \cup Chars
<1>1. s \in Seq(T) /\ e \in Seq(T)
  BY SeqMonotonic
<1>2. PICK n \in Nat : n = Len(e)
  BY LenProperties
<1>3. Len(s) \in Nat
  BY LenProperties
<1>4. \A k \in 1 .. n : e[k] # NUL
  <2> TAKE k \in 1 .. n
  <2>1. e[k] \in Chars
    BY <1>2, ElementOfSeq
  <2> QED BY <2>1, Plain
<1>5. \A k \in 1 .. n : s[k] = e[k]
  BY <1>2 DEF Keeps
<1>6. CASE Len(s) = n
  <2>1. s = e
    <3> HIDE DEF T
    <3> QED BY <1>1, <1>2, <1>5, <1>6, SeqEqual
  <2>2. ~Contains(s, NUL)
    BY <1>4, <1>5, <1>6 DEF Contains
  <2> QED BY <2>1, <2>2 DEF UpToNul
<1>7. CASE Len(s) # n
  <2> DEFINE First(k) == s[k] = NUL /\ \A j \in 1 .. k - 1 : s[j] # NUL
             at == CHOOSE k \in DOMAIN s : First(k)
  <2>1. Len(s) > n /\ s[n + 1] = NUL /\ n + 1 \in 1 .. Len(s)
    BY <1>2, <1>3, <1>7 DEF Keeps
  <2>2. First(n + 1) /\ n + 1 \in DOMAIN s
    <3>1. \A j \in 1 .. n : s[j] # NUL
      BY <1>4, <1>5
    <3>2. (n + 1) - 1 = n
      OBVIOUS
    <3>3. First(n + 1)
      BY <2>1, <3>1, <3>2
    <3> QED BY <2>1, <3>3
  <2>3. \A k \in DOMAIN s : First(k) => k = n + 1
    <3> SUFFICES ASSUME NEW k \in 1 .. Len(s), First(k)
                 PROVE  k = n + 1
      OBVIOUS
    <3>1. ~(k <= n)
      BY <1>4, <1>5
    <3>2. ~(k > n + 1)
      <4> SUFFICES ASSUME k > n + 1
                   PROVE  FALSE
        OBVIOUS
      <4>1. n + 1 \in 1 .. k - 1
        OBVIOUS
      <4> QED BY <2>1, <4>1
    <3> QED BY <3>1, <3>2
  <2>4. at = n + 1
    <3> HIDE DEF First
    <3> QED BY <2>2, <2>3
  <2>5. UpToNul(s) = SubSeq(s, 1, n)
    <3>1. Contains(s, NUL)
      BY <2>1 DEF Contains
    <3>2. UpToNul(s) = SubSeq(s, 1, at - 1)
      BY <3>1 DEF UpToNul
    <3>3. at - 1 = n
      <4> HIDE DEF at
      <4> QED BY <2>4
    <3> HIDE DEF at
    <3> QED BY <3>2, <3>3
  <2>6. \A k \in 1 .. n : s[k] \in T
    <3> HIDE DEF T
    <3> QED BY <1>1, <2>1, ElementOfSeq
  <2> DEFINE head == SubSeq(s, 1, n)
  <2>7. /\ head \in Seq(T)
        /\ Len(head) = IF 1 <= n THEN n - 1 + 1 ELSE 0
        /\ \A k \in 1 .. n - 1 + 1 : head[k] = s[1 + k - 1]
    <3> HIDE DEF T
    <3> QED BY <2>6, SubSeqProperties
  <2>8. Len(head) = n
    <3> HIDE DEF head, T
    <3> QED BY <2>7
  <2>9. \A k \in 1 .. n : head[k] = e[k]
    <3> TAKE k \in 1 .. n
    <3>1. k \in 1 .. n - 1 + 1 /\ 1 + k - 1 = k
      OBVIOUS
    <3> HIDE DEF head, T
    <3> QED BY <1>5, <2>7, <3>1
  <2>10. head = e
    <3> HIDE DEF head, T
    <3> QED BY <1>1, <1>2, <2>7, <2>8, <2>9, SeqEqual
  <2> QED BY <2>5, <2>10
<1> QED BY <1>6, <1>7

-----------------------------------------------------------------------------
(* Where GetLines is, in the text or behind it. *)
Reading(off) ==
  \/ \E n, j : InText(edited, off, lines, line, pos, n, j)
  \/ Behind(edited, lines, line)
  \/ Kept(edited, lines)

EditInv ==
  /\ edited \in Seq(Seq(Chars)) /\ Len(edited) <= Len(strings)
  /\ Full(edited) =>
       /\ phase = "lines" => \E off, eol : Buffer(memory, edited, ended, off, eol, Len(text)) /\ Reading(off)
       /\ phase = "match" => Kept(edited, lines)
       /\ phase \in {"write", "written"} => \A n \in 1 .. Len(edited) : new[n] = <<edited[n]>>

LEMMA InitEdit == Init => EditInv
<1> SUFFICES ASSUME Init PROVE EditInv
  OBVIOUS
<1>1. edited \in Seq(Seq(Chars)) /\ Len(edited) <= Len(strings)
  BY TextsTyped DEF Init
<1>2. phase = "lines" /\ pos = 0 /\ line = <<>> /\ lines = <<>>
  BY DEF Init
<1>3. ASSUME Full(edited)
      PROVE  \E off, eol : Buffer(memory, edited, ended, off, eol, Len(text)) /\ Reading(off)
  <2>1. edited # <<>>
    BY <1>3 DEF Full
  <2>2. PICK off, eol : Buffer(memory, edited, ended, off, eol, Len(text))
    BY <2>1, InitBuffer
  <2>3. 1 \in 1 .. Len(edited)
    BY <1>1, <2>1
  <2>4. edited[1] \in Seq(Chars) /\ Len(edited[1]) \in Nat
    BY <1>1, <2>3
  <2>5. off[1] = 0
    BY <2>2 DEF Buffer
  <2>6. KeptUpTo(lines, edited, 1 - 1)
    BY <1>2 DEF KeptUpTo
  <2>7. InText(edited, off, lines, line, pos, 1, 0)
    BY <1>2, <2>3, <2>4, <2>5, <2>6 DEF InText
  <2> QED BY <2>2, <2>7 DEF Reading
<1> QED BY <1>1, <1>2, <1>3 DEF EditInv

LEMMA ReadEdit == LinesTyped /\ EditInv /\ ReadChar => EditInv'
<1> SUFFICES ASSUME LinesTyped, EditInv, ReadChar
             PROVE  EditInv'
  OBVIOUS
<1>1. UNCHANGED <<strings, edited, ended, text, memory>> /\ phase = "lines" /\ phase' = "lines"
  BY DEF ReadChar, file
<1>2. edited \in Seq(Seq(Chars)) /\ Len(edited) <= Len(strings) /\ Len(edited) \in Nat
  BY DEF EditInv
<1>3. ASSUME Full(edited)
      PROVE  \E off, eol : Buffer(memory, edited, ended, off, eol, Len(text)) /\ Reading(off)'
  <2>1. PICK off, eol : Buffer(memory, edited, ended, off, eol, Len(text)) /\ Reading(off)
    BY <1>1, <1>3 DEF EditInv
  <2>2. CASE \E n, j : InText(edited, off, lines, line, pos, n, j)
    <3>1. PICK n, j : InText(edited, off, lines, line, pos, n, j)
      BY <2>2
    <3>2. n \in 1 .. Len(edited) /\ j \in 0 .. Len(edited[n])
      BY <3>1 DEF InText
    <3>3. Len(edited[n]) \in Nat
      BY <2>1, <3>2, BufferLine
    <3>4. CASE j < Len(edited[n])
      <4>1. InText(edited, off, lines', line', pos', n, j + 1)
        BY <2>1, <3>1, <3>4, InLine
      <4> QED BY <1>1, <2>1, <4>1 DEF Reading
    <3>5. CASE j = Len(edited[n]) /\ n < Len(edited)
      <4>1. InText(edited, off, lines', line', pos', n + 1, 1)
        BY <1>3, <2>1, <3>1, <3>5, NextLine
      <4> QED BY <1>1, <2>1, <4>1 DEF Reading
    <3>6. CASE j = Len(edited[n]) /\ n = Len(edited)
      <4>1. Behind(edited, lines', line') \/ Kept(edited, lines')
        BY <2>1, <3>1, <3>6, LastLine
      <4> QED BY <1>1, <2>1, <4>1 DEF Reading
    <3>7. (j < Len(edited[n]) \/ j = Len(edited[n])) /\ (n < Len(edited) \/ n = Len(edited))
      BY <1>2, <3>2, <3>3
    <3> QED BY <2>1, <3>4, <3>5, <3>6, <3>7
  <2>3. CASE Behind(edited, lines, line)
    <3>1. edited # <<>>
      BY <1>3 DEF Full
    <3>2. Behind(edited, lines', line') \/ Kept(edited, lines')
      BY <1>2, <2>3, <3>1, ReadsBehind
    <3> QED BY <1>1, <2>1, <3>2 DEF Reading
  <2>4. CASE Kept(edited, lines)
    <3>1. Kept(edited, lines')
      BY <1>2, <2>4, ReadsOn
    <3> QED BY <1>1, <2>1, <3>1 DEF Reading
  <2> QED BY <2>1, <2>2, <2>3, <2>4 DEF Reading
<1> QED BY <1>1, <1>2, <1>3 DEF EditInv

(* When the text ends, the last line was found. *)
LEMMA EndEdit == LinesTyped /\ EditInv /\ EndLines => EditInv'
<1> SUFFICES ASSUME LinesTyped, EditInv, EndLines
             PROVE  EditInv'
  OBVIOUS
<1>1. /\ UNCHANGED <<strings, edited, ended, text, memory>> /\ phase = "lines" /\ phase' = "match"
      /\ pos >= 2 * Len(text)
      /\ lines' = IF line = <<>> THEN lines ELSE Append(lines, line)
  BY DEF EndLines, file, Bytes
<1>2. edited \in Seq(Seq(Chars)) /\ Len(edited) <= Len(strings) /\ Len(edited) \in Nat
  BY DEF EditInv
<1>3. lines \in Seq(Seq(Found)) /\ line \in Seq(Found) /\ pos \in Nat
  BY DEF LinesTyped
<1>4. ASSUME Full(edited)
      PROVE  Kept(edited, lines')
  <2>1. PICK off, eol : Buffer(memory, edited, ended, off, eol, Len(text)) /\ Reading(off)
    BY <1>1, <1>4 DEF EditInv
  <2>2. ASSUME NEW n, NEW j, InText(edited, off, lines, line, pos, n, j)
        PROVE  FALSE
    <3>1. n \in 1 .. Len(edited) /\ j \in 0 .. Len(edited[n]) /\ pos = off[n] + j
      BY <2>2 DEF InText
    <3>2. off[n] \in Nat /\ Len(edited[n]) \in Nat /\ off[n] + Len(edited[n]) <= Len(text)
      BY <2>1, <3>1, BufferLine
    <3>3. Len(text) \in Nat /\ Len(text) > 0
      BY <2>1 DEF Buffer
    <3> QED BY <1>1, <3>1, <3>2, <3>3
  <2>3. CASE Behind(edited, lines, line)
    <3> DEFINE m == Len(edited)
    <3>1. m - 1 \in Nat /\ m \in 1 .. m /\ (m - 1) + 1 = m
      <4>1. edited # <<>>
        BY <1>4 DEF Full
      <4> QED BY <1>2, <4>1, EmptySeq
    <3>2. Len(lines) = m - 1 /\ KeptUpTo(lines, edited, m - 1) /\ Keeps(line, edited[m]) /\ Len(line) > Len(edited[m])
      BY <2>3 DEF Behind
    <3>3. Len(edited[m]) \in Nat
      <4>1. edited[m] \in Seq(Chars)
        BY <1>2, <3>1, ElementOfSeq
      <4> QED BY <4>1, LenProperties
    <3>4. line # <<>>
      BY <3>2, <3>3
    <3>5. KeptUpTo(Append(lines, line), edited, (m - 1) + 1)
      BY <1>3, <3>1, <3>2, KeptGrows
    <3> HIDE DEF m
    <3> QED BY <1>1, <3>1, <3>4, <3>5 DEF Kept, m
  <2>4. CASE Kept(edited, lines)
    <3>1. KeptUpTo(Append(lines, line), edited, Len(edited))
      BY <1>2, <1>3, <2>4, KeptGrows DEF Kept
    <3> QED BY <1>1, <2>4, <3>1 DEF Kept
  <2> QED BY <2>1, <2>2, <2>3, <2>4 DEF Reading
<1> QED BY <1>1, <1>2, <1>4 DEF EditInv

LEMMA MatchEdit == LinesTyped /\ NewTyped /\ EditInv /\ MatchLines => EditInv'
<1> SUFFICES ASSUME LinesTyped, NewTyped, EditInv, MatchLines
             PROVE  EditInv'
  OBVIOUS
<1>1. /\ UNCHANGED <<strings, edited, ended, text, memory, lines>> /\ phase = "match"
      /\ phase' \in {"refused", "write"}
      /\ new' = [n \in DOMAIN new |-> IF n <= Len(lines) THEN <<UpToNul(lines[n])>> ELSE <<>>]
  BY DEF MatchLines, file
<1>2. /\ edited \in Seq(Seq(Chars)) /\ Len(edited) <= Len(strings)
      /\ Len(edited) \in Nat /\ Len(strings) \in Nat /\ DOMAIN new = 1 .. Len(strings)
  BY DEF EditInv, NewTyped
<1>3. ASSUME Full(edited), NEW n \in 1 .. Len(edited)
      PROVE  new'[n] = <<edited[n]>>
  <2>1. Len(lines) >= Len(edited) /\ Keeps(lines[n], edited[n])
    BY <1>1, <1>3 DEF EditInv, Kept, KeptUpTo
  <2>2. lines \in Seq(Seq(Found)) /\ Len(lines) \in Nat
    BY DEF LinesTyped
  <2>3. n \in 1 .. Len(strings) /\ n \in 1 .. Len(lines) /\ n <= Len(lines)
    BY <1>2, <2>1, <2>2
  <2>4. lines[n] \in Seq(Found) /\ edited[n] \in Seq(Chars)
    BY <1>2, <2>2, <2>3, ElementOfSeq
  <2>5. UpToNul(lines[n]) = edited[n]
    BY <2>1, <2>4, UpToNulKeeps
  <2> QED BY <1>1, <1>2, <2>3, <2>5
<1> QED BY <1>1, <1>2, <1>3 DEF EditInv

LEMMA StepEdit == RepackInv /\ EditInv /\ [Next]_vars => EditInv'
<1> SUFFICES ASSUME RepackInv, EditInv, [Next]_vars
             PROVE  EditInv'
  OBVIOUS
<1>1. LinesTyped /\ NewTyped
  BY DEF RepackInv
<1>2. CASE ReadChar
  BY <1>1, <1>2, ReadEdit
<1>3. CASE EndLines
  BY <1>1, <1>3, EndEdit
<1>4. CASE MatchLines
  BY <1>1, <1>4, MatchEdit
<1>5. CASE WriteString
  BY <1>5 DEF WriteString, EditInv, file
<1>6. CASE WriteScript
  BY <1>6 DEF WriteScript, EditInv, file
<1>7. CASE UNCHANGED vars
  BY <1>7 DEF vars, EditInv, file, Reading
<1> QED BY <1>2, <1>3, <1>4, <1>5, <1>6, <1>7 DEF Next

(* A translator's line becomes the string of its number, for all scripts, all
   edits with no empty line after the first, both line ends, with or without
   one behind the last line, and whatever the heap holds behind the file:
   GetLines in its double reach finds each line, and wcscpy cuts off what it
   found behind them. *)
THEOREM EditedLinesAreKept == Spec => []LinesKept
<1>1. RepackInv /\ EditInv => LinesKept
  <2> SUFFICES ASSUME RepackInv, EditInv, phase = "written",
                      \A n \in 2 .. Len(edited) : edited[n] # <<>>, NEW n \in DOMAIN edited
               PROVE  Reads(n) = edited[n]
    BY DEF LinesKept
  <2>1. /\ edited \in Seq(Seq(Chars)) /\ Len(edited) <= Len(strings) /\ Len(edited) \in Nat
        /\ strings \in Seq(Seq(Chars)) /\ Len(strings) \in Nat
    BY DEF EditInv, RepackInv, NewTyped
  <2>2. n \in 1 .. Len(edited) /\ edited # <<>>
    BY <2>1
  <2>3. Full(edited)
    BY <2>2 DEF Full
  <2>4. new[n] = <<edited[n]>>
    BY <2>2, <2>3 DEF EditInv
  <2>5. Chosen(n) = edited[n]
    BY <2>4 DEF Chosen
  <2>6. n \in DOMAIN strings
    BY <2>1, <2>2
  <2>7. Reads(n) = Chosen(n)
    BY <2>6, ReadsChosen DEF IndexMatchesData
  <2> QED BY <2>5, <2>7
<1> QED BY <1>1, InitTyped, StepTyped, InitEdit, StepEdit, PTL DEF Spec

-----------------------------------------------------------------------------
ConfigText == {"Gameexe", "Scene", "CustomFont"}

ConfigTrimmed == \A key \in Config!Key : setting[key] = Config!Trim(setting[key])

ConfigTypes ==
  /\ ini = [key \in Config!Key |-> ini[key]]
  /\ setting = [key \in Config!Key |-> setting[key]]
  /\ shown = [key \in Config!Key |-> shown[key]]
  /\ Config!NoKey \notin files
  /\ saving \in 0 .. Len(Config!Keys)
  /\ fphase \in {"closed", "texts", "dvd", "font", "list", "open"}
  /\ asks \in {"none", "BypassDVD", "BypassFont"}

(* A warning and a save exclude each other, and both forget the last result. *)
ConfigAlone ==
  /\ saving > 0 => asks = "none" /\ fphase \in {"texts", "open"}
  /\ saving > 0 \/ asks # "none" \/ fphase # "open" => result # "ok"
  /\ asks # "none" => fphase \in {"font", "list", "open"}

ConfigShown ==
  /\ fphase \in {"dvd", "font", "list", "open"} =>
       \A key \in {"Gameexe", "Scene"} : setting[key] = Config!Trim(shown[key])
  /\ fphase = "open" => /\ setting["CustomFont"] = Config!Trim(shown["CustomFont"])
                        /\ setting["CustomFont"] # Config!NoKey

ConfigSaving == saving > 0 /\ fphase = "open" =>
            /\ {setting["Gameexe"], setting["Scene"]} \subseteq files
            /\ \A k \in 1 .. saving - 1 : ini[Config!Keys[k]] = setting[Config!Keys[k]]

ConfigSaved == result = "ok" =>
           /\ \A key \in ConfigText : ini[key] = setting[key]
           /\ {setting["Gameexe"], setting["Scene"]} \subseteq files

(* The inductive invariant. *)
ConfigInv == ConfigTypes /\ ConfigTrimmed /\ ConfigAlone /\ ConfigShown /\ ConfigSaving /\ ConfigSaved

-----------------------------------------------------------------------------
LEMMA KeyNames == /\ Config!Key = {"Gameexe", "Scene", "BypassDVD", "BypassFont", "CustomFont"}
                  /\ Len(Config!Keys) = 5
                  /\ Config!Keys[1] = "Gameexe" /\ Config!Keys[2] = "Scene" /\ Config!Keys[3] = "BypassDVD"
                  /\ Config!Keys[4] = "BypassFont" /\ Config!Keys[5] = "CustomFont"
<1>1. Config!Keys = <<"Gameexe", "Scene", "BypassDVD", "BypassFont", "CustomFont">>
  BY DEF Config!Keys
<1>2. Len(Config!Keys) = 5 /\ DOMAIN Config!Keys = 1 .. 5
  BY <1>1
<1>3. 1 .. 5 = {1, 2, 3, 4, 5}
  OBVIOUS
<1> QED BY <1>1, <1>2, <1>3 DEF Config!Key

(* Trimming twice is trimming once. *)
LEMMA TrimTwice == \A x : Config!Trim(Config!Value(x)) = Config!Value(x) /\ Config!Trim(Config!Trim(x)) = Config!Trim(x)
BY DEF Config!Trim, Config!Value

LEMMA DefaultsTrimmed == \A key \in Config!Key : Config!Trim(Config!Defaults[key]) = Config!Defaults[key]
BY TrimTwice DEF Config!Defaults

(* The installed fonts have names. *)
LEMMA FontNames ==
  ASSUME Config!ConfigAssumption
  PROVE  /\ Config!Value(Fonts[1]) \in Config!Installed
         /\ \A font \in Config!Installed : Config!Trim(font) = font /\ font # Config!NoKey
<1>1. 1 \in DOMAIN Fonts
  <2> DEFINE last == Len(Fonts)
  <2>1. last \in Nat \ {0} /\ DOMAIN Fonts = 1 .. last
    BY DEF Config!ConfigAssumption
  <2> HIDE DEF last
  <2> QED BY <2>1
<1>2. \A k \in DOMAIN Fonts : Config!Trim(Config!Value(Fonts[k])) = Config!Value(Fonts[k]) /\ Config!Value(Fonts[k]) # Config!NoKey
  <2> TAKE k \in DOMAIN Fonts
  <2>1. Fonts[k] # ""
    BY DEF Config!ConfigAssumption
  <2>2. Config!Value(Fonts[k])[1] = Fonts[k] /\ Config!NoKey[1] = ""
    BY DEF Config!Value, Config!NoKey
  <2> QED BY <2>1, <2>2, TrimTwice
<1> QED BY <1>1, <1>2 DEF Config!Installed

-----------------------------------------------------------------------------
LEMMA CInvStart ==
  ASSUME ConfigInv, Config!Start
  PROVE  ConfigInv'
<1>1. \A key \in Config!Key : Config!Trim(Config!LoadFromFile[key]) = Config!LoadFromFile[key]
  BY TrimTwice, DefaultsTrimmed DEF Config!LoadFromFile
<1>2. ConfigTrimmed'
  BY <1>1 DEF Config!Start, ConfigTrimmed
<1>3. ConfigTypes'
  BY KeyNames DEF ConfigInv, Config!Start, ConfigTypes, Config!LoadFromFile
<1> QED BY <1>2, <1>3 DEF ConfigInv, Config!Start, ConfigTypes, ConfigAlone, ConfigShown, ConfigSaving, ConfigSaved

LEMMA CInvFailWrite ==
  ASSUME ConfigInv, Config!FailWrite
  PROVE  ConfigInv'
<1>1. (ConfigTypes /\ ConfigTrimmed /\ ConfigShown /\ ConfigSaving)'
  BY KeyNames DEF ConfigInv, Config!FailWrite, ConfigTypes, ConfigTrimmed, ConfigShown, ConfigSaving
<1>2. result' # "ok"
  BY DEF ConfigInv, Config!FailWrite, ConfigAlone, Config!Report
<1> QED BY <1>1, <1>2 DEF ConfigInv, Config!FailWrite, ConfigAlone, ConfigSaved

LEMMA CInvWriteKey ==
  ASSUME ConfigInv, Config!WriteKey
  PROVE  ConfigInv'
<1>1. /\ saving \in 1 .. 5 /\ Config!Keys[saving] \in Config!Key
      /\ result # "ok"
      /\ ini' = [ini EXCEPT ![Config!Keys[saving]] = setting[Config!Keys[saving]]]
      /\ setting' = setting /\ shown' = shown /\ files' = files /\ fphase' = fphase /\ asks' = asks
  BY KeyNames DEF ConfigInv, Config!WriteKey, ConfigTypes, ConfigAlone
<1>2. \A key \in Config!Key : ini'[key] = IF key = Config!Keys[saving] THEN setting[key] ELSE ini[key]
  BY <1>1 DEF ConfigInv, ConfigTypes
<1>3. ini' = [key \in Config!Key |-> ini'[key]]
  BY <1>1 DEF ConfigInv, ConfigTypes
<1>4. fphase = "open" => \A k \in 1 .. saving : ini'[Config!Keys[k]] = setting[Config!Keys[k]]
  <2> SUFFICES ASSUME fphase = "open", NEW k \in 1 .. saving
               PROVE  ini'[Config!Keys[k]] = setting[Config!Keys[k]]
    OBVIOUS
  <2>1. Config!Keys[k] \in Config!Key
    BY <1>1, KeyNames
  <2>2. k # saving => ini[Config!Keys[k]] = setting[Config!Keys[k]]
    BY <1>1 DEF ConfigInv, ConfigSaving
  <2> QED BY <1>2, <2>1, <2>2
<1>5. CASE saving = 5
  <2>1. saving' = 0 /\ result' = IF fphase = "open" THEN "ok" ELSE result
    BY <1>5, KeyNames DEF Config!WriteKey, Config!Report
  <2>2. ConfigTypes'
    BY <1>1, <1>3, <2>1, KeyNames DEF ConfigInv, ConfigTypes
  <2>3. (ConfigTypes /\ ConfigTrimmed /\ ConfigShown /\ ConfigSaving)'
    BY <1>1, <2>1, <2>2 DEF ConfigInv, ConfigTrimmed, ConfigShown, ConfigSaving
  <2>4. ConfigAlone'
    BY <1>1, <2>1 DEF ConfigInv, ConfigAlone
  <2>5. ConfigSaved'
    BY <1>1, <1>4, <1>5, <2>1, KeyNames DEF ConfigInv, ConfigSaving, ConfigSaved, ConfigText
  <2> QED BY <2>3, <2>4, <2>5 DEF ConfigInv
<1>6. CASE saving # 5
  <2>1. saving' = saving + 1 /\ result' = result
    BY <1>6, KeyNames DEF Config!WriteKey
  <2>2. ConfigTypes'
    BY <1>1, <1>6, <1>3, <2>1, KeyNames DEF ConfigInv, ConfigTypes
  <2>3. (ConfigTypes /\ ConfigTrimmed /\ ConfigShown)'
    BY <1>1, <2>1, <2>2 DEF ConfigInv, ConfigTrimmed, ConfigShown
  <2>4. (ConfigAlone /\ ConfigSaved)'
    BY <1>1, <2>1 DEF ConfigInv, ConfigAlone, ConfigSaved
  <2>5. ConfigSaving'
    BY <1>1, <1>4, <2>1 DEF ConfigInv, ConfigSaving
  <2> QED BY <2>3, <2>4, <2>5 DEF ConfigInv
<1> QED BY <1>5, <1>6

LEMMA CInvShowTexts ==
  ASSUME ConfigInv, Config!ShowTexts
  PROVE  ConfigInv'
<1>1. ConfigShown'
  BY KeyNames DEF ConfigInv, Config!ShowTexts, ConfigTypes, ConfigTrimmed, ConfigShown
<1>2. ConfigTypes'
  BY DEF ConfigInv, Config!ShowTexts, ConfigTypes
<1> QED BY <1>1, <1>2 DEF ConfigInv, Config!ShowTexts, Config!Free, ConfigTrimmed, ConfigAlone, ConfigSaving, ConfigSaved

(* The flag of a check is none of the settings the property is about. *)
LEMMA CInvChoose ==
  ASSUME ConfigInv, Config!ShowFlag \/ Config!ChooseFlag
  PROVE  ConfigInv'
<1>0. PICK box \in {"BypassDVD", "BypassFont"} : \E value : Config!Choose(box, value)
  BY DEF Config!ShowFlag, Config!ChooseFlag
<1>1. PICK value : Config!Choose(box, value)
  BY <1>0
<1>2. /\ saving = 0 /\ asks = "none" /\ result' # "ok"
      /\ fphase' \in {"font", "list", "open"} /\ (fphase' = "open" => fphase = "open")
      /\ fphase \in {"dvd", "font", "open"}
      /\ UNCHANGED <<ini, files, saving>>
  BY DEF Config!ShowFlag, Config!ChooseFlag, Config!Free, ConfigInv, ConfigAlone
<1>3. /\ shown' = [shown EXCEPT ![box] = value]
      /\ setting' = setting \/ (value = Config!Value("true") /\ setting' = [setting EXCEPT !["BypassDVD"] = value])
      /\ asks' \in {asks, box}
  BY <1>1 DEF Config!Choose
<1>4. ConfigTypes'
  BY <1>2, <1>3 DEF ConfigInv, ConfigTypes
<1>5. \A key \in ConfigText : key \in Config!Key /\ shown'[key] = shown[key] /\ setting'[key] = setting[key]
  BY <1>3, KeyNames DEF ConfigInv, ConfigTypes, ConfigText
<1>6. ConfigShown'
  BY <1>2, <1>5 DEF ConfigInv, ConfigShown, ConfigText
<1>7. ConfigTrimmed'
  BY <1>3, TrimTwice DEF ConfigInv, ConfigTypes, ConfigTrimmed
<1> QED BY <1>2, <1>3, <1>4, <1>6, <1>7 DEF ConfigInv, ConfigAlone, ConfigSaving, ConfigSaved

LEMMA CInvAnswer ==
  ASSUME ConfigInv, Config!Answer
  PROVE  ConfigInv'
<1>1. PICK value \in Config!Flag : /\ shown' = [shown EXCEPT ![asks] = value]
                            /\ setting' = [setting EXCEPT !["BypassDVD"] = value]
  BY DEF Config!Answer
<1>2. /\ saving = 0 /\ asks' = "none" /\ asks \in {"BypassDVD", "BypassFont"} /\ result # "ok"
      /\ UNCHANGED <<ini, files, fphase, saving, result>>
  BY DEF Config!Answer, ConfigInv, ConfigTypes, ConfigAlone
<1>3. \A key \in ConfigText : key \in Config!Key /\ shown'[key] = shown[key] /\ setting'[key] = setting[key]
  BY <1>1, <1>2, KeyNames DEF ConfigInv, ConfigTypes, ConfigText
<1>4. ConfigTypes'
  BY <1>1, <1>2 DEF ConfigInv, ConfigTypes
<1>5. ConfigShown'
  BY <1>2, <1>3 DEF ConfigInv, ConfigShown, ConfigText
<1>6. ConfigTrimmed'
  BY <1>1, TrimTwice DEF ConfigInv, ConfigTypes, ConfigTrimmed, Config!Flag
<1> QED BY <1>2, <1>4, <1>5, <1>6 DEF ConfigInv, ConfigAlone, ConfigSaving, ConfigSaved

LEMMA CInvTypeName ==
  ASSUME ConfigInv, Config!TypeName
  PROVE  ConfigInv'
<1>1. PICK key \in {"Gameexe", "Scene"}, typed \in Names : Config!SetName(key, typed)
  BY DEF Config!TypeName
<1>2. /\ shown' = [shown EXCEPT ![key] = typed] /\ setting' = [setting EXCEPT ![key] = Config!Trim(typed)]
      /\ key \in Config!Key /\ key # "CustomFont"
  BY <1>1, KeyNames DEF Config!SetName
<1>3. saving = 0 /\ asks = "none" /\ fphase = "open" /\ result' = "none"
      /\ UNCHANGED <<ini, files, fphase, asks, saving>>
  BY DEF Config!TypeName, Config!Free
<1>4. ConfigTypes' /\ ConfigTrimmed'
  BY <1>2, <1>3, TrimTwice DEF ConfigInv, ConfigTypes, ConfigTrimmed
<1>5. ConfigShown'
  BY <1>2, <1>3, KeyNames DEF ConfigInv, ConfigTypes, ConfigShown
<1> QED BY <1>3, <1>4, <1>5 DEF ConfigInv, ConfigAlone, ConfigSaving, ConfigSaved

LEMMA CInvFont ==
  ASSUME Config!ConfigAssumption, ConfigInv, Config!ShowFonts \/ Config!ChooseFont
  PROVE  ConfigInv'
<1>1. PICK font \in Config!Installed : Config!SetFont(font)
  BY FontNames DEF Config!ShowFonts, Config!ChooseFont
<1>2. /\ shown' = [shown EXCEPT !["CustomFont"] = font] /\ setting' = [setting EXCEPT !["CustomFont"] = font]
      /\ Config!Trim(font) = font /\ font # Config!NoKey
  BY <1>1, FontNames DEF Config!SetFont
<1>3. saving = 0 /\ asks = "none" /\ fphase \in {"list", "open"} /\ fphase' = "open" /\ result' # "ok"
      /\ UNCHANGED <<ini, files, asks, saving>>
  BY DEF Config!ShowFonts, Config!ChooseFont, Config!Free, ConfigInv, ConfigAlone
<1>4. ConfigTypes' /\ ConfigTrimmed'
  BY <1>2, <1>3 DEF ConfigInv, ConfigTypes, ConfigTrimmed
<1>5. ConfigShown'
  BY <1>2, <1>3, KeyNames DEF ConfigInv, ConfigTypes, ConfigShown
<1> QED BY <1>3, <1>4, <1>5 DEF ConfigInv, ConfigAlone, ConfigSaving, ConfigSaved

LEMMA ConfigInvRest ==
  ASSUME ConfigInv, Config!Save \/ Config!Close \/ UNCHANGED Config!fvars
  PROVE  ConfigInv'
<1>1. CASE Config!Save
  BY <1>1, KeyNames DEF Config!Save, Config!Free, ConfigInv, ConfigTypes, ConfigTrimmed, ConfigAlone, ConfigShown, ConfigSaving, ConfigSaved
<1>2. CASE Config!Close
  BY <1>2, KeyNames DEF Config!Close, ConfigInv, ConfigTypes, ConfigTrimmed, ConfigAlone, ConfigShown, ConfigSaving, ConfigSaved
<1>3. CASE UNCHANGED Config!fvars
  BY <1>3 DEF Config!fvars, ConfigInv, ConfigTypes, ConfigTrimmed, ConfigAlone, ConfigShown, ConfigSaving, ConfigSaved
<1> QED BY <1>1, <1>2, <1>3

(* What the tool has reported as saved is what its form shows, names files that
   are there, and is what its next start loads, whatever was typed, chosen,
   cancelled or closed before. *)
THEOREM ConfigSavesWhatItShows == ToolSpec => []SavedIsShown
<1> DEFINE Inv == program = "config" => ConfigInv
<1>1. ToolInit => Inv
  <2> SUFFICES ASSUME Config!Init
               PROVE  ConfigInv
    BY DEF ToolInit
  <2>1. ConfigTypes
    BY KeyNames DEF Config!Init, ConfigTypes, Config!Defaults
  <2>2. ConfigTrimmed
    BY DefaultsTrimmed DEF Config!Init, ConfigTrimmed
  <2> QED BY <2>1, <2>2 DEF Config!Init, ConfigInv, ConfigAlone, ConfigShown, ConfigSaving, ConfigSaved
<1>2. Inv /\ [ToolNext]_toolvars => Inv'
  <2> SUFFICES ASSUME program = "config", ConfigInv, Config!Next \/ UNCHANGED Config!fvars
               PROVE  ConfigInv'
    BY DEF ToolNext, toolvars, configvars, Config!fvars
  <2> QED BY ToolAssumption, CInvStart, CInvFailWrite, CInvWriteKey, CInvShowTexts, CInvChoose, CInvAnswer,
             CInvTypeName, CInvFont, ConfigInvRest DEF Config!Next
<1>3. Inv => SavedIsShown
  <2> SUFFICES ASSUME ConfigInv, result = "ok"
               PROVE  Config!SavedIsShown
    BY DEF SavedIsShown, Config!SavedIsShown
  <2>1. fphase = "open" /\ \A key \in ConfigText : ini[key] = setting[key] /\ setting[key] = Config!Trim(shown[key])
    BY DEF ConfigInv, ConfigAlone, ConfigSaved, ConfigShown, ConfigText
  <2>2. \A key \in ConfigText : ini[key] # Config!NoKey /\ Config!Trim(ini[key]) = ini[key] /\ key \in Config!Key
    BY <2>1, TrimTwice, KeyNames DEF ConfigInv, ConfigTypes, ConfigShown, ConfigSaved, ConfigText
  <2>3. \A key \in ConfigText : Config!LoadFromFile[key] = ini[key]
    BY <2>2 DEF Config!LoadFromFile
  <2> QED BY <2>1, <2>3 DEF ConfigInv, ConfigSaved, Config!SavedIsShown, ConfigText
<1> QED BY <1>1, <1>2, <1>3, PTL DEF ToolSpec

-----------------------------------------------------------------------------
(* The configuration in use is that of the file, or the empty one. *)
FromFile ==
  /\ json \in {<<>>} \cup {<<c>> : c \in Configs}
  /\ DOMAIN cfg.mapper # {} => json # <<>> /\ DOMAIN cfg.mapper \subseteq DOMAIN json[1].mapper

(* Once it is read the configuration in use is what the file states. *)
RedirectInv ==
  /\ FromFile
  /\ hook \in {"attach", "idle", "open", "fault"}
  /\ hook = "attach" => cfg = Patch!Empty
  /\ hook \in {"idle", "open"} => cfg = Patch!Stated
  /\ Patch!RedirectSafe

(* What the second half of HookCreateFileW can come to: a name the mapper has,
   and where the tables fit, the entry for its extension. *)
LEMMA ByMapperSafe ==
  ASSUME NEW n, NEW first, NEW f \in Patch!ByMapper(n, first), f # n, cfg = Patch!Stated
  PROVE  /\ n.name \in DOMAIN Patch!Stated.mapper
         /\ Patch!Fitting =>
              /\ f = Patch!InFolder(n, Patch!Stated.extensions[Patch!Lower(Patch!Last(n.name))])
              /\ Patch!OnDisk(f) \in {m \in Patch!Known : disk[m] = "file"}
<1>1. n.name \in DOMAIN cfg.mapper
  BY DEF Patch!ByMapper
<1>2. ASSUME Patch!Fitting
      PROVE  /\ f = Patch!InFolder(n, cfg.extensions[Patch!Lower(Patch!Last(n.name))])
             /\ Patch!OnDisk(f) \in {m \in Patch!Known : disk[m] = "file"}
  <2> DEFINE r == cfg.extensions[Patch!ExtensionKey(n)]
  <2>1. Patch!ExtensionKey(n) \in DOMAIN cfg.extensions
    BY <1>1, <1>2 DEF Patch!Fitting, Patch!ExtensionKey
  <2>2. f = (IF r = Patch!EmptyString THEN n ELSE Patch!OrElse(n, Patch!InFolder(n, r)))
    BY <1>1, <2>1 DEF Patch!ByMapper
  <2>3. f = Patch!InFolder(n, r) /\ Patch!IsFile(f)
    BY <2>2 DEF Patch!OrElse
  <2> QED BY <2>3 DEF Patch!IsFile, Patch!ExtensionKey
<1> QED BY <1>1, <1>2

LEMMA Loaded ==
  ASSUME Patch!PatchAssumption, FromFile, Patch!LoadPatchConfig
  PROVE  /\ FromFile'
         /\ cfg' # cfg => json # <<>> /\ cfg'.font = json[1].font
<1>1. CASE cfg' = cfg
  BY <1>1 DEF Patch!LoadPatchConfig, FromFile
<1>2. CASE cfg' # cfg
  <2>1. /\ json # <<>> /\ json' = json
        /\ cfg' = [json[1] EXCEPT !.extensions = Patch!Strings(@), !.mapper = Patch!Strings(@)]
    BY <1>2 DEF Patch!LoadPatchConfig
  <2>2. PICK c \in Configs : json = <<c>>
    BY <2>1 DEF FromFile
  <2>3. c = [font |-> c.font, extensions |-> c.extensions, mapper |-> c.mapper] /\ json[1] = c
    BY <2>2 DEF Patch!PatchAssumption
  <2>4. cfg'.mapper = Patch!Strings(c.mapper) /\ cfg'.font = c.font
    BY <2>1, <2>3
  <2>5. DOMAIN Patch!Strings(c.mapper) \subseteq DOMAIN c.mapper
    BY DEF Patch!Strings, Patch!Restrict
  <2> QED BY <2>1, <2>3, <2>4, <2>5 DEF FromFile
<1> QED BY <1>1, <1>2

(* A step that leaves the file and the last name opened alone. *)
LEMMA RedirectRests ==
  ASSUME RedirectInv, UNCHANGED <<json, cfg, hook, asked, found, there>>
  PROVE  RedirectInv'
BY DEF RedirectInv, FromFile, Patch!RedirectSafe, Patch!Stated, Patch!Fitting

LEMMA RedirectLoads ==
  ASSUME Patch!PatchAssumption, RedirectInv, Patch!LoadPatchConfig
  PROVE  RedirectInv'
<1>1. FromFile' /\ json' = json /\ hook' \in {"idle", "fault"} /\ cfg = Patch!Empty
  BY Loaded DEF Patch!LoadPatchConfig, RedirectInv
<1>2. ASSUME hook' = "idle"
      PROVE  cfg' = Patch!Stated
  BY <1>1, <1>2 DEF Patch!LoadPatchConfig, Patch!Stated
<1>3. ASSUME hook' = "fault"
      PROVE  Patch!Stated.font = Patch!NotText
  <2>1. json # <<>> /\ json[1].font = Patch!NotText
    BY <1>3 DEF Patch!LoadPatchConfig
  <2>2. PICK c \in Configs : json = <<c>>
    BY <2>1 DEF RedirectInv, FromFile
  <2>3. c = [font |-> c.font, extensions |-> c.extensions, mapper |-> c.mapper] /\ json[1] = c
    BY <2>2 DEF Patch!PatchAssumption
  <2> QED BY <2>1, <2>3 DEF Patch!Stated
<1>4. Patch!Stated' = Patch!Stated
  BY <1>1 DEF Patch!Stated
<1>5. Patch!RedirectSafe'
  BY <1>1, <1>3, <1>4 DEF Patch!RedirectSafe
<1> QED BY <1>1, <1>2, <1>4, <1>5 DEF RedirectInv

LEMMA RedirectOpens ==
  ASSUME RedirectInv, Patch!CallCreateFileW
  PROVE  RedirectInv'
<1>1. /\ cfg = Patch!Stated /\ cfg' = cfg /\ json' = json /\ hook' \in {"open", "fault"}
      /\ there' = {m \in Patch!Known : disk[m] = "file"}
  BY DEF Patch!CallCreateFileW, RedirectInv
<1>2. FromFile' /\ Patch!Stated' = Patch!Stated /\ Patch!Fitting' = Patch!Fitting
  BY <1>1 DEF RedirectInv, FromFile, Patch!Stated, Patch!Fitting
<1>3. ASSUME hook' = "open", found' # asked'
      PROVE  /\ asked'.name \in DOMAIN Patch!Stated.mapper
             /\ Patch!Fitting =>
                  /\ found' = Patch!InFolder(asked', Patch!Stated.extensions[Patch!Lower(Patch!Last(asked'.name))])
                  /\ Patch!OnDisk(found') \in there'
  <2>1. found' \in Patch!ByMapper(asked', Patch!ByExtension(asked'))
    BY <1>3 DEF Patch!CallCreateFileW
  <2> QED BY <1>1, <1>3, <2>1, ByMapperSafe
<1>4. ASSUME hook' = "fault", Patch!Fitting
      PROVE  Len(asked'.name) = 1
  <2>1. ASSUME asked'.name \in DOMAIN cfg.mapper, Patch!ExtensionKey(asked') \notin DOMAIN cfg.extensions
        PROVE  FALSE
    BY <1>1, <1>4, <2>1 DEF Patch!Fitting, Patch!ExtensionKey
  <2> QED BY <1>4, <2>1 DEF Patch!CallCreateFileW
<1>5. Patch!RedirectSafe'
  BY <1>2, <1>3, <1>4 DEF Patch!RedirectSafe, Patch!OnDisk, Patch!LowerAll, Patch!Lower, Patch!InFolder, Patch!Path
<1> QED BY <1>1, <1>2, <1>5 DEF RedirectInv

(* The library opens another file than the game asked for only by a name of the
   file mapper.  Where every such name has its extension in the other table, it
   opens what the tables say, which was there, and the game dies of nothing but
   a font that is no string or a name without a point. *)
THEOREM PatchRedirectsSafely == ToolSpec => []RedirectSafe
<1> DEFINE Inv == program = "patch" => RedirectInv
<1>1. ToolInit => Inv
  BY DEF ToolInit, Patch!Init, Patch!Empty, RedirectInv, FromFile, Patch!RedirectSafe
<1>2. Inv /\ [ToolNext]_toolvars => Inv'
  <2> SUFFICES ASSUME RedirectInv, Patch!Next \/ UNCHANGED Patch!pvars
               PROVE  RedirectInv'
    BY DEF ToolNext, toolvars, patchvars, Patch!pvars
  <2> USE ToolAssumption
  <2>1. CASE Patch!LoadPatchConfig
    BY <2>1, RedirectLoads
  <2>2. CASE Patch!ChangeFile
    BY <2>2, RedirectRests DEF Patch!ChangeFile
  <2>3. CASE Patch!CallCreateFileW
    BY <2>3, RedirectOpens
  <2>4. CASE Patch!OpenFile
    BY <2>4 DEF Patch!OpenFile, RedirectInv, FromFile, Patch!RedirectSafe, Patch!Stated
  <2>5. CASE Patch!CallCreateFontIndirectW
    BY <2>5, RedirectRests DEF Patch!CallCreateFontIndirectW
  <2>6. CASE UNCHANGED Patch!pvars
    BY <2>6, RedirectRests DEF Patch!pvars
  <2> QED BY <2>1, <2>2, <2>3, <2>4, <2>5, <2>6 DEF Patch!Next
<1>3. Inv => RedirectSafe
  BY DEF RedirectInv, RedirectSafe
<1> QED BY <1>1, <1>2, <1>3, PTL DEF ToolSpec

-----------------------------------------------------------------------------
(* The face that the font of the configuration makes. *)
Face == [k \in DOMAIN Patch!GameFace |-> IF k <= Patch!CopySize THEN Append(cfg.font, "0")[k] ELSE Patch!GameFace[k]]

FontIsString == Len(cfg.font) \in Nat /\ cfg.font = [k \in 1 .. Len(cfg.font) |-> cfg.font[k]]

(* The configuration is read before the first font is made. *)
FaceInv ==
  /\ FromFile /\ FontIsString
  /\ face = Patch!GameFace \/ (hook # "attach" /\ cfg.font # <<>> /\ face = Face)

LEMMA GameFaceType ==
  ASSUME Patch!PatchAssumption
  PROVE  /\ Patch!GameFace \in Seq({"game", "behind"}) /\ Len(Patch!GameFace) = FaceSize + 2
         /\ Patch!GameFace[FaceSize + 1] = "behind" /\ Patch!GameFace[FaceSize + 2] = "behind"
<1> DEFINE g == [k \in 1 .. FaceSize |-> "game"]
<1>1. FaceSize \in Nat
  BY DEF Patch!PatchAssumption
<1>2. g \in Seq({"game", "behind"}) /\ Len(g) = FaceSize
  BY <1>1
<1>3. Patch!Behind \in Seq({"game", "behind"}) /\ Len(Patch!Behind) = 2 /\ Patch!Behind[1] = "behind" /\ Patch!Behind[2] = "behind"
  BY DEF Patch!Behind
<1> HIDE DEF g
<1>4. /\ g \o Patch!Behind \in Seq({"game", "behind"}) /\ Len(g \o Patch!Behind) = FaceSize + 2
      /\ \A k \in 1 .. FaceSize + 2 : (g \o Patch!Behind)[k] = IF k <= FaceSize THEN g[k] ELSE Patch!Behind[k - FaceSize]
  <2> DEFINE S == {"game", "behind"}
  <2>1. g \in Seq(S) /\ Patch!Behind \in Seq(S)
    BY <1>2, <1>3
  <2> HIDE DEF S
  <2>2. /\ g \o Patch!Behind \in Seq(S) /\ Len(g \o Patch!Behind) = Len(g) + Len(Patch!Behind)
        /\ \A k \in 1 .. Len(g) + Len(Patch!Behind) :
             (g \o Patch!Behind)[k] = IF k <= Len(g) THEN g[k] ELSE Patch!Behind[k - Len(g)]
    BY <2>1, ConcatProperties
  <2> QED BY <1>1, <1>2, <1>3, <2>2 DEF S
<1> QED BY <1>1, <1>3, <1>4 DEF Patch!GameFace, g

(* Nothing is written behind a face, and what is written is the font. *)
LEMMA FaceRight ==
  ASSUME Patch!PatchAssumption, FaceInv
  PROVE  Patch!FaceInBounds
<1>1. FaceSize \in Nat \ {0}
  BY DEF Patch!PatchAssumption
<1>2. DOMAIN face = 1 .. FaceSize + 2 /\ face = [k \in 1 .. FaceSize + 2 |-> face[k]]
  BY <1>1, GameFaceType DEF FaceInv, Face
<1>3. \A k \in {FaceSize + 1, FaceSize + 2} : face[k] = "behind"
  <2>1. CASE face = Patch!GameFace
    BY <2>1, GameFaceType
  <2>2. CASE face = Face
    <3>1. Patch!CopySize \in Nat /\ Patch!CopySize <= FaceSize
      BY <1>1 DEF FaceInv, FontIsString, Patch!CopySize
    <3> QED BY <1>1, <1>2, <2>2, <3>1, GameFaceType DEF Face
  <2> QED BY <2>1, <2>2 DEF FaceInv
<1>4. SubSeq(face, FaceSize + 1, FaceSize + 2) = Patch!Behind
  <2>1. face \in Seq({face[k] : k \in 1 .. FaceSize + 2}) /\ Len(face) = FaceSize + 2
    <3> DEFINE S == {face[k] : k \in 1 .. FaceSize + 2}
    <3>1. face \in [1 .. FaceSize + 2 -> S]
      BY <1>2
    <3> HIDE DEF S
    <3>2. face \in Seq(S) /\ Len(face) = FaceSize + 2
      BY <3>1, <1>1
    <3> QED BY <3>2 DEF S
  <2> DEFINE s == SubSeq(face, FaceSize + 1, FaceSize + 2)
  <2>2. s \in Seq({face[k] : k \in 1 .. FaceSize + 2}) /\ Len(s) = 2
        /\ s[1] = face[FaceSize + 1] /\ s[2] = face[FaceSize + 2]
    <3> DEFINE S == {face[k] : k \in 1 .. FaceSize + 2}
    <3>1. face \in Seq(S) /\ Len(face) = FaceSize + 2 /\ FaceSize \in Nat
      BY <1>1, <2>1
    <3> HIDE DEF S
    <3>2. FaceSize + 1 \in 1 .. Len(face) + 1 /\ FaceSize + 2 \in FaceSize + 1 - 1 .. Len(face)
      BY <3>1
    <3>3. s \in Seq(S) /\ Len(s) = 2 /\ s[1] = face[FaceSize + 1] /\ s[2] = face[FaceSize + 2]
      BY <3>1, <3>2, SubSeqProperties
    <3> QED BY <3>3 DEF S
  <2> HIDE DEF s
  <2>3. s = <<"behind", "behind">>
    BY <1>3, <2>2
  <2> QED BY <2>3 DEF s, Patch!Behind
<1>5. ASSUME cfg.font # <<>>, face # Patch!GameFace, NEW k \in 1 .. FaceSize, k <= Len(cfg.font)
      PROVE  face[k] = cfg.font[k]
  <2>1. face = Face /\ Len(cfg.font) \in Nat /\ cfg.font = [m \in 1 .. Len(cfg.font) |-> cfg.font[m]]
    BY <1>5 DEF FaceInv, FontIsString
  <2>2. k <= Patch!CopySize /\ k \in DOMAIN Patch!GameFace
    BY <1>1, <1>5, <2>1, GameFaceType DEF Patch!CopySize
  <2>3. face[k] = Append(cfg.font, "0")[k]
    BY <2>1, <2>2 DEF Face
  <2>4. Append(cfg.font, "0")[k] = cfg.font[k]
    <3> DEFINE S == {cfg.font[m] : m \in 1 .. Len(cfg.font)} \cup {"0"}
    <3>1. cfg.font \in [1 .. Len(cfg.font) -> S]
      BY <2>1
    <3>2. cfg.font \in Seq(S) /\ "0" \in S
      BY <3>1, <2>1
    <3> HIDE DEF S
    <3> QED BY <1>5, <2>1, <3>2, AppendProperties
  <2> QED BY <2>3, <2>4
<1> QED BY <1>4, <1>5 DEF Patch!FaceInBounds

(* HookCreateFontIndirectW never writes behind lfFaceName, however long the font
   of the configuration, and writes no other name than that. *)
THEOREM PatchFacesFit == ToolSpec => []FaceInBounds
<1> DEFINE Inv == program = "patch" => FaceInv
<1>1. ToolInit => Inv
  <2> SUFFICES ASSUME Patch!Init
               PROVE  FaceInv
    BY DEF ToolInit
  <2> QED BY DEF Patch!Init, Patch!Empty, FaceInv, FromFile, FontIsString
<1>2. Inv /\ [ToolNext]_toolvars => Inv'
  <2> SUFFICES ASSUME FaceInv, Patch!Next \/ UNCHANGED Patch!pvars
               PROVE  FaceInv'
    BY DEF ToolNext, toolvars, patchvars, Patch!pvars
  <2> USE ToolAssumption
  <2>1. CASE Patch!LoadPatchConfig
    <3>1. FromFile' /\ (cfg' # cfg => json # <<>> /\ cfg'.font = json[1].font)
      BY <2>1, Loaded DEF FaceInv
    <3>2. FontIsString'
      <4>1. CASE cfg' = cfg
        BY <4>1 DEF FaceInv, FontIsString
      <4>2. CASE cfg' # cfg
        <5>1. PICK c \in Configs : json = <<c>>
          BY <3>1, <4>2 DEF FaceInv, FromFile
        <5> QED BY <3>1, <4>2, <5>1 DEF Patch!PatchAssumption, FontIsString
      <4> QED BY <4>1, <4>2
    <3>3. (face = Patch!GameFace)'
      BY <2>1 DEF Patch!LoadPatchConfig, FaceInv, Patch!GameFace, Patch!Behind
    <3> QED BY <3>1, <3>2, <3>3 DEF FaceInv
  <2>2. CASE Patch!ChangeFile
    BY <2>2 DEF Patch!ChangeFile, FaceInv, FromFile, FontIsString, Face, Patch!CopySize, Patch!GameFace, Patch!Behind
  <2>3. CASE Patch!CallCreateFileW
    BY <2>3 DEF Patch!CallCreateFileW, FaceInv, FromFile, FontIsString, Face, Patch!CopySize, Patch!GameFace, Patch!Behind
  <2>4. CASE Patch!OpenFile
    BY <2>4 DEF Patch!OpenFile, FaceInv, FromFile, FontIsString, Face, Patch!CopySize, Patch!GameFace, Patch!Behind
  <2>5. CASE Patch!CallCreateFontIndirectW
    <3>1. cfg' = cfg /\ json' = json /\ hook' # "attach"
      BY <2>5 DEF Patch!CallCreateFontIndirectW
    <3>2. face' = IF cfg.font = <<>> THEN Patch!GameFace ELSE Face
      BY <2>5 DEF Patch!CallCreateFontIndirectW, Face
    <3>3. Patch!GameFace' = Patch!GameFace /\ Face' = Face
      BY <3>1 DEF Face, Patch!CopySize, Patch!GameFace, Patch!Behind
    <3> QED BY <3>1, <3>2, <3>3 DEF FaceInv, FromFile, FontIsString
  <2>6. CASE UNCHANGED Patch!pvars
    BY <2>6 DEF Patch!pvars, FaceInv, FromFile, FontIsString, Face, Patch!CopySize, Patch!GameFace, Patch!Behind
  <2> QED BY <2>1, <2>2, <2>3, <2>4, <2>5, <2>6 DEF Patch!Next
<1>3. Inv => FaceInBounds
  BY ToolAssumption, FaceRight DEF FaceInBounds
<1> QED BY <1>1, <1>2, <1>3, PTL DEF ToolSpec
=============================================================================
