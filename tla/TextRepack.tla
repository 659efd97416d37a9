------------------------------ MODULE TextRepack ------------------------------
(***************************************************************************)
(* The way of the text of a script: ExtractText (UnpackScene.h) writes one *)
(* line per string, a translator edits the lines, ScriptRepacker.cpp reads *)
(* them back with GetLines, replaces the strings and writes a script whose *)
(* string data lie behind the old file.                                    *)
(*                                                                         *)
(* GetLines takes the size in bytes for a number of characters, and reads  *)
(* as much again past the text: zeros up to the end of the allocation, and *)
(* then what the heap holds there.                                         *)
(***************************************************************************)
EXTENDS Integers, Sequences, SequencesExt

CONSTANTS Chars,      \* the characters of strings, neither NUL, CR nor LF
          Garbage,    \* what the heap may hold
          MaxStrings, \* bound: the strings of a script
          MaxLength   \* bound: the characters of a string

NUL == "NUL"
CR  == "CR"
LF  == "LF"

ASSUME RepackAssumption ==
  /\ Chars \cap {NUL, CR, LF} = {}
  /\ MaxStrings \in Nat /\ MaxLength \in Nat

UpTo(S, n) == UNION {[1 .. k -> S] : k \in 0 .. n}
Texts      == UpTo(UpTo(Chars, MaxLength), MaxStrings)

VARIABLES
  strings,  \* the strings of the script, decrypted (old_string)
  edited,   \* the lines the translator left in the file
  ended,    \* whether the last of them has its line end
  text,     \* the file, without the mark of its encoding
  memory,   \* the file in its buffer and what follows that
  phase,    \* where wmain is
  pos,      \* iPos
  line,     \* ReadLine of GetLines
  lines,    \* the lines found
  new,      \* new_string by string, <<>> (no string) or <<the string>>
  index,    \* string_index: offset and length
  data      \* the new string data: character and the key that locks it

file == <<strings, edited, ended, text, memory>>
vars == <<file, phase, pos, line, lines, new, index, data>>

(* ExtractText ends each line with CR LF; an editor may use LF alone. *)
Lines(ss, eol) == FlattenSeq([n \in 1 .. Len(ss) |-> ss[n] \o eol])

(* What the translator leaves: the first lines or all, the last with its line
   end or without. *)
Saved(ls, eol, whole) ==
  IF whole \/ ls = <<>> THEN Lines(ls, eol) ELSE Lines(Front(ls), eol) \o Last(ls)

Bytes(t) == 2 * Len(t)

(* ROUND_UP(Size + 1, 4) bytes, the end of them zero. *)
Allocated(t) == 2 * ((Bytes(t) + 4) \div 4)

Heap(t, g) == [k \in 1 .. Bytes(t) + 3 |->
                 IF k <= Len(t) THEN t[k] ELSE IF k <= Allocated(t) THEN NUL ELSE g[1 + (k % 2)]]

Init ==
  /\ strings \in Texts
  /\ edited \in {ls \in Texts : Len(ls) <= Len(strings)}
  /\ ended \in IF edited # <<>> /\ Last(edited) = <<>> THEN {TRUE} ELSE BOOLEAN
  /\ \E eol \in {<<CR, LF>>, <<LF>>} : text = Saved(edited, eol, ended)
  /\ \E g \in [1 .. 2 -> Garbage] : memory = Heap(text, g)
  /\ phase = "lines" /\ pos = 0 /\ line = <<>> /\ lines = <<>>
  /\ new = [n \in 1 .. Len(strings) |-> <<>>]
  /\ index = <<>> /\ data = <<>>

-----------------------------------------------------------------------------
(* GetLines. *)

At(p) == memory[p + 1]

(* Mutant: a line end of two characters counts twice. *)
AfterReturnOne(p) == p + 1

(* Past a CR and the LF that may follow it. *)
AfterReturn(p) == IF At(p + 1) = LF THEN p + 2 ELSE p + 1

(* One iteration: a CR and an LF each end a line, and then, whatever it is,
   the character that follows is taken. *)
ReadChar ==
  /\ phase = "lines" /\ pos < Bytes(text)
  /\ LET p1 == IF At(pos) = CR THEN AfterReturn(pos) ELSE pos
         p2 == IF At(p1) = LF THEN p1 + 1 ELSE p1
         s1 == IF At(pos) = CR THEN <<Append(lines, line), <<>>>> ELSE <<lines, line>>
         s2 == IF At(p1) = LF THEN <<Append(s1[1], s1[2]), <<>>>> ELSE s1
     IN  /\ lines' = s2[1]
         /\ line' = Append(s2[2], At(p2))
         /\ pos' = p2 + 1
  /\ UNCHANGED <<file, phase, new, index, data>>

EndLines ==
  /\ phase = "lines" /\ pos >= Bytes(text)
  /\ lines' = IF line = <<>> THEN lines ELSE Append(lines, line)
  /\ phase' = "match"
  /\ UNCHANGED <<file, pos, line, new, index, data>>

-----------------------------------------------------------------------------
(* wmain. *)

(* wcscpy *)
UpToNul(s) == IF Contains(s, NUL)
              THEN SubSeq(s, 1, (CHOOSE k \in DOMAIN s : s[k] = NUL
                                   /\ \A j \in 1 .. k - 1 : s[j] # NUL) - 1)
              ELSE s

(* The lines replace the strings; with more lines than strings nothing is written. *)
MatchLines ==
  /\ phase = "match"
  /\ new' = [n \in DOMAIN new |-> IF n <= Len(lines) THEN <<UpToNul(lines[n])>> ELSE <<>>]
  /\ phase' = IF Len(lines) > Len(strings) THEN "refused" ELSE "write"
  /\ UNCHANGED <<file, pos, line, lines, index, data>>

Chosen(n) == IF new[n] = <<>> THEN strings[n] ELSE new[n][1]

(* Mutant: the string is locked with the key of the one after it. *)
KeyOneBased(n) == n

(* decrypt_string with the index from 0 as the key. *)
Key(n) == n - 1

WriteString ==
  /\ phase = "write" /\ Len(index) < Len(strings)
  /\ LET n == Len(index) + 1
         s == Chosen(n)
     IN  /\ index' = Append(index, [offset |-> Len(data), length |-> Len(s)])
         /\ data' = data \o [k \in 1 .. Len(s) |-> [char |-> s[k], key |-> Key(n)]]
  /\ UNCHANGED <<file, phase, pos, line, lines, new>>

WriteScript ==
  /\ phase = "write" /\ Len(index) = Len(strings)
  /\ phase' = "written"
  /\ UNCHANGED <<file, pos, line, lines, new, index, data>>

Next == ReadChar \/ EndLines \/ MatchLines \/ WriteString \/ WriteScript

Spec == Init /\ [][Next]_vars

-----------------------------------------------------------------------------
(* Properties. *)

(* The string the engine, or ExtractText, reads from the written script; a
   wrong key gives another character. *)
Reads(n) == [k \in 1 .. index[n].length |->
               LET c == data[index[n].offset + k]
               IN  IF c.key = n - 1 THEN c.char ELSE "wrong"]

(* The written script is consistent: every string is found at its place under
   its own key, and is the line of its number or, without one, the old string. *)
IndexMatchesData ==
  phase = "written" => \A n \in DOMAIN strings : Reads(n) = Chosen(n)

(* A string gets the line of its number, whatever lies behind the text, when
   no line but the first is empty. *)
LinesKept ==
  phase = "written" /\ (\A n \in 2 .. Len(edited) : edited[n] # <<>>)
    => \A n \in DOMAIN edited : Reads(n) = edited[n]

(* A text as ExtractText wrote it is accepted. *)
ExtractedIsAccepted ==
  phase = "refused" => ~(ended /\ edited = strings /\ text = Lines(strings, <<CR, LF>>))
=============================================================================
