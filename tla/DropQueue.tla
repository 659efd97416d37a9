------------------------------ MODULE DropQueue ------------------------------
(***************************************************************************)
(* Building WorkerList from a drop: the loop of OnDropFiles over the       *)
(* dropped items, the enumeration of a dropped folder and CreateAddObject, *)
(* which picks an unpacker by the extension (Tool.h) or the name.          *)
(* WorkerLifecycle takes the list as one step; here it is built.           *)
(*                                                                         *)
(* A folder lists "." and ".." before its entries, but the root of a drive *)
(* does not.                                                               *)
(***************************************************************************)
EXTENDS Integers, Sequences, SequencesExt

CONSTANTS Names,      \* the names of files: see DropAssumption
          MaxItems,   \* bound: the items of a drop
          MaxEntries  \* bound: the entries of a folder

(* suffix is the format the name promises: "always" has an unpacker, "keyed"
   has one unless the private key is forbidden (Gameexe.dat, Scene.pck),
   "other" has none, and "none" is a name without a point. *)
DropAssumption ==
  /\ Names \subseteq [suffix : {"always", "keyed", "other", "none"},
                      hidden : BOOLEAN, point : BOOLEAN]
  /\ \A n \in Names : n.suffix = "none" => ~n.point
  /\ MaxItems \in Nat /\ MaxEntries \in Nat

UpTo(S, n) == UNION {[1 .. k -> S] : k \in 0 .. n}

(* dotted: the path of the item, without the name, has a point in it. *)
Files   == [kind : {"file"}, name : Names, dotted : BOOLEAN]
Folders == {f \in [kind : {"folder"}, root : BOOLEAN, dotted : BOOLEAN,
                   entries : UpTo(Names, MaxEntries)] : f.root => ~f.dotted}

VARIABLES
  drop,      \* the items dropped
  forbidden, \* m_ForbiddenPrivateKey
  item,      \* i, the item being looked at
  listing,   \* the entries of the open folder still to come
  phase,     \* where OnDropFiles is
  queue,     \* WorkerList: the item and the entry of it, 0 for a dropped file
  gone       \* history: the items that GetFileAttributesW did not find

vars == <<drop, forbidden, item, listing, phase, queue, gone>>

Self == [suffix |-> "other", hidden |-> FALSE, point |-> TRUE]  \* "." and ".."

(* What FindFirstFileW and then FindNextFileW return, numbered. *)
Listing(f) ==
  LET own == [n \in 1 .. Len(f.entries) |-> [name |-> f.entries[n], entry |-> n]]
  IN  IF f.root THEN own
      ELSE <<[name |-> Self, entry |-> 0], [name |-> Self, entry |-> 0]>> \o own

Init ==
  /\ drop \in UpTo(Files \cup Folders, MaxItems)
  /\ forbidden \in BOOLEAN
  /\ item = 1 /\ listing = <<>> /\ phase = "items" /\ queue = <<>> /\ gone = {}

(* Mutant: the key is not asked for. *)
AcceptedWithoutKey(name) == name.suffix \in {"always", "keyed"}

(* The unpacker that CreateAddObject finds. *)
Accepted(name) == name.suffix = "always" \/ (name.suffix = "keyed" /\ ~forbidden)

(* GetFileNameExtension returns NULL for a path without a point, and the
   wstring constructed from it reads from address 0. *)
HasPoint(name, dotted) == dotted \/ name.suffix # "none"

CreateAddObject(name, dotted, entry) ==
  IF HasPoint(name, dotted)
  THEN /\ queue' = IF Accepted(name) THEN Append(queue, <<item, entry>>) ELSE queue
       /\ UNCHANGED phase
  ELSE phase' = "crashed" /\ UNCHANGED queue

(* Deleted since the drop, or no longer to be reached. *)
SkipMissing ==
  /\ phase = "items" /\ item <= Len(drop)
  /\ gone' = gone \cup {item}
  /\ item' = item + 1
  /\ UNCHANGED <<drop, forbidden, listing, phase, queue>>

AddFile ==
  /\ phase = "items" /\ item <= Len(drop) /\ drop[item].kind = "file"
  /\ CreateAddObject(drop[item].name, drop[item].dotted, 0)
  /\ item' = item + 1
  /\ UNCHANGED <<drop, forbidden, listing, gone>>

(* FindFirstFileW; its result is not looked at.  An empty root has none. *)
OpenFolder ==
  /\ phase = "items" /\ item <= Len(drop) /\ drop[item].kind = "folder"
  /\ IF Listing(drop[item]) = <<>>
     THEN item' = item + 1 /\ UNCHANGED <<listing, phase>>
     ELSE listing' = Tail(Listing(drop[item])) /\ phase' = "folder" /\ UNCHANGED item
  /\ UNCHANGED <<drop, forbidden, queue, gone>>

(* Mutant: hidden files are taken. *)
SkippedPointOnly(name) == name.point

Skipped(name) == name.point \/ name.hidden

(* One FindNextFileW. *)
NextEntry ==
  /\ phase = "folder" /\ listing # <<>>
  /\ listing' = Tail(listing)
  /\ LET next == Head(listing) IN
     IF Skipped(next.name)
     THEN UNCHANGED <<phase, queue>>
     ELSE CreateAddObject(next.name, drop[item].dotted, next.entry)
  /\ UNCHANGED <<drop, forbidden, item, gone>>

CloseFolder ==
  /\ phase = "folder" /\ listing = <<>>
  /\ item' = item + 1 /\ phase' = "items"
  /\ UNCHANGED <<drop, forbidden, listing, queue, gone>>

StartWorker ==
  /\ phase = "items" /\ item > Len(drop)
  /\ phase' = "done"
  /\ UNCHANGED <<drop, forbidden, item, listing, queue, gone>>

Next == SkipMissing \/ AddFile \/ OpenFolder \/ NextEntry \/ CloseFolder \/ StartWorker

Spec == Init /\ [][Next]_vars

-----------------------------------------------------------------------------
(* Properties. *)

Supported(name) == name.suffix = "always" \/ (name.suffix = "keyed" /\ ~forbidden)
Visible(name)   == ~name.point /\ ~name.hidden

(* What the user dropped of supported files, in the order of the drop. *)
WantedEntry(n, e) ==
  IF Supported(drop[n].entries[e]) /\ Visible(drop[n].entries[e]) THEN <<<<n, e>>>> ELSE <<>>
Wanted(n) ==
  IF n \in gone THEN <<>>
  ELSE IF drop[n].kind = "file"
  THEN IF Supported(drop[n].name) THEN <<<<n, 0>>>> ELSE <<>>
  ELSE FlattenSeq([e \in 1 .. Len(drop[n].entries) |-> WantedEntry(n, e)])

WantedUpTo == FlattenSeq([n \in 1 .. item - 1 |-> Wanted(n)])

HasRoot == \E n \in 1 .. Len(drop) : drop[n].kind = "folder" /\ drop[n].root

(* Without the root of a drive among the items, the worker gets exactly the
   supported and visible files of the drop, each once and in its order,
   whatever vanished in the meantime and whatever else lies in the folders. *)
QueueIsDrop == phase = "done" /\ ~HasRoot => queue = WantedUpTo

(* The root of a drive costs at most the first of its entries, and never one
   of another item. *)
RootCostsItsFirst ==
  phase = "done" =>
    /\ \A n \in DOMAIN queue : Contains(WantedUpTo, queue[n])
    /\ \A n \in DOMAIN WantedUpTo :
         \/ Contains(queue, WantedUpTo[n])
         \/ WantedUpTo[n][2] = 1 /\ drop[WantedUpTo[n][1]].root

(* OnDropFiles comes to its end. *)
DropSurvives == phase # "crashed"
=============================================================================
