--------------------------- MODULE ExtractService ---------------------------
(***************************************************************************)
(* What the dialog promises a user who waits for one request to finish     *)
(* before making the next: a drop is either not started at all, or each of *)
(* its files is unpacked once, in the order they were queued, before the   *)
(* dialog is ready again.                                                  *)
(***************************************************************************)
EXTENDS Sequences

CONSTANTS Batches  \* the file lists a request may queue, <<>> for a pack

VARIABLES phase,   \* "ready", "starting", "working" or "closed"
          queue,   \* the files still to unpack, in order
          unpacked \* the files whose unpacking has returned

svars == <<phase, queue, unpacked>>

Init == phase = "ready" /\ queue = <<>> /\ unpacked = {}

Begin   == phase = "ready" /\ phase' = "starting" /\ UNCHANGED <<queue, unpacked>>

Abandon == phase = "starting" /\ phase' = "ready" /\ UNCHANGED <<queue, unpacked>>

Start == /\ phase = "starting" /\ phase' = "working"
         /\ queue' \in Batches
         /\ \A k \in DOMAIN queue' : queue'[k] \notin unpacked
         /\ UNCHANGED unpacked

Unpack == /\ phase = "working" /\ queue # <<>>
          /\ queue' = Tail(queue)
          /\ unpacked' = unpacked \cup {Head(queue)}
          /\ UNCHANGED phase

Finish == phase = "working" /\ queue = <<>> /\ phase' = "ready" /\ UNCHANGED <<queue, unpacked>>

Exit == phase # "closed" /\ phase' = "closed" /\ queue' = <<>> /\ UNCHANGED unpacked

Next == Begin \/ Abandon \/ Start \/ Unpack \/ Finish \/ Exit

(* The program finishes what it started; starting a request may be abandoned. *)
Spec == Init /\ [][Next]_svars /\ WF_svars(Start \/ Abandon) /\ WF_svars(Unpack \/ Finish)
=============================================================================
