------------------------ MODULE LifecycleRefinement ------------------------
(***************************************************************************)
(* The dialog's threads implement ExtractService when the user is patient. *)
(* A request is being started until its worker exists, and worked on until *)
(* its wrapper has returned.                                               *)
(***************************************************************************)
EXTENDS WorkerLifecycle

Created(j) == WrapperAlive(j) /\ work[j] # "unborn"

ServicePhase == IF ~up THEN "closed"
                ELSE IF Quiet THEN "ready"
                ELSE IF \E j \in Jobs : Created(j) THEN "working" ELSE "starting"

(* What the loop of the running drop has not unpacked; a deleted or cleared
   list holds nothing any more. *)
Running == {j \in Drops : Created(j)}

Rest(j) == SubSeq(list, pos[j] + 1, Len(list))

ServiceQueue == IF up /\ Running # {} THEN Rest(CHOOSE j \in Running : TRUE) ELSE <<>>

Service == INSTANCE ExtractService
             WITH Batches  <- {<<>>} \cup {Batch(j, n) : j \in Drops, n \in 0 .. MaxFiles},
                  phase    <- ServicePhase,
                  queue    <- ServiceQueue,
                  unpacked <- done

(* The dialog keeps ExtractService's promise: a batch is started whole or not
   at all, no file is skipped, repeated or reordered, and the dialog is not
   ready before the last Unpack has returned; every request finishes. *)
ImplementsService == Service!Spec
=============================================================================
