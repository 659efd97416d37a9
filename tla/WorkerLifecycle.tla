--------------------------- MODULE WorkerLifecycle ---------------------------
(***************************************************************************)
(* The threads of the extractor's dialog (SiglusExtractDialog.cpp).        *)
(*                                                                         *)
(* A request is a drop of files (OnDropFiles) or a click on "Do Pack!"     *)
(* (OnBnClickedScePack).  The GUI thread stops whatever the member         *)
(* WorkerThreadHandle names, rebuilds WorkerList (a drop) or the static    *)
(* Param (a pack), and starts a wrapper thread.  The wrapper greys the     *)
(* controls, starts a worker, waits for it, closes its handle, deletes the *)
(* list and restores the controls.  None of the shared members has a lock. *)
(*                                                                         *)
(* Granularity: a step makes one access to a shared member, together with  *)
(* the kernel call that consumes the value.  Handles are named by the      *)
(* worker they refer to, so a handle value is never reused.                *)
(* Updating a control, the title or the progress bar from another thread   *)
(* sends a message that only a GUI thread outside its handlers answers:    *)
(* the guard Pumping.                                                      *)
(***************************************************************************)
EXTENDS Integers, Sequences, FiniteSets

CONSTANTS Drops,     \* the requests that are drops of files
          Packs,     \* the requests that are clicks on the pack button
          MaxFiles,  \* bound: most objects one drop queues
          MaxRequests, \* bound: the requests of a behaviour
          Patient,   \* the user waits for the previous request to finish
          None       \* INVALID_HANDLE_VALUE; also no request, no object

ASSUME LifecycleAssumption ==
  /\ Drops \cap Packs = {}
  /\ MaxFiles \in Nat /\ MaxRequests \in Nat
  /\ Patient \in BOOLEAN
  /\ None \notin Drops \cup Packs
  /\ None \notin Drops \X (1 .. MaxFiles)

Jobs == Drops \cup Packs

VARIABLES
  up,        \* the process runs
  gui,       \* where the GUI thread is: "idle" or a point of a handler
  req,       \* the request the GUI handler serves, None when idle
  handle,    \* WorkerThreadHandle
  open,      \* the worker thread handles not closed yet
  list,      \* WorkerList
  live,      \* the unpack objects allocated and not deleted
  param,     \* the request whose path and file name the static Param holds
  enabled,   \* the controls are enabled
  wrap,      \* wrap[j]: where the wrapper of request j is
  target,    \* target[j]: the worker the wrapper of j waits for
  work,      \* work[j]: where the worker of request j is
  pos,       \* pos[j]: the loop index i of worker j
  using,     \* using[j]: the object worker j unpacks, the Param it packs with
  \* History, read by the properties only.
  done,      \* the objects whose Unpack has returned
  requested, \* the requests made so far
  overlap,   \* some request was made while a wrapper or worker was alive
  failed,    \* some thread could not be created
  fault      \* the first memory or handle error committed, "none" before

threads == <<wrap, target, work, pos, using>>
shared  == <<handle, open, list, live, param, enabled>>
history == <<done, requested, overlap, failed, fault>>
vars    == <<up, gui, req, shared, threads, history>>

Objects == Drops \X (1 .. MaxFiles)
Batch(j, n) == [k \in 1 .. n |-> <<j, k>>]
Items(s) == {s[k] : k \in DOMAIN s}

Pumping == up /\ gui = "idle"

WrapperAlive(j) == wrap[j] \notin {"unborn", "ended"}
WorkerAlive(j)  == work[j] \notin {"unborn", "ended", "killed"}
Alive(j)        == WrapperAlive(j) \/ WorkerAlive(j)
Quiet           == gui = "idle" /\ \A j \in Jobs : ~Alive(j)

(* Reading or freeing what is gone is undefined: the process may die or go on. *)
Require(ok, kind) ==
  /\ fault' = IF ok \/ fault # "none" THEN fault ELSE kind
  /\ up' \in IF ok THEN {TRUE} ELSE BOOLEAN

DeleteItems == /\ live' = live \ Items(list)
               /\ Require(Items(list) \subseteq live, "double_delete")

(* Closing the pseudo-handle has no effect. *)
CloseHandle == /\ open' = open \ {handle}
               /\ Require(handle \in open \cup {None}, "double_close")

Init ==
  /\ up = TRUE /\ gui = "idle" /\ req = None
  /\ handle = None /\ open = {}
  /\ list = <<>> /\ live = {} /\ param = None /\ enabled = TRUE
  /\ wrap = [j \in Jobs |-> "unborn"] /\ target = [j \in Jobs |-> None]
  /\ work = [j \in Jobs |-> "unborn"]
  /\ pos = [j \in Jobs |-> 0] /\ using = [j \in Jobs |-> None]
  /\ done = {} /\ requested = {} /\ overlap = FALSE /\ failed = FALSE
  /\ fault = "none"

-----------------------------------------------------------------------------
(* The GUI thread. *)

(* A drop is dispatched whenever the GUI thread pumps: a disabled control does
   not stop it.  The pack button must be enabled to be clicked. *)
Request(j) ==
  /\ Pumping /\ j \notin requested /\ Cardinality(requested) < MaxRequests
  /\ j \in Packs => enabled
  /\ Patient => Quiet
  /\ gui' = "check" /\ req' = j
  /\ requested' = requested \cup {j}
  /\ overlap' = (overlap \/ \E k \in Jobs : Alive(k))
  /\ UNCHANGED <<up, shared, threads, done, failed, fault>>

(* Mutant: the timeout is relative and infinite, so the handler waits. *)
CheckWorkerWaiting ==
  /\ up /\ gui = "check"
  /\ handle \in open => ~WorkerAlive(handle)
  /\ gui' = "close"
  /\ UNCHANGED <<up, req, shared, threads, history>>

(* The test of the exit code; the wait's positive timeout is an absolute time
   in the past, so it returns at once. *)
CheckWorker ==
  /\ up /\ gui = "check"
  /\ gui' = IF handle # None /\ (handle \in open => WorkerAlive(handle))
            THEN "terminate" ELSE "close"
  /\ UNCHANGED <<up, req, shared, threads, history>>

TerminateWorker ==
  /\ up /\ gui = "terminate"
  /\ gui' = "close"
  /\ work' = IF handle \in open /\ WorkerAlive(handle)
             THEN [work EXCEPT ![handle] = "killed"] ELSE work
  /\ UNCHANGED <<up, req, shared, wrap, target, pos, using, history>>

CloseOld ==
  /\ up /\ gui = "close"
  /\ gui' = "forget"
  /\ CloseHandle
  /\ UNCHANGED <<req, handle, list, live, param, enabled, threads,
                 done, requested, overlap, failed>>

(* Mutant: Param is set whatever the request. *)
ForgetOldSettingParam ==
  /\ up /\ gui = "forget"
  /\ handle' = None
  /\ param' = req
  /\ IF req \in Drops THEN gui' = "delete" /\ enabled' = TRUE
                      ELSE gui' = "spawn" /\ UNCHANGED enabled
  /\ UNCHANGED <<up, req, open, list, live, threads, history>>

(* A drop also calls EnableAll here; a pack assigns Param. *)
ForgetOld ==
  /\ up /\ gui = "forget"
  /\ handle' = None
  /\ IF req \in Drops
     THEN gui' = "delete" /\ enabled' = TRUE /\ UNCHANGED param
     ELSE gui' = "spawn" /\ param' = req /\ UNCHANGED enabled
  /\ UNCHANGED <<up, req, open, list, live, threads, history>>

DeleteOldList ==
  /\ up /\ gui = "delete"
  /\ gui' = "fill"
  /\ DeleteItems
  /\ UNCHANGED <<req, handle, open, list, param, enabled, threads,
                 done, requested, overlap, failed>>

FillList ==
  /\ up /\ gui = "fill"
  /\ gui' = "spawn"
  /\ \E n \in 0 .. MaxFiles :
       /\ list' = Batch(req, n)
       /\ live' = live \cup Items(Batch(req, n))
  /\ UNCHANGED <<up, req, handle, open, param, enabled, threads, history>>

SpawnWrapper ==
  /\ up /\ gui = "spawn"
  /\ gui' = "idle" /\ req' = None
  /\ \/ /\ wrap' = [wrap EXCEPT ![req] = "disable"]
        /\ UNCHANGED failed
     \/ /\ failed' = TRUE
        /\ UNCHANGED wrap
  /\ UNCHANGED <<up, shared, target, work, pos, using,
                 done, requested, overlap, fault>>

(* OnClose ends the process with every thread in it. *)
Close ==
  /\ Pumping
  /\ up' = FALSE
  /\ UNCHANGED <<gui, req, shared, threads, history>>

-----------------------------------------------------------------------------
(* The wrapper of request j: WorkerThreadWrapper, CreateWorkerThreadWarpper. *)

(* Mutant: the wrapper does not grey the controls. *)
DisableNothing(j) ==
  /\ Pumping /\ wrap[j] = "disable"
  /\ wrap' = [wrap EXCEPT ![j] = "create"]
  /\ UNCHANGED <<up, gui, req, shared, target, work, pos, using, history>>

DisableAll(j) ==
  /\ Pumping /\ wrap[j] = "disable"
  /\ enabled' = FALSE
  /\ wrap' = [wrap EXCEPT ![j] = "create"]
  /\ UNCHANGED <<up, gui, req, handle, open, list, live, param,
                 target, work, pos, using, history>>

(* The worker may run before Nt_CreateThread stores its handle. *)
CreateWorker(j) ==
  /\ up /\ wrap[j] = "create"
  /\ \/ /\ wrap' = [wrap EXCEPT ![j] = "publish"]
        /\ work' = [work EXCEPT ![j] = IF j \in Drops THEN "loop" ELSE "begin"]
        /\ open' = open \cup {j}
        /\ UNCHANGED failed
     \/ /\ wrap' = [wrap EXCEPT ![j] = "ended"]
        /\ failed' = TRUE
        /\ UNCHANGED <<work, open>>
  /\ UNCHANGED <<up, gui, req, handle, list, live, param, enabled,
                 target, pos, using, done, requested, overlap, fault>>

(* Mutant: the worker's handle goes to a local, not to the member. *)
PublishNothing(j) ==
  /\ up /\ wrap[j] = "publish"
  /\ wrap' = [wrap EXCEPT ![j] = "wait"]
  /\ UNCHANGED <<up, gui, req, shared, target, work, pos, using, history>>

PublishHandle(j) ==
  /\ up /\ wrap[j] = "publish"
  /\ handle' = j
  /\ wrap' = [wrap EXCEPT ![j] = "wait"]
  /\ UNCHANGED <<up, gui, req, open, list, live, param, enabled,
                 target, work, pos, using, history>>

(* Mutant: the wrapper does not wait for its worker. *)
WaitNot(j) ==
  /\ up /\ wrap[j] = "wait"
  /\ wrap' = [wrap EXCEPT ![j] = "close"]
  /\ UNCHANGED <<up, gui, req, shared, target, work, pos, using, history>>

(* INVALID_HANDLE_VALUE is also the pseudo-handle of the process itself: waiting
   on it never returns.  Waiting on a closed handle fails at once. *)
Wait(j) ==
  /\ up /\ wrap[j] = "wait"
  /\ wrap' = [wrap EXCEPT ![j] =
                IF handle = None THEN "stuck"
                ELSE IF handle \in open THEN "blocked" ELSE "close"]
  /\ target' = [target EXCEPT ![j] = IF handle \in open THEN handle ELSE None]
  /\ UNCHANGED <<up, gui, req, shared, work, pos, using, history>>

(* Mutant: the worker signals its end itself, so a killed one never does. *)
WakeOnReturn(j) ==
  /\ up /\ wrap[j] = "blocked" /\ work[target[j]] = "ended"
  /\ wrap' = [wrap EXCEPT ![j] = "close"]
  /\ target' = [target EXCEPT ![j] = None]
  /\ UNCHANGED <<up, gui, req, shared, work, pos, using, history>>

Wake(j) ==
  /\ up /\ wrap[j] = "blocked" /\ ~WorkerAlive(target[j])
  /\ wrap' = [wrap EXCEPT ![j] = "close"]
  /\ target' = [target EXCEPT ![j] = None]
  /\ UNCHANGED <<up, gui, req, shared, work, pos, using, history>>

CloseWaited(j) ==
  /\ up /\ wrap[j] = "close"
  /\ wrap' = [wrap EXCEPT ![j] = "forget"]
  /\ CloseHandle
  /\ UNCHANGED <<gui, req, handle, list, live, param, enabled, target, work,
                 pos, using, done, requested, overlap, failed>>

ForgetHandle(j) ==
  /\ up /\ wrap[j] = "forget"
  /\ wrap' = [wrap EXCEPT ![j] = "delete"]
  /\ handle' = None
  /\ UNCHANGED <<up, gui, req, open, list, live, param, enabled,
                 target, work, pos, using, history>>

(* Mutant: InternalReset clears the vector without deleting. *)
DeleteNothing(j) ==
  /\ up /\ wrap[j] = "delete"
  /\ wrap' = [wrap EXCEPT ![j] = "clear"]
  /\ UNCHANGED <<up, gui, req, shared, target, work, pos, using, history>>

(* InternalReset: delete the objects, then clear the vector. *)
DeleteList(j) ==
  /\ up /\ wrap[j] = "delete"
  /\ wrap' = [wrap EXCEPT ![j] = "clear"]
  /\ DeleteItems
  /\ UNCHANGED <<gui, req, handle, open, list, param, enabled, target, work,
                 pos, using, done, requested, overlap, failed>>

ClearList(j) ==
  /\ up /\ wrap[j] = "clear"
  /\ wrap' = [wrap EXCEPT ![j] = "enable"]
  /\ list' = <<>>
  /\ UNCHANGED <<up, gui, req, handle, open, live, param, enabled,
                 target, work, pos, using, history>>

(* Mutant: the wrapper leaves the controls to the worker. *)
EnableNothing(j) ==
  /\ Pumping /\ wrap[j] = "enable"
  /\ wrap' = [wrap EXCEPT ![j] = "ended"]
  /\ UNCHANGED <<up, gui, req, shared, target, work, pos, using, history>>

(* The title and the progress bar of InternalReset, then EnableAll. *)
EnableAll(j) ==
  /\ Pumping /\ wrap[j] = "enable"
  /\ enabled' = TRUE
  /\ wrap' = [wrap EXCEPT ![j] = "ended"]
  /\ UNCHANGED <<up, gui, req, handle, open, list, live, param,
                 target, work, pos, using, history>>

-----------------------------------------------------------------------------
(* The worker of request j: WorkerThread for a drop. *)

(* The loop test, then the title and the progress bar. *)
NextItem(j) ==
  /\ Pumping /\ work[j] = "loop" /\ pos[j] < Len(list)
  /\ work' = [work EXCEPT ![j] = "call"]
  /\ UNCHANGED <<up, gui, req, shared, wrap, target, pos, using, history>>

(* WorkerList[i] is read again after the messages: it may be shorter by now. *)
BeginUnpack(j) ==
  /\ up /\ work[j] = "call"
  /\ IF pos[j] < Len(list)
     THEN /\ using' = [using EXCEPT ![j] = list[pos[j] + 1]]
          /\ Require(list[pos[j] + 1] \in live, "use_after_delete")
     ELSE /\ Require(FALSE, "index_out_of_range")
          /\ UNCHANGED using
  /\ work' = [work EXCEPT ![j] = "unpack"]
  /\ UNCHANGED <<gui, req, shared, wrap, target, pos,
                 done, requested, overlap, failed>>

(* Mutant: the exception handler is around the loop, not around Unpack. *)
EndUnpackAbortingBatch(j) ==
  /\ up /\ work[j] = "unpack"
  /\ work' = [work EXCEPT ![j] = "restore"]
  /\ pos' = [pos EXCEPT ![j] = @ + 1]
  /\ using' = [using EXCEPT ![j] = None]
  /\ done' = done \cup {using[j]}
  /\ UNCHANGED <<up, gui, req, shared, wrap, target, requested, overlap, failed, fault>>

(* Unpack returns, or raises and SEH_EXCEPT reads the object's name. *)
EndUnpack(j) ==
  /\ up /\ work[j] = "unpack"
  /\ work' = [work EXCEPT ![j] = "loop"]
  /\ pos' = [pos EXCEPT ![j] = @ + 1]
  /\ using' = [using EXCEPT ![j] = None]
  /\ IF using[j] = None
     THEN UNCHANGED <<up, done, fault>>
     ELSE /\ done' = done \cup {using[j]}
          /\ Require(using[j] \in live, "use_after_delete")
  /\ UNCHANGED <<gui, req, shared, wrap, target, requested, overlap, failed>>

(* Mutant: the loop test is off by one. *)
LeaveLoopEarly(j) ==
  /\ up /\ work[j] = "loop" /\ pos[j] + 1 >= Len(list)
  /\ work' = [work EXCEPT ![j] = "restore"]
  /\ UNCHANGED <<up, gui, req, shared, wrap, target, pos, using, history>>

LeaveLoop(j) ==
  /\ up /\ work[j] = "loop" /\ pos[j] >= Len(list)
  /\ work' = [work EXCEPT ![j] = "restore"]
  /\ UNCHANGED <<up, gui, req, shared, wrap, target, pos, using, history>>

WorkerEnableAll(j) ==
  /\ Pumping /\ work[j] = "restore"
  /\ enabled' = TRUE
  /\ work' = [work EXCEPT ![j] = "ended"]
  /\ UNCHANGED <<up, gui, req, handle, open, list, live, param,
                 wrap, target, pos, using, history>>

(* The worker of a pack, CreateWorkerThread: it takes the strings of Param,
   whoever wrote them last, and reads them until CreateScenePck returns.  The
   message box of a success waits for the user, not for another thread. *)
BeginPack(j) ==
  /\ up /\ work[j] = "begin"
  /\ work' = [work EXCEPT ![j] = "packing"]
  /\ using' = [using EXCEPT ![j] = param]
  /\ fault' = IF param = j \/ fault # "none" THEN fault ELSE "foreign_param"
  /\ UNCHANGED <<up, gui, req, shared, wrap, target, pos,
                 done, requested, overlap, failed>>

EndPack(j) ==
  /\ up /\ work[j] = "packing"
  /\ work' = [work EXCEPT ![j] = "ended"]
  /\ using' = [using EXCEPT ![j] = None]
  /\ Require(using[j] = param, "param_reassigned")
  /\ UNCHANGED <<gui, req, shared, wrap, target, pos,
                 done, requested, overlap, failed>>

-----------------------------------------------------------------------------
Gui == \/ CheckWorker \/ TerminateWorker \/ CloseOld \/ ForgetOld
       \/ DeleteOldList \/ FillList \/ SpawnWrapper

Wrapper(j) == \/ DisableAll(j) \/ CreateWorker(j) \/ PublishHandle(j) \/ Wait(j)
              \/ Wake(j) \/ CloseWaited(j) \/ ForgetHandle(j)
              \/ DeleteList(j) \/ ClearList(j) \/ EnableAll(j)

Worker(j) == \/ NextItem(j) \/ BeginUnpack(j) \/ EndUnpack(j) \/ LeaveLoop(j)
             \/ WorkerEnableAll(j) \/ BeginPack(j) \/ EndPack(j)

Next == \/ \E j \in Jobs : Request(j)
        \/ Gui
        \/ Close
        \/ \E j \in Jobs : Wrapper(j) \/ Worker(j)

Spec == Init /\ [][Next]_vars

(* The scheduler runs every thread that can run; the user owes nothing. *)
Fairness == /\ WF_vars(Gui)
            /\ \A j \in Jobs : WF_vars(Wrapper(j)) /\ WF_vars(Worker(j))

FairSpec == Spec /\ Fairness

-----------------------------------------------------------------------------
(* Properties. *)

GuiPoints     == {"idle", "check", "terminate", "close", "forget",
                  "delete", "fill", "spawn"}
WrapperPoints == {"unborn", "disable", "create", "publish", "wait", "blocked",
                  "stuck", "close", "forget", "delete", "clear", "enable", "ended"}
DropPoints    == {"loop", "call", "unpack", "restore"}
PackPoints    == {"begin", "packing"}
WorkerPoints  == {"unborn", "ended", "killed"} \cup DropPoints \cup PackPoints

FaultKinds    == {"none", "double_delete", "use_after_delete", "double_close",
                  "index_out_of_range", "foreign_param", "param_reassigned"}

(* The types of the dialog's members and of the threads' positions. *)
TypeOK ==
  /\ up \in BOOLEAN /\ gui \in GuiPoints
  /\ req \in Jobs \cup {None} /\ (gui = "idle" <=> req = None)
  /\ handle \in Jobs \cup {None} /\ open \subseteq Jobs
  /\ list \in Seq(Objects) /\ live \subseteq Objects
  /\ param \in Packs \cup {None} /\ enabled \in BOOLEAN
  /\ wrap \in [Jobs -> WrapperPoints] /\ target \in [Jobs -> Jobs \cup {None}]
  /\ gui \in {"delete", "fill"} => req \in Drops
  /\ work \in [Jobs -> WorkerPoints] /\ pos \in [Jobs -> Nat]
  /\ \A j \in Jobs : /\ work[j] \in DropPoints => j \in Drops
                     /\ work[j] \in PackPoints => j \in Packs
  /\ using \in [Jobs -> Objects \cup Packs \cup {None}]
  /\ \A j \in Drops : using[j] \in Objects \cup {None}
  /\ done \subseteq Objects /\ requested \subseteq Jobs
  /\ overlap \in BOOLEAN /\ failed \in BOOLEAN
  /\ fault \in FaultKinds

(* No object is used after it was deleted or deleted twice, no handle closed
   twice, no index past the end, and a pack uses its own folder and file name:
   the unlocked members of OnDropFiles, InternalReset, the wrappers and the
   workers are safe as long as no request came while a thread was alive. *)
FaultsNeedOverlap == fault # "none" => overlap

(* No worker is terminated and no wrapper waits for ever on the pseudo-handle
   unless a request came while a thread was alive. *)
KillsNeedOverlap ==
  (\E j \in Jobs : work[j] = "killed" \/ wrap[j] = "stuck") => overlap

(* InternalReset deletes a batch only when each of its objects has been
   through Unpack. *)
DeletedAfterUnpack ==
  \A j \in Drops :
    ~overlap /\ wrap[j] \in {"close", "forget", "delete", "clear"} => Items(list) \subseteq done

(* Between requests nothing is lost: every allocated object is in WorkerList
   (left there when no wrapper could be created), every handle is closed. *)
NothingLeaked ==
  ~overlap /\ Quiet => /\ live = Items(list)
                       /\ open = {} /\ handle = None

(* While a worker runs the controls stay greyed, so the options it copied and
   the fields of the pack page do not change under it. *)
GreyedWhileWorking == ~overlap => \A j \in Jobs : WorkerAlive(j) => ~enabled

(* Whatever the user did, once every thread has returned the controls are
   usable again, unless a thread could not be created. *)
ControlsRestored == Quiet /\ ~failed => enabled

(* The GUI thread always returns to its message loop: the handlers never wait
   for a worker that may itself wait for the GUI thread. *)
GuiReturns == []<>(gui = "idle" \/ ~up)

(* Every wrapper ends, or waits for ever on the pseudo-handle of the process. *)
WrappersEnd == \A j \in Jobs :
  WrapperAlive(j) ~> (wrap[j] \in {"ended", "stuck"} \/ ~up)

-----------------------------------------------------------------------------
(***************************************************************************)
(* Why requests that do not overlap are safe: the strengthening that makes *)
(* the invariants above inductive.  As long as no request was made over a  *)
(* live thread, at most one wrapper and its worker run, the member handle  *)
(* is theirs, and the list is that of their request.                       *)
(***************************************************************************)
FreshRequests ==
  /\ gui # "idle" => req \in requested
  /\ \A j \in Jobs : j \notin requested \/ j = req => wrap[j] = "unborn"

OneAtATime ==
  /\ \A j, k \in Jobs : Alive(j) /\ Alive(k) => j = k
  /\ gui # "idle" => \A j \in Jobs : ~Alive(j)
  /\ gui # "terminate"
  /\ \A j \in Jobs : work[j] # "killed" /\ wrap[j] # "stuck"

WorkerInWrapper == \A j \in Jobs :
  /\ wrap[j] \in {"unborn", "disable", "create"} => work[j] = "unborn" /\ pos[j] = 0
  /\ WorkerAlive(j) => wrap[j] \in {"publish", "wait", "blocked"}
  /\ wrap[j] \in {"close", "forget", "delete", "clear", "enable"} => work[j] = "ended"
  /\ wrap[j] \in {"publish", "wait", "blocked"} => work[j] # "unborn"

HandleIsWrappers ==
  /\ \A j \in Jobs : wrap[j] \in {"wait", "blocked", "close", "forget"} <=> handle = j
  /\ \A j \in Jobs : wrap[j] \in {"publish", "wait", "blocked", "close"} <=> j \in open
  /\ \A j \in Jobs : wrap[j] = "blocked" => target[j] = j

ListIsLive ==
  IF gui = "fill" \/ \E j \in Jobs : wrap[j] = "clear"
  THEN live = {} ELSE live = Items(list)

LoopProgress == \A j \in Drops :
  /\ work[j] \in DropPoints =>
       /\ pos[j] <= Len(list)
       /\ \A k \in 1 .. pos[j] : list[k] \in done
  /\ work[j] = "call" => pos[j] < Len(list)
  /\ work[j] = "unpack" => pos[j] < Len(list) /\ using[j] = list[pos[j] + 1]
  /\ work[j] = "restore" => pos[j] = Len(list)
  /\ work[j] = "ended" /\ WrapperAlive(j) /\ wrap[j] # "enable" => Items(list) \subseteq done

ParamIsOwn == \A j \in Packs :
  /\ WrapperAlive(j) \/ (gui = "spawn" /\ req = j) => param = j
  /\ work[j] = "packing" => using[j] = param

Greyed == \A j \in Jobs : WorkerAlive(j) \/ wrap[j] = "create" => ~enabled

Serialized ==
  /\ OneAtATime /\ WorkerInWrapper /\ HandleIsWrappers
  /\ ListIsLive /\ LoopProgress /\ ParamIsOwn /\ Greyed
  /\ fault = "none"

(* The inductive strengthening of the invariants above. *)
SerializedUnlessOverlap == ~overlap => Serialized

(* Whatever the user does, a request is served by one wrapper, which starts
   when the handler is left; past DisableAll it owes the controls an EnableAll. *)
OwedEnable == failed \/ enabled \/ \E j \in Jobs :
  WrapperAlive(j) /\ wrap[j] # "disable"
=============================================================================
