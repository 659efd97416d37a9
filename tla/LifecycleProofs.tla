--------------------------- MODULE LifecycleProofs ---------------------------
(***************************************************************************)
(* Proofs about WorkerLifecycle for every set of requests, every bound on  *)
(* the files of a drop, and a patient or an impatient user.                *)
(***************************************************************************)
EXTENDS LifecycleRefinement, SequenceTheorems, TLAPS

USE LifecycleAssumption

(* A list a drop fills holds objects of that drop. *)
LEMMA BatchType ==
  ASSUME NEW j \in Drops, NEW n \in 0 .. MaxFiles
  PROVE  /\ Batch(j, n) \in Seq(Objects)
         /\ Items(Batch(j, n)) \subseteq Objects
  BY DEF Batch, Items, Objects

(* The members of a list are objects. *)
LEMMA ItemsType ==
  ASSUME NEW s \in Seq(Objects)
  PROVE  Items(s) \subseteq Objects
  BY DEF Items

(* What a list has at an index below its length is one of its members. *)
LEMMA ItemIn ==
  ASSUME NEW s \in Seq(Objects), NEW i \in Nat, i < Len(s)
  PROVE  s[i + 1] \in Items(s) /\ s[i + 1] \in Objects
  BY DEF Items

(* The members of the dialog and the positions of its threads keep their
   types whatever the threads and the user do. *)
THEOREM TypeCorrect == Spec => []TypeOK
<1>1. Init => TypeOK
  <2> SUFFICES ASSUME Init PROVE TypeOK
    OBVIOUS
  <2>1. \A j \in Jobs : work[j] \notin DropPoints \cup PackPoints /\ using[j] = None
    BY DEF Init, DropPoints, PackPoints
  <2>2. /\ work \in [Jobs -> WorkerPoints] /\ wrap \in [Jobs -> WrapperPoints]
        /\ target \in [Jobs -> Jobs \cup {None}] /\ pos \in [Jobs -> Nat]
        /\ using \in [Jobs -> Objects \cup Packs \cup {None}]
    BY DEF Init, WorkerPoints, WrapperPoints
  <2>3. list \in Seq(Objects) /\ fault \in FaultKinds /\ gui \in GuiPoints
    BY DEF Init, GuiPoints, FaultKinds
  <2>4. \A j \in Drops : using[j] \in Objects \cup {None}
    BY <2>1 DEF Jobs
  <2> QED BY <2>1, <2>2, <2>3, <2>4 DEF Init, TypeOK
<1>2. TypeOK /\ [Next]_vars => TypeOK'
  <2> SUFFICES ASSUME TypeOK, [Next]_vars PROVE TypeOK'
    OBVIOUS
  <2> USE DEF TypeOK
  <2>1. ASSUME NEW j \in Jobs, Request(j) PROVE TypeOK'
    BY <2>1 DEF Request, shared, threads, GuiPoints, Jobs
  <2>2. CASE Gui
    <3>1. CASE CheckWorker
      BY <3>1 DEF CheckWorker, shared, threads, history, GuiPoints
    <3>2. CASE TerminateWorker
      BY <3>2 DEF TerminateWorker, shared, threads, history, GuiPoints, WorkerPoints, DropPoints, PackPoints
    <3>3. CASE CloseOld
      BY <3>3 DEF CloseOld, CloseHandle, Require, FaultKinds, shared, threads, history, GuiPoints
    <3>4. CASE ForgetOld
      BY <3>4 DEF ForgetOld, shared, threads, history, GuiPoints, Jobs
    <3>5. CASE DeleteOldList
      BY <3>5 DEF DeleteOldList, DeleteItems, Require, FaultKinds, shared, threads, history, GuiPoints
    <3>6. CASE FillList
      BY <3>6, BatchType DEF FillList, shared, threads, history, GuiPoints
    <3>7. CASE SpawnWrapper
      BY <3>7 DEF SpawnWrapper, shared, threads, history, GuiPoints, WrapperPoints
    <3> QED BY <2>2, <3>1, <3>2, <3>3, <3>4, <3>5, <3>6, <3>7 DEF Gui
  <2>3. CASE Close
    BY <2>3 DEF Close, shared, threads, history
  <2>4. ASSUME NEW j \in Jobs, Wrapper(j) PROVE TypeOK'
    <3> USE DEF shared, threads, history, WrapperPoints, WorkerPoints, DropPoints, PackPoints
    <3>1. CASE DisableAll(j) BY <3>1 DEF DisableAll
    <3>2. CASE CreateWorker(j)
      <4>1. open' \subseteq Jobs /\ failed' \in BOOLEAN
        BY <3>2 DEF CreateWorker
      <4>2. wrap' \in [Jobs -> WrapperPoints]
        <5>1. wrap' = [wrap EXCEPT ![j] = "publish"] \/ wrap' = [wrap EXCEPT ![j] = "ended"]
          BY <3>2 DEF CreateWorker
        <5>2. "publish" \in WrapperPoints /\ "ended" \in WrapperPoints
          OBVIOUS
        <5>3. wrap \in [Jobs -> WrapperPoints]
          OBVIOUS
        <5> HIDE DEF TypeOK, WrapperPoints
        <5> QED BY <5>1, <5>2, <5>3
      <4>3. work' \in [Jobs -> WorkerPoints]
        <5>1. CASE UNCHANGED work
          BY <5>1
        <5>2. CASE work' = [work EXCEPT ![j] = IF j \in Drops THEN "loop" ELSE "begin"]
          <6> DEFINE point == IF j \in Drops THEN "loop" ELSE "begin"
          <6>1. point \in WorkerPoints
            OBVIOUS
          <6> HIDE DEF point, WorkerPoints
          <6> QED BY <5>2, <6>1 DEF point
        <5> QED BY <3>2, <5>1, <5>2 DEF CreateWorker
      <4>4. \A k \in Jobs : /\ work'[k] \in DropPoints => k \in Drops
                           /\ work'[k] \in PackPoints => k \in Packs
        BY <3>2 DEF CreateWorker, Jobs
      <4> QED BY <3>2, <4>1, <4>2, <4>3, <4>4 DEF CreateWorker
    <3>3. CASE PublishHandle(j) BY <3>3 DEF PublishHandle
    <3>4. CASE Wait(j) BY <3>4 DEF Wait
    <3>5. CASE Wake(j) BY <3>5 DEF Wake
    <3>6. CASE CloseWaited(j) BY <3>6 DEF CloseWaited, CloseHandle, Require, FaultKinds
    <3>7. CASE ForgetHandle(j) BY <3>7 DEF ForgetHandle
    <3>8. CASE DeleteList(j) BY <3>8 DEF DeleteList, DeleteItems, Require, FaultKinds
    <3>9. CASE ClearList(j) BY <3>9 DEF ClearList
    <3>10. CASE EnableAll(j) BY <3>10 DEF EnableAll
    <3> QED BY <2>4, <3>1, <3>2, <3>3, <3>4, <3>5, <3>6, <3>7, <3>8, <3>9, <3>10 DEF Wrapper
  <2>5. ASSUME NEW j \in Jobs, Worker(j) PROVE TypeOK'
    <3> USE DEF shared, threads, history, WorkerPoints, DropPoints, PackPoints
    <3>1. CASE NextItem(j) BY <3>1 DEF NextItem
    <3>2. CASE BeginUnpack(j)
      <4>1. j \in Drops /\ work' \in [Jobs -> WorkerPoints]
            /\ \A k \in Jobs : /\ work'[k] \in DropPoints => k \in Drops
                              /\ work'[k] \in PackPoints => k \in Packs
        BY <3>2 DEF BeginUnpack
      <4>2. pos[j] < Len(list) => list[pos[j] + 1] \in Objects
        OBVIOUS
      <4>3. using' \in [Jobs -> Objects \cup Packs \cup {None}]
            /\ \A k \in Drops : using'[k] \in Objects \cup {None}
        <5>1. CASE pos[j] < Len(list)
          <6>1. using' = [using EXCEPT ![j] = list[pos[j] + 1]]
            BY <3>2, <5>1 DEF BeginUnpack
          <6> QED BY <4>1, <4>2, <5>1, <6>1 DEF Jobs
        <5>2. CASE ~(pos[j] < Len(list))
          BY <3>2, <5>2 DEF BeginUnpack
        <5> QED BY <5>1, <5>2
      <4>4. up' \in BOOLEAN /\ fault' \in FaultKinds
        BY <3>2 DEF BeginUnpack, Require, FaultKinds
      <4> QED BY <3>2, <4>1, <4>3, <4>4 DEF BeginUnpack
    <3>3. CASE EndUnpack(j)
      <4>1. j \in Drops /\ work' \in [Jobs -> WorkerPoints] /\ pos' \in [Jobs -> Nat]
            /\ \A k \in Jobs : /\ work'[k] \in DropPoints => k \in Drops
                              /\ work'[k] \in PackPoints => k \in Packs
        BY <3>3 DEF EndUnpack
      <4>2. using' \in [Jobs -> Objects \cup Packs \cup {None}]
            /\ \A k \in Drops : using'[k] \in Objects \cup {None}
        BY <3>3, <4>1 DEF EndUnpack, Jobs
      <4>3. done' \subseteq Objects
        <5>1. using[j] \in Objects \cup {None}
          BY <4>1
        <5>2. done' = done \/ (using[j] # None /\ done' = done \cup {using[j]})
          BY <3>3 DEF EndUnpack
        <5> QED BY <5>1, <5>2
      <4>4. up' \in BOOLEAN /\ fault' \in FaultKinds
        BY <3>3 DEF EndUnpack, Require, FaultKinds
      <4> QED BY <3>3, <4>1, <4>2, <4>3, <4>4 DEF EndUnpack
    <3>4. CASE LeaveLoop(j) BY <3>4 DEF LeaveLoop
    <3>5. CASE WorkerEnableAll(j) BY <3>5 DEF WorkerEnableAll
    <3>6. CASE BeginPack(j) BY <3>6 DEF BeginPack, FaultKinds
    <3>7. CASE EndPack(j)
      <4>1. work' \in [Jobs -> WorkerPoints]
            /\ \A k \in Jobs : /\ work'[k] \in DropPoints => k \in Drops
                              /\ work'[k] \in PackPoints => k \in Packs
        BY <3>7 DEF EndPack
      <4>2. using' \in [Jobs -> Objects \cup Packs \cup {None}]
            /\ \A k \in Drops : using'[k] \in Objects \cup {None}
        BY <3>7 DEF EndPack, Jobs
      <4>3. up' \in BOOLEAN /\ fault' \in FaultKinds
        BY <3>7 DEF EndPack, Require, FaultKinds
      <4> QED BY <3>7, <4>1, <4>2, <4>3 DEF EndPack
    <3> QED BY <2>5, <3>1, <3>2, <3>3, <3>4, <3>5, <3>6, <3>7 DEF Worker
  <2>6. CASE UNCHANGED vars
    BY <2>6 DEF vars, shared, threads, history
  <2> QED BY <2>1, <2>2, <2>3, <2>4, <2>5, <2>6 DEF Next
<1> QED BY <1>1, <1>2, PTL DEF Spec

-----------------------------------------------------------------------------
(* An overlap is never forgotten. *)
LEMMA OverlapStays == overlap /\ [Next]_vars => overlap'
<1> SUFFICES ASSUME overlap, [Next]_vars PROVE overlap'
  OBVIOUS
<1> USE DEF history
<1>1. ASSUME NEW j \in Jobs, Request(j) PROVE overlap'
  BY <1>1 DEF Request
<1>2. CASE Gui
  BY <1>2 DEF Gui, CheckWorker, TerminateWorker, CloseOld, ForgetOld, DeleteOldList,
              FillList, SpawnWrapper
<1>3. CASE Close
  BY <1>3 DEF Close
<1>4. ASSUME NEW j \in Jobs, Wrapper(j) PROVE overlap'
  BY <1>4 DEF Wrapper, DisableAll, CreateWorker, PublishHandle, Wait, Wake, CloseWaited,
              ForgetHandle, DeleteList, ClearList, EnableAll
<1>5. ASSUME NEW j \in Jobs, Worker(j) PROVE overlap'
  BY <1>5 DEF Worker, NextItem, BeginUnpack, EndUnpack, LeaveLoop, WorkerEnableAll,
              BeginPack, EndPack
<1>6. CASE UNCHANGED vars
  BY <1>6 DEF vars
<1> QED BY <1>1, <1>2, <1>3, <1>4, <1>5, <1>6 DEF Next

(* A request has no wrapper before its handler is left. *)
LEMMA RequestsFresh == Spec => []FreshRequests
<1>1. Init => FreshRequests
  BY DEF Init, FreshRequests
<1>2. TypeOK /\ FreshRequests /\ [Next]_vars => FreshRequests'
  <2> SUFFICES ASSUME TypeOK, FreshRequests, [Next]_vars PROVE FreshRequests'
    OBVIOUS
  <2> USE DEF TypeOK, FreshRequests, shared, threads, history
  <2>1. ASSUME NEW j \in Jobs, Request(j) PROVE FreshRequests'
    BY <2>1 DEF Request, Pumping
  <2>2. ASSUME Gui PROVE FreshRequests'
    BY <2>2 DEF Gui, CheckWorker, TerminateWorker, CloseOld, ForgetOld, DeleteOldList,
                FillList, SpawnWrapper, Jobs
  <2>3. CASE Close
    BY <2>3 DEF Close
  <2>4. ASSUME NEW j \in Jobs, Wrapper(j) PROVE FreshRequests'
    BY <2>4 DEF Wrapper, DisableAll, CreateWorker, PublishHandle, Wait, Wake, CloseWaited,
                ForgetHandle, DeleteList, ClearList, EnableAll
  <2>5. ASSUME NEW j \in Jobs, Worker(j) PROVE FreshRequests'
    BY <2>5, Zenon DEF Worker, NextItem, BeginUnpack, EndUnpack, LeaveLoop, WorkerEnableAll,
                BeginPack, EndPack
  <2>6. CASE UNCHANGED vars
    BY <2>6 DEF vars
  <2> QED BY <2>1, <2>2, <2>3, <2>4, <2>5, <2>6 DEF Next
<1> QED BY <1>1, <1>2, TypeCorrect, PTL DEF Spec

(* One step of any thread keeps Serialized, as long as it makes no request
   over a live thread. *)
LEMMA SerializedStep ==
  ASSUME TypeOK, TypeOK', FreshRequests, ~overlap', ~overlap => Serialized, [Next]_vars
  PROVE  Serialized'
<1>1. ~overlap /\ Serialized
  BY OverlapStays DEF TypeOK
<1> USE <1>1 DEF TypeOK, Serialized, FreshRequests, OneAtATime, WorkerInWrapper,
             HandleIsWrappers, ListIsLive, LoopProgress, ParamIsOwn, Greyed, Alive,
             WrapperAlive, WorkerAlive, DropPoints, PackPoints, Jobs,
             shared, threads, history
<1>2. ASSUME NEW j \in Jobs, Request(j) PROVE Serialized'
  <2>1. OneAtATime'
    BY <1>2 DEF Request
  <2>2. WorkerInWrapper'
    BY <1>2 DEF Request
  <2>3. HandleIsWrappers'
    BY <1>2 DEF Request
  <2>4. ListIsLive'
    BY <1>2 DEF Request, Pumping
  <2>5. LoopProgress'
    BY <1>2 DEF Request
  <2>6. ParamIsOwn'
    BY <1>2 DEF Request
  <2>7. Greyed'
    BY <1>2 DEF Request
  <2>8. fault' = "none"
    BY <1>2 DEF Request
  <2> QED BY <2>1, <2>2, <2>3, <2>4, <2>5, <2>6, <2>7, <2>8
<1>3. CASE CheckWorker
  BY <1>3 DEF CheckWorker
<1>4. CASE TerminateWorker
  BY <1>4 DEF TerminateWorker
<1>5. CASE CloseOld
  BY <1>5 DEF CloseOld, CloseHandle, Require
<1>6. CASE ForgetOld
  <2>1. OneAtATime'
    BY <1>6 DEF ForgetOld
  <2>2. WorkerInWrapper'
    BY <1>6 DEF ForgetOld
  <2>3. HandleIsWrappers'
    BY <1>6 DEF ForgetOld
  <2>4. ListIsLive'
    BY <1>6 DEF ForgetOld, Items
  <2>5. LoopProgress'
    BY <1>6 DEF ForgetOld
  <2>6. ParamIsOwn'
    BY <1>6 DEF ForgetOld
  <2>7. Greyed'
    BY <1>6 DEF ForgetOld
  <2>8. fault' = "none"
    BY <1>6 DEF ForgetOld
  <2> QED BY <2>1, <2>2, <2>3, <2>4, <2>5, <2>6, <2>7, <2>8
<1>7. CASE DeleteOldList
  BY <1>7 DEF DeleteOldList, DeleteItems, Require
<1>8. CASE FillList
  BY <1>8 DEF FillList
<1>9. CASE SpawnWrapper
  <2>1. OneAtATime'
    <3>1. \A k \in Jobs : ~Alive(k)
      BY <1>9 DEF SpawnWrapper
    <3>2. \A k \in Jobs \ {req} : wrap'[k] = wrap[k] /\ work'[k] = work[k]
      BY <1>9 DEF SpawnWrapper
    <3>3. \A k \in Jobs : Alive(k)' => k = req
      BY <3>1, <3>2
    <3>4. gui' = "idle" /\ \A k \in Jobs : work'[k] # "killed" /\ wrap'[k] # "stuck"
      BY <1>9 DEF SpawnWrapper
    <3> HIDE DEF Alive
    <3> QED BY <3>3, <3>4
  <2>2. WorkerInWrapper'
    BY <1>9 DEF SpawnWrapper
  <2>3. HandleIsWrappers'
    BY <1>9, SMTT(60) DEF SpawnWrapper
  <2>4. ListIsLive'
    BY <1>9 DEF SpawnWrapper, Items
  <2>5. LoopProgress'
    BY <1>9 DEF SpawnWrapper
  <2>6. ParamIsOwn'
    BY <1>9 DEF SpawnWrapper
  <2>7. Greyed'
    BY <1>9 DEF SpawnWrapper
  <2>8. fault' = "none"
    BY <1>9 DEF SpawnWrapper
  <2> QED BY <2>1, <2>2, <2>3, <2>4, <2>5, <2>6, <2>7, <2>8
<1>10. CASE Close
  BY <1>10 DEF Close
<1>11. ASSUME NEW j \in Jobs, DisableAll(j) PROVE Serialized'
  BY <1>11 DEF DisableAll
<1>12. ASSUME NEW j \in Jobs, CreateWorker(j) PROVE Serialized'
  <2>1. OneAtATime'
    <3>1. \A k \in Jobs \ {j} : wrap'[k] = wrap[k] /\ work'[k] = work[k]
      BY <1>12 DEF CreateWorker
    <3>2. Alive(j)
      BY <1>12 DEF CreateWorker
    <3>3. \A k \in Jobs : Alive(k)' => Alive(k)
      BY <3>1, <3>2
    <3>4. gui' = gui /\ \A k \in Jobs : work'[k] # "killed" /\ wrap'[k] # "stuck"
      BY <1>12 DEF CreateWorker
    <3>5. OneAtATime
      OBVIOUS
    <3> HIDE DEF Alive, Serialized
    <3> QED BY <3>3, <3>4, <3>5
  <2>2. WorkerInWrapper'
    BY <1>12 DEF CreateWorker
  <2>3. HandleIsWrappers'
    BY <1>12 DEF CreateWorker
  <2>4. ListIsLive'
    BY <1>12 DEF CreateWorker, Items
  <2>5. LoopProgress'
    BY <1>12 DEF CreateWorker
  <2>6. ParamIsOwn'
    BY <1>12 DEF CreateWorker
  <2>7. Greyed'
    BY <1>12 DEF CreateWorker
  <2>8. fault' = "none"
    BY <1>12 DEF CreateWorker
  <2> QED BY <2>1, <2>2, <2>3, <2>4, <2>5, <2>6, <2>7, <2>8
<1>13. ASSUME NEW j \in Jobs, PublishHandle(j) PROVE Serialized'
  <2>1. OneAtATime'
    BY <1>13 DEF PublishHandle
  <2>2. WorkerInWrapper'
    BY <1>13 DEF PublishHandle
  <2>3. HandleIsWrappers'
    BY <1>13, SMTT(30) DEF PublishHandle
  <2>4. ListIsLive'
    BY <1>13 DEF PublishHandle, Items
  <2>5. LoopProgress'
    BY <1>13 DEF PublishHandle, Items
  <2>6. ParamIsOwn'
    BY <1>13 DEF PublishHandle
  <2>7. Greyed'
    BY <1>13 DEF PublishHandle
  <2>8. fault' = "none"
    BY <1>13 DEF PublishHandle
  <2> QED BY <2>1, <2>2, <2>3, <2>4, <2>5, <2>6, <2>7, <2>8
<1>14. ASSUME NEW j \in Jobs, Wait(j) PROVE Serialized'
  BY <1>14 DEF Wait
<1>15. ASSUME NEW j \in Jobs, Wake(j) PROVE Serialized'
  BY <1>15 DEF Wake
<1>16. ASSUME NEW j \in Jobs, CloseWaited(j) PROVE Serialized'
  BY <1>16 DEF CloseWaited, CloseHandle, Require
<1>17. ASSUME NEW j \in Jobs, ForgetHandle(j) PROVE Serialized'
  BY <1>17 DEF ForgetHandle
<1>18. ASSUME NEW j \in Jobs, DeleteList(j) PROVE Serialized'
  <2>1. OneAtATime'
    BY <1>18 DEF DeleteList, DeleteItems, Require
  <2>2. WorkerInWrapper'
    BY <1>18 DEF DeleteList, DeleteItems, Require
  <2>3. HandleIsWrappers'
    BY <1>18 DEF DeleteList, DeleteItems, Require
  <2>4. ListIsLive'
    BY <1>18 DEF DeleteList, DeleteItems, Require, Items
  <2>5. LoopProgress'
    BY <1>18 DEF DeleteList, DeleteItems, Require
  <2>6. ParamIsOwn'
    BY <1>18 DEF DeleteList, DeleteItems, Require
  <2>7. Greyed'
    BY <1>18 DEF DeleteList, DeleteItems, Require
  <2>8. fault' = "none"
    <3>1. live = Items(list)
      BY <1>18 DEF DeleteList
    <3> QED BY <1>18, <3>1 DEF DeleteList, DeleteItems, Require
  <2> QED BY <2>1, <2>2, <2>3, <2>4, <2>5, <2>6, <2>7, <2>8
<1>19. ASSUME NEW j \in Jobs, ClearList(j) PROVE Serialized'
  <2>1. OneAtATime'
    BY <1>19 DEF ClearList
  <2>2. WorkerInWrapper'
    BY <1>19 DEF ClearList
  <2>3. HandleIsWrappers'
    BY <1>19 DEF ClearList
  <2>4. ListIsLive'
    BY <1>19 DEF ClearList, Items
  <2>5. LoopProgress'
    BY <1>19 DEF ClearList
  <2>6. ParamIsOwn'
    BY <1>19 DEF ClearList
  <2>7. Greyed'
    BY <1>19 DEF ClearList
  <2>8. fault' = "none"
    BY <1>19 DEF ClearList
  <2> QED BY <2>1, <2>2, <2>3, <2>4, <2>5, <2>6, <2>7, <2>8
<1>20. ASSUME NEW j \in Jobs, EnableAll(j) PROVE Serialized'
  BY <1>20 DEF EnableAll
<1>21. ASSUME NEW j \in Jobs, NextItem(j) PROVE Serialized'
  BY <1>21 DEF NextItem
<1>22. ASSUME NEW j \in Jobs, BeginUnpack(j) PROVE Serialized'
  <2>0. /\ j \in Drops /\ pos[j] < Len(list) /\ list[pos[j] + 1] \in live
        /\ using' = [using EXCEPT ![j] = list[pos[j] + 1]]
    <3>1. j \in Drops /\ pos[j] < Len(list)
      BY <1>22 DEF BeginUnpack
    <3>2. list \in Seq(Objects) /\ pos[j] \in Nat
      OBVIOUS
    <3>3. list[pos[j] + 1] \in Items(list)
      BY <3>1, <3>2, ItemIn, Zenon
    <3>4. live = Items(list)
      BY <1>22, <3>1 DEF BeginUnpack
    <3> QED BY <1>22, <3>1, <3>3, <3>4 DEF BeginUnpack
  <2>1. OneAtATime'
    BY <1>22 DEF BeginUnpack, Require
  <2>2. WorkerInWrapper'
    BY <1>22 DEF BeginUnpack, Require
  <2>3. HandleIsWrappers'
    BY <1>22 DEF BeginUnpack, Require
  <2>4. ListIsLive'
    BY <1>22 DEF BeginUnpack, Require, Items
  <2>5. LoopProgress'
    BY <1>22, <2>0 DEF BeginUnpack
  <2>6. ParamIsOwn'
    BY <1>22 DEF BeginUnpack, Require
  <2>7. Greyed'
    BY <1>22 DEF BeginUnpack, Require
  <2>8. fault' = "none"
    BY <1>22, <2>0 DEF BeginUnpack, Require
  <2> QED BY <2>1, <2>2, <2>3, <2>4, <2>5, <2>6, <2>7, <2>8
<1>23. ASSUME NEW j \in Jobs, EndUnpack(j) PROVE Serialized'
  <2>0. /\ j \in Drops /\ pos[j] < Len(list)
        /\ using[j] = list[pos[j] + 1] /\ using[j] # None /\ using[j] \in live
        /\ done' = done \cup {using[j]}
    <3>1. j \in Drops /\ pos[j] < Len(list) /\ using[j] = list[pos[j] + 1]
      BY <1>23 DEF EndUnpack
    <3>0. list \in Seq(Objects) /\ pos[j] \in Nat
      OBVIOUS
    <3>2. list[pos[j] + 1] \in Objects /\ list[pos[j] + 1] \in Items(list)
      BY <3>0, <3>1, ItemIn, Zenon
    <3>3. live = Items(list)
      BY <1>23, <3>1 DEF EndUnpack
    <3>4. None \notin Objects
      BY DEF Objects
    <3>5. using[j] \in live /\ using[j] # None
      BY <3>1, <3>2, <3>3, <3>4
    <3>6. done' = done \cup {using[j]}
      BY <1>23, <3>5 DEF EndUnpack
    <3> QED BY <3>1, <3>5, <3>6
  <2>1. OneAtATime'
    BY <1>23 DEF EndUnpack, Require
  <2>2. WorkerInWrapper'
    BY <1>23 DEF EndUnpack, Require
  <2>3. HandleIsWrappers'
    BY <1>23 DEF EndUnpack, Require
  <2>4. ListIsLive'
    BY <1>23 DEF EndUnpack, Require, Items
  <2>5. LoopProgress'
    <3> SUFFICES ASSUME NEW k \in Drops PROVE LoopProgress!(k)'
      BY DEF LoopProgress
    <3>1. CASE k = j
      <4>1. \A i \in 1 .. pos[j] + 1 : list[i] \in done'
        BY <1>23, <2>0, <3>1 DEF EndUnpack
      <4> QED BY <1>23, <2>0, <3>1, <4>1 DEF EndUnpack
    <3>2. CASE k # j
      BY <1>23, <2>0, <3>2 DEF EndUnpack
    <3> QED BY <3>1, <3>2
  <2>6. ParamIsOwn'
    BY <1>23 DEF EndUnpack, Require
  <2>7. Greyed'
    BY <1>23 DEF EndUnpack, Require
  <2>8. fault' = "none"
    BY <1>23, <2>0 DEF EndUnpack, Require
  <2> QED BY <2>1, <2>2, <2>3, <2>4, <2>5, <2>6, <2>7, <2>8
<1>24. ASSUME NEW j \in Jobs, LeaveLoop(j) PROVE Serialized'
  BY <1>24 DEF LeaveLoop
<1>25. ASSUME NEW j \in Jobs, WorkerEnableAll(j) PROVE Serialized'
  <2>1. OneAtATime'
    BY <1>25 DEF WorkerEnableAll
  <2>2. WorkerInWrapper'
    BY <1>25 DEF WorkerEnableAll
  <2>3. HandleIsWrappers'
    BY <1>25 DEF WorkerEnableAll
  <2>4. ListIsLive'
    BY <1>25 DEF WorkerEnableAll, Items
  <2>5. LoopProgress'
    BY <1>25 DEF WorkerEnableAll, Items
  <2>6. ParamIsOwn'
    BY <1>25 DEF WorkerEnableAll
  <2>7. Greyed'
    BY <1>25 DEF WorkerEnableAll
  <2>8. fault' = "none"
    BY <1>25 DEF WorkerEnableAll
  <2> QED BY <2>1, <2>2, <2>3, <2>4, <2>5, <2>6, <2>7, <2>8
<1>26. ASSUME NEW j \in Jobs, BeginPack(j) PROVE Serialized'
  BY <1>26 DEF BeginPack
<1>27. ASSUME NEW j \in Jobs, EndPack(j) PROVE Serialized'
  BY <1>27 DEF EndPack, Require
<1>28. CASE UNCHANGED vars
  BY <1>28 DEF vars, Items
<1> QED BY <1>2, <1>3, <1>4, <1>5, <1>6, <1>7, <1>8, <1>9, <1>10, <1>11, <1>12, <1>13, <1>14, <1>15, <1>16, <1>17, <1>18, <1>19, <1>20, <1>21, <1>22, <1>23, <1>24, <1>25, <1>26, <1>27, <1>28, Zenon DEF Next, Gui, Wrapper, Worker

(* Until a request comes while a thread is alive, the wrapper of one request
   and its worker are alone with the handle, the list and the controls. *)
THEOREM SerializedCorrect == Spec => []SerializedUnlessOverlap
<1>1. Init => SerializedUnlessOverlap
  BY DEF Init, SerializedUnlessOverlap, Serialized, OneAtATime, WorkerInWrapper,
         HandleIsWrappers, ListIsLive, LoopProgress, ParamIsOwn, Greyed, Alive,
         WrapperAlive, WorkerAlive, DropPoints, PackPoints, Jobs, Items
<1>2. TypeOK /\ TypeOK' /\ FreshRequests /\ SerializedUnlessOverlap /\ [Next]_vars
      => SerializedUnlessOverlap'
  <2> SUFFICES ASSUME TypeOK, TypeOK', FreshRequests, SerializedUnlessOverlap,
                      [Next]_vars, ~overlap'
               PROVE  Serialized'
    BY DEF SerializedUnlessOverlap
  <2>1. ~overlap => Serialized
    BY DEF SerializedUnlessOverlap
  <2> QED BY <2>1, SerializedStep
<1> QED BY <1>1, <1>2, TypeCorrect, RequestsFresh, PTL DEF Spec

(* No memory or handle error without an overlap: OnDropFiles, InternalReset,
   the wrappers and the workers use the members safely one request at a time. *)
THEOREM FaultsOnlyByOverlap == Spec => []FaultsNeedOverlap
<1>1. SerializedUnlessOverlap => FaultsNeedOverlap
  BY DEF SerializedUnlessOverlap, Serialized, FaultsNeedOverlap
<1> QED BY <1>1, SerializedCorrect, PTL

(* Without an overlap TerminateThread is never reached and no wrapper waits on
   the process's own pseudo-handle. *)
THEOREM KillsOnlyByOverlap == Spec => []KillsNeedOverlap
<1>1. SerializedUnlessOverlap => KillsNeedOverlap
  BY DEF SerializedUnlessOverlap, Serialized, OneAtATime, KillsNeedOverlap
<1> QED BY <1>1, SerializedCorrect, PTL

(* InternalReset never deletes an object that has not been through Unpack. *)
THEOREM NoUnpackSkipped == Spec => []DeletedAfterUnpack
<1>1. TypeOK /\ SerializedUnlessOverlap => DeletedAfterUnpack
  BY DEF TypeOK, SerializedUnlessOverlap, Serialized, WorkerInWrapper, LoopProgress,
         WrapperAlive, Jobs, DeletedAfterUnpack
<1> QED BY <1>1, TypeCorrect, SerializedCorrect, PTL

(* Between requests every allocated object is in WorkerList and no handle is
   left open. *)
THEOREM NoLeak == Spec => []NothingLeaked
<1>1. TypeOK /\ SerializedUnlessOverlap => NothingLeaked
  BY DEF TypeOK, SerializedUnlessOverlap, Serialized, HandleIsWrappers, ListIsLive,
         Quiet, Alive, WrapperAlive, NothingLeaked
<1> QED BY <1>1, TypeCorrect, SerializedCorrect, PTL

(* The controls are greyed as long as a worker of an unhurried user runs. *)
THEOREM GreyedCorrect == Spec => []GreyedWhileWorking
<1>1. SerializedUnlessOverlap => GreyedWhileWorking
  BY DEF SerializedUnlessOverlap, Serialized, Greyed, GreyedWhileWorking
<1> QED BY <1>1, SerializedCorrect, PTL

(* Overlap or not, the controls come back when every thread has returned. *)
THEOREM ControlsComeBack == Spec => []ControlsRestored
<1>1. Init => OwedEnable
  BY DEF Init, OwedEnable
<1>2. TypeOK /\ FreshRequests /\ OwedEnable /\ [Next]_vars => OwedEnable'
  <2> SUFFICES ASSUME TypeOK, FreshRequests, OwedEnable, [Next]_vars PROVE OwedEnable'
    OBVIOUS
  <2> USE DEF TypeOK, FreshRequests, OwedEnable, WrapperAlive, shared, threads, history
  <2>1. ASSUME NEW j \in Jobs, Request(j) PROVE OwedEnable'
    BY <2>1 DEF Request
  <2>2. ASSUME Gui PROVE OwedEnable'
    BY <2>2 DEF Gui, CheckWorker, TerminateWorker, CloseOld, ForgetOld, DeleteOldList,
                FillList, SpawnWrapper
  <2>3. CASE Close
    BY <2>3 DEF Close
  <2>4. ASSUME NEW j \in Jobs, Wrapper(j) PROVE OwedEnable'
    <3>1. CASE DisableAll(j) BY <3>1 DEF DisableAll
    <3>2. CASE CreateWorker(j) BY <3>2 DEF CreateWorker
    <3>3. CASE PublishHandle(j) \/ Wait(j) \/ Wake(j)
      BY <3>3 DEF PublishHandle, Wait, Wake
    <3>4. CASE CloseWaited(j) \/ ForgetHandle(j) \/ DeleteList(j) \/ ClearList(j)
      BY <3>4 DEF CloseWaited, ForgetHandle, DeleteList, ClearList
    <3>5. CASE EnableAll(j) BY <3>5 DEF EnableAll
    <3> QED BY <2>4, <3>1, <3>2, <3>3, <3>4, <3>5 DEF Wrapper
  <2>5. ASSUME NEW j \in Jobs, Worker(j) PROVE OwedEnable'
    BY <2>5 DEF Worker, NextItem, BeginUnpack, EndUnpack, LeaveLoop, WorkerEnableAll,
                BeginPack, EndPack
  <2>6. CASE UNCHANGED vars
    BY <2>6 DEF vars
  <2> QED BY <2>1, <2>2, <2>3, <2>4, <2>5, <2>6 DEF Next
<1>3. OwedEnable => ControlsRestored
  BY DEF OwedEnable, ControlsRestored, Quiet, Alive
<1> QED BY <1>1, <1>2, <1>3, TypeCorrect, RequestsFresh, PTL DEF Spec

-----------------------------------------------------------------------------
(* The dialog's threads implement ExtractService, for every set of requests and
   every bound on the files of a drop, when the user is patient: each step of a
   thread is a step of the service or none.

   Beside Serialized the argument needs to know whose batch the list is, that a
   batch is new when its worker is created, and that nothing of it is left when
   the worker has ended. *)

(* WorkerList is the batch of the request that is served. *)
ListOwn == \A j \in Drops :
  WrapperAlive(j) \/ (gui = "spawn" /\ req = j) => \E n \in 0 .. MaxFiles : list = Batch(j, n)

(* Only a worker unpacks, and only objects of its own batch. *)
DoneOwn == \A j \in Drops, k \in 1 .. MaxFiles : <<j, k>> \in done => work[j] # "unborn"

(* A worker ends when the loop has passed the whole list. *)
EndPassed == \A j \in Drops : work[j] = "ended" /\ WrapperAlive(j) => pos[j] >= Len(list)

(* What InternalReset cleared stays empty until the next drop. *)
ClearedEmpty == \A j \in Jobs : wrap[j] = "enable" => list = <<>>

RefineInv == ~overlap /\ ListOwn /\ DoneOwn /\ EndPassed /\ ClearedEmpty

-----------------------------------------------------------------------------
(* A batch and its members. *)
LEMMA BatchFacts ==
  ASSUME NEW j \in Drops, NEW n \in 0 .. MaxFiles
  PROVE  /\ Batch(j, n) \in Seq(Objects) /\ Len(Batch(j, n)) = n
         /\ \A k \in 1 .. n : Batch(j, n)[k] = <<j, k>>
         /\ n = 0 => Batch(j, n) = <<>>
BY DEF Batch, Objects

LEMMA EmptyBatch ==
  ASSUME NEW j \in Drops
  PROVE  0 \in 0 .. MaxFiles /\ Batch(j, 0) = <<>>
BY DEF Batch

(* What is left of a list as the loop goes over it. *)
LEMMA RestFacts ==
  ASSUME NEW s \in Seq(Objects), NEW p \in Nat
  PROVE  /\ SubSeq(s, p + 1, Len(s)) \in Seq(Objects)
         /\ p >= Len(s) => SubSeq(s, p + 1, Len(s)) = <<>>
         /\ p = 0 => SubSeq(s, p + 1, Len(s)) = s
         /\ p < Len(s) => /\ SubSeq(s, p + 1, Len(s)) # <<>>
                          /\ Head(SubSeq(s, p + 1, Len(s))) = s[p + 1]
                          /\ Tail(SubSeq(s, p + 1, Len(s))) = SubSeq(s, p + 2, Len(s))
<1>1. Len(s) \in Nat
  BY LenProperties
<1>2. SubSeq(s, p + 1, Len(s)) \in Seq(Objects)
  BY <1>1
<1>3. ASSUME p >= Len(s) PROVE SubSeq(s, p + 1, Len(s)) = <<>>
  BY <1>1, <1>3
<1>4. ASSUME p = 0 PROVE SubSeq(s, p + 1, Len(s)) = s
  BY <1>1, <1>4, SubSeqFull
<1>5. ASSUME p < Len(s)
      PROVE  /\ SubSeq(s, p + 1, Len(s)) # <<>>
             /\ Head(SubSeq(s, p + 1, Len(s))) = s[p + 1]
             /\ Tail(SubSeq(s, p + 1, Len(s))) = SubSeq(s, p + 2, Len(s))
  <2> DEFINE m == p + 1
             n == Len(s)
  <2>1. m \in 1 .. Len(s) /\ n \in m .. Len(s) /\ m + 1 = p + 2
    BY <1>1, <1>5
  <2>2. Len(SubSeq(s, m, n)) = n - p /\ n - p # 0 /\ Len(<<>>) = 0
    BY <1>1, <1>5
  <2> HIDE DEF m, n
  <2>3. Head(SubSeq(s, m, n)) = s[m] /\ Tail(SubSeq(s, m, n)) = SubSeq(s, m + 1, n)
    BY <2>1, HeadTailOfSubSeq
  <2>4. SubSeq(s, m, n) # <<>>
    BY <2>2
  <2> QED BY <2>1, <2>3, <2>4 DEF m, n
<1> QED BY <1>2, <1>3, <1>4, <1>5

-----------------------------------------------------------------------------
(* RefineInv is inductive. *)
LEMMA PatientAlone ==
  ASSUME Patient, ~overlap, [Next]_vars
  PROVE  ~overlap'
<1> USE DEF history
<1>1. ASSUME NEW j \in Jobs, Request(j) PROVE ~overlap'
  BY <1>1 DEF Request, Quiet
<1>2. CASE Gui
  BY <1>2 DEF Gui, CheckWorker, TerminateWorker, CloseOld, ForgetOld, DeleteOldList,
              FillList, SpawnWrapper
<1>3. CASE Close
  BY <1>3 DEF Close
<1>4. ASSUME NEW j \in Jobs, Wrapper(j) PROVE ~overlap'
  BY <1>4 DEF Wrapper, DisableAll, CreateWorker, PublishHandle, Wait, Wake, CloseWaited,
              ForgetHandle, DeleteList, ClearList, EnableAll
<1>5. ASSUME NEW j \in Jobs, Worker(j) PROVE ~overlap'
  BY <1>5 DEF Worker, NextItem, BeginUnpack, EndUnpack, LeaveLoop, WorkerEnableAll,
              BeginPack, EndPack
<1>6. CASE UNCHANGED vars
  BY <1>6 DEF vars
<1> QED BY <1>1, <1>2, <1>3, <1>4, <1>5, <1>6 DEF Next

LEMMA ListOwnStep ==
  ASSUME TypeOK, Serialized, ListOwn, ClearedEmpty, [Next]_vars
  PROVE  ListOwn' /\ ClearedEmpty'
<1> USE DEF TypeOK, ListOwn, ClearedEmpty, WrapperAlive, shared, threads, history
<1>1. ASSUME NEW j \in Jobs, Request(j) PROVE ListOwn' /\ ClearedEmpty'
  BY <1>1 DEF Request, Jobs
<1>2. CASE CheckWorker \/ TerminateWorker \/ CloseOld \/ DeleteOldList
  BY <1>2 DEF CheckWorker, TerminateWorker, CloseOld, DeleteOldList, Jobs
<1>3. CASE ForgetOld
  BY <1>3 DEF ForgetOld, Jobs
<1>4. CASE FillList
  <2>1. \A j \in Jobs : ~WrapperAlive(j)
    BY <1>4 DEF FillList, Serialized, OneAtATime, Alive
  <2>2. req' = req /\ wrap' = wrap /\ \E n \in 0 .. MaxFiles : list' = Batch(req, n)
    BY <1>4 DEF FillList
  <2> QED BY <2>1, <2>2 DEF Jobs
<1>5. CASE SpawnWrapper
  BY <1>5 DEF SpawnWrapper, Jobs
<1>6. CASE Close
  BY <1>6 DEF Close
<1>7. ASSUME NEW j \in Jobs, Wrapper(j), ~ClearList(j) PROVE ListOwn' /\ ClearedEmpty'
  <2>1. list' = list /\ gui' = gui /\ req' = req
    BY <1>7 DEF Wrapper, DisableAll, CreateWorker, PublishHandle, Wait, Wake, CloseWaited,
                ForgetHandle, DeleteList, EnableAll
  <2>2. \A k \in Jobs : WrapperAlive(k)' => WrapperAlive(k)
    BY <1>7 DEF Wrapper, DisableAll, CreateWorker, PublishHandle, Wait, Wake, CloseWaited,
                ForgetHandle, DeleteList, EnableAll
  <2>3. \A k \in Jobs : wrap'[k] = "enable" => wrap[k] = "enable"
    BY <1>7 DEF Wrapper, DisableAll, CreateWorker, PublishHandle, Wait, Wake, CloseWaited,
                ForgetHandle, DeleteList, EnableAll
  <2> QED BY <2>1, <2>2, <2>3 DEF Jobs
<1>8. ASSUME NEW j \in Jobs, ClearList(j) PROVE ListOwn' /\ ClearedEmpty'
  <2>1. list' = <<>> /\ \A k \in Drops : 0 \in 0 .. MaxFiles /\ Batch(k, 0) = <<>>
    BY <1>8, EmptyBatch DEF ClearList
  <2> QED BY <2>1
<1>9. ASSUME NEW j \in Jobs, Worker(j) PROVE ListOwn' /\ ClearedEmpty'
  <2>1. list' = list /\ gui' = gui /\ req' = req /\ wrap' = wrap
    BY <1>9 DEF Worker, NextItem, BeginUnpack, EndUnpack, LeaveLoop, WorkerEnableAll,
                BeginPack, EndPack
  <2> QED BY <2>1
<1>10. CASE UNCHANGED vars
  BY <1>10 DEF vars
<1> QED BY <1>1, <1>2, <1>3, <1>4, <1>5, <1>6, <1>7, <1>8, <1>9, <1>10 DEF Next, Gui

LEMMA EndPassedStep ==
  ASSUME TypeOK, TypeOK', FreshRequests, Serialized, EndPassed, [Next]_vars
  PROVE  EndPassed'
<1> USE DEF TypeOK, EndPassed, WrapperAlive, shared, threads, history
<1>1. ASSUME NEW j \in Jobs, Request(j) PROVE EndPassed'
  BY <1>1 DEF Request
<1>2. CASE CheckWorker \/ CloseOld \/ DeleteOldList \/ ForgetOld
  BY <1>2 DEF CheckWorker, CloseOld, DeleteOldList, ForgetOld
<1>3. CASE TerminateWorker
  BY <1>3 DEF TerminateWorker, Serialized, OneAtATime
<1>4. CASE FillList
  <2>1. \A j \in Jobs : ~WrapperAlive(j)
    BY <1>4 DEF FillList, Serialized, OneAtATime, Alive
  <2> QED BY <1>4, <2>1 DEF FillList, Jobs
<1>5. CASE SpawnWrapper
  <2>1. \A j \in Jobs : WrapperAlive(j)' => j = req
    BY <1>5 DEF SpawnWrapper, Serialized, OneAtATime, Alive
  <2>2. work' = work /\ work[req] = "unborn"
    BY <1>5 DEF SpawnWrapper, FreshRequests, Serialized, WorkerInWrapper
  <2> QED BY <2>1, <2>2 DEF Jobs
<1>6. CASE Close
  BY <1>6 DEF Close
<1>7. ASSUME NEW j \in Jobs, Wrapper(j) PROVE EndPassed'
  <2>1. \A k \in Jobs : WrapperAlive(k)' => WrapperAlive(k)
    BY <1>7 DEF Wrapper, DisableAll, CreateWorker, PublishHandle, Wait, Wake, CloseWaited,
                ForgetHandle, DeleteList, ClearList, EnableAll
  <2>2. pos' = pos /\ list' \in {list, <<>>}
    BY <1>7 DEF Wrapper, DisableAll, CreateWorker, PublishHandle, Wait, Wake, CloseWaited,
                ForgetHandle, DeleteList, ClearList, EnableAll
  <2>3. \A k \in Jobs : work'[k] = "ended" => work[k] = "ended"
    BY <1>7 DEF Wrapper, DisableAll, CreateWorker, PublishHandle, Wait, Wake, CloseWaited,
                ForgetHandle, DeleteList, ClearList, EnableAll
  <2>4. Len(<<>>) = 0 /\ \A k \in Jobs : pos[k] \in Nat
    OBVIOUS
  <2> HIDE DEF TypeOK, WrapperAlive
  <2> QED BY <2>1, <2>2, <2>3, <2>4 DEF Jobs
<1>8. ASSUME NEW j \in Jobs, Worker(j) PROVE EndPassed'
  <2>1. list' = list /\ wrap' = wrap
    BY <1>8 DEF Worker, NextItem, BeginUnpack, EndUnpack, LeaveLoop, WorkerEnableAll,
                BeginPack, EndPack
  <2>2. \A k \in Jobs : work'[k] = "ended" => work[k] = "ended" \/ work[k] = "restore" \/ k \in Packs
    BY <1>8, ZenonT(60) DEF Worker, NextItem, BeginUnpack, EndUnpack, LeaveLoop, WorkerEnableAll,
                BeginPack, EndPack, PackPoints
  <2>3. \A k \in Jobs : work'[k] = "ended" => pos'[k] = pos[k]
    BY <1>8 DEF Worker, NextItem, BeginUnpack, EndUnpack, LeaveLoop, WorkerEnableAll,
                BeginPack, EndPack
  <2>4. \A k \in Drops : work[k] = "restore" => pos[k] = Len(list)
    BY DEF Serialized, LoopProgress
  <2>5. \A k \in Drops : k \in Jobs /\ k \notin Packs /\ pos[k] \in Nat
    BY DEF Jobs
  <2>6. Len(list) \in Nat
    OBVIOUS
  <2> HIDE DEF TypeOK
  <2> QED BY <2>1, <2>2, <2>3, <2>4, <2>5, <2>6
<1>9. CASE UNCHANGED vars
  BY <1>9 DEF vars
<1> QED BY <1>1, <1>2, <1>3, <1>4, <1>5, <1>6, <1>7, <1>8, <1>9 DEF Next, Gui

(* The object that a worker unpacks is the next one of its batch. *)
LEMMA UsingOwn ==
  ASSUME TypeOK, Serialized, ListOwn, NEW j \in Jobs, work[j] = "unpack"
  PROVE  /\ j \in Drops /\ WrapperAlive(j) /\ pos[j] < Len(list)
         /\ using[j] = list[pos[j] + 1] /\ using[j] # None
         /\ using[j] = <<j, pos[j] + 1>> /\ pos[j] + 1 \in 1 .. MaxFiles
<1>1. j \in Drops /\ pos[j] \in Nat
  BY DEF TypeOK, DropPoints
<1>2. wrap[j] \in {"publish", "wait", "blocked"}
  BY DEF Serialized, WorkerInWrapper, WorkerAlive
<1>3. pos[j] < Len(list) /\ using[j] = list[pos[j] + 1]
  BY <1>1 DEF Serialized, LoopProgress
<1>4. PICK n \in 0 .. MaxFiles : list = Batch(j, n)
  BY <1>1, <1>2 DEF ListOwn, WrapperAlive
<1>5. Len(list) = n /\ \A k \in 1 .. n : list[k] = <<j, k>>
  BY <1>1, <1>4, BatchFacts
<1>6. pos[j] + 1 \in 1 .. n /\ pos[j] + 1 \in 1 .. MaxFiles
  BY <1>1, <1>3, <1>5
<1>7. using[j] = <<j, pos[j] + 1>>
  BY <1>3, <1>5, <1>6
<1>8. <<j, pos[j] + 1>> # None
  BY <1>1, <1>6
<1> QED BY <1>1, <1>2, <1>3, <1>6, <1>7, <1>8 DEF WrapperAlive

LEMMA DoneOwnStep ==
  ASSUME TypeOK, Serialized, ListOwn, DoneOwn, [Next]_vars
  PROVE  DoneOwn'
<1> USE DEF TypeOK, shared, threads, history
<1>1. \A k \in Jobs : work[k] # "unborn" => work'[k] # "unborn"
  <2>1. ASSUME NEW j \in Jobs, Request(j) PROVE work' = work
    BY <2>1 DEF Request
  <2>2. CASE Gui \/ Close
    BY <2>2 DEF Gui, CheckWorker, TerminateWorker, CloseOld, ForgetOld, DeleteOldList,
                FillList, SpawnWrapper, Close
  <2>3. ASSUME NEW j \in Jobs, Wrapper(j) PROVE \A k \in Jobs : work[k] # "unborn" => work'[k] # "unborn"
    BY <2>3 DEF Wrapper, DisableAll, CreateWorker, PublishHandle, Wait, Wake, CloseWaited,
                ForgetHandle, DeleteList, ClearList, EnableAll
  <2>4. ASSUME NEW j \in Jobs, Worker(j) PROVE \A k \in Jobs : work[k] # "unborn" => work'[k] # "unborn"
    BY <2>4 DEF Worker, NextItem, BeginUnpack, EndUnpack, LeaveLoop, WorkerEnableAll,
                BeginPack, EndPack
  <2>5. CASE UNCHANGED vars
    BY <2>5 DEF vars
  <2> QED BY <2>1, <2>2, <2>3, <2>4, <2>5 DEF Next
<1>2. done' = done \/ \E j \in Jobs : EndUnpack(j)
  BY DEF Next, Request, Gui, CheckWorker, TerminateWorker, CloseOld, ForgetOld, DeleteOldList,
         FillList, SpawnWrapper, Close, Wrapper, DisableAll, CreateWorker, PublishHandle, Wait, Wake,
         CloseWaited, ForgetHandle, DeleteList, ClearList, EnableAll,
         Worker, NextItem, BeginUnpack, LeaveLoop, WorkerEnableAll, BeginPack, EndPack, vars
<1>3. CASE done' = done
  BY <1>1, <1>3 DEF DoneOwn, Jobs
<1>4. ASSUME NEW j \in Jobs, EndUnpack(j) PROVE DoneOwn'
  <2>1. work[j] = "unpack"
    BY <1>4 DEF EndUnpack
  <2>2. using[j] = <<j, pos[j] + 1>> /\ using[j] # None
    BY <2>1, UsingOwn
  <2>3. done' = done \cup {<<j, pos[j] + 1>>}
    BY <1>4, <2>2 DEF EndUnpack
  <2> HIDE DEF TypeOK
  <2> QED BY <1>1, <2>1, <2>3 DEF DoneOwn, Jobs
<1> QED BY <1>2, <1>3, <1>4

(* What holds in every state of a patient user. *)
LEMMA RefineCorrect ==
  ASSUME Patient
  PROVE  Spec => [](TypeOK /\ FreshRequests /\ Serialized /\ RefineInv)
<1>1. Init => RefineInv
  BY DEF Init, RefineInv, ListOwn, DoneOwn, EndPassed, ClearedEmpty, WrapperAlive, Jobs
<1>2. /\ TypeOK /\ TypeOK' /\ FreshRequests /\ SerializedUnlessOverlap /\ RefineInv
      /\ [Next]_vars
      => RefineInv'
  BY PatientAlone, ListOwnStep, DoneOwnStep, EndPassedStep DEF RefineInv, SerializedUnlessOverlap
<1>3. SerializedUnlessOverlap /\ RefineInv => Serialized
  BY DEF SerializedUnlessOverlap, RefineInv
<1> QED BY <1>1, <1>2, <1>3, TypeCorrect, RequestsFresh, SerializedCorrect, PTL DEF Spec

-----------------------------------------------------------------------------
(* The mapping.  A step that leaves the list, the loops and the lives of the
   threads alone is no step of the service. *)
LEMMA NoServiceStep ==
  ASSUME up' = up, list' = list, pos' = pos, done' = done,
         Quiet' <=> Quiet, \A j \in Jobs : Created(j)' <=> Created(j)
  PROVE  UNCHANGED Service!svars
<1>1. Running' = Running
  BY DEF Running, Jobs
<1>2. ServiceQueue' = ServiceQueue
  BY <1>1 DEF ServiceQueue, Rest
<1>3. ServicePhase' = ServicePhase
  BY DEF ServicePhase
<1> QED BY <1>2, <1>3 DEF Service!svars

(* The service's state while a handler or a wrapper starts a request, while the
   worker is there, and while nothing is. *)
Starting == ServicePhase = "starting" /\ ServiceQueue = <<>>
Working(j) == ServicePhase = "working" /\ ServiceQueue = IF j \in Drops THEN Rest(j) ELSE <<>>
Ready == ServicePhase = "ready" /\ ServiceQueue = <<>>

LEMMA IsStarting ==
  up /\ ~Quiet /\ (\A j \in Jobs : ~Created(j)) => Starting
BY DEF Starting, ServicePhase, ServiceQueue, Running, Jobs

LEMMA IsReady ==
  up /\ Quiet => Ready
BY DEF Ready, ServicePhase, ServiceQueue, Running, Quiet, Created, Alive, Jobs

WorkingMaps ==
  \A j \in Jobs : up /\ Created(j) /\ (\A k \in Jobs : Created(k) => k = j) => Working(j)

LEMMA IsWorking == WorkingMaps
<1> SUFFICES ASSUME NEW j \in Jobs, up, Created(j), \A k \in Jobs : Created(k) => k = j
             PROVE  Working(j)
  BY DEF WorkingMaps
<1>1. ServicePhase = "working"
  BY DEF ServicePhase, Quiet, Created, Alive
<1>2. Running = IF j \in Drops THEN {j} ELSE {}
  BY DEF Running, Jobs
<1>3. \A k : (CHOOSE m \in {k} : TRUE) = k
  OBVIOUS
<1>4. ServiceQueue = IF j \in Drops THEN Rest(j) ELSE <<>>
  BY <1>2, <1>3 DEF ServiceQueue
<1> QED BY <1>1, <1>4 DEF Working

LEMMA IsWorkingNext == WorkingMaps'
BY IsWorking, PTL

LEMMA IsClosed ==
  ~up => ServicePhase = "closed" /\ ServiceQueue = <<>>
BY DEF ServicePhase, ServiceQueue

-----------------------------------------------------------------------------
(* The handlers: the service is being asked until the wrapper is there. *)
LEMMA HandlerStep ==
  ASSUME Patient, TypeOK, FreshRequests, Serialized, Serialized',
         Gui \/ \E j \in Jobs : Request(j)
  PROVE  Service!Begin \/ Service!Abandon \/ UNCHANGED Service!svars
<1> USE DEF shared, threads, history
<1>1. \A j \in Jobs : Created(j) => Alive(j)
  BY DEF Created, Alive
<1>2. gui # "idle" => ~Quiet /\ \A j \in Jobs : ~Created(j)
  BY <1>1 DEF Quiet, Serialized, OneAtATime
<1>3. ASSUME NEW j \in Jobs, Request(j) PROVE Service!Begin
  <2>1. up /\ Quiet
    BY <1>3 DEF Request, Pumping
  <2>2. Ready
    BY <2>1, IsReady
  <2>3. /\ up' /\ gui' = "check" /\ done' = done
        /\ \A k \in Jobs : Created(k)' <=> Created(k)
    BY <1>3, <2>1 DEF Request, Created, WrapperAlive
  <2>4. ~Quiet' /\ \A k \in Jobs : ~Created(k)'
    BY <1>1, <2>1, <2>3 DEF Quiet
  <2>5. Starting'
    BY <2>3, <2>4 DEF Starting, ServicePhase, ServiceQueue, Running, Jobs
  <2> QED BY <2>2, <2>3, <2>5 DEF Ready, Starting, Service!Begin
<1>4. CASE CheckWorker \/ CloseOld \/ ForgetOld \/ DeleteOldList
  <2>1. gui # "idle" /\ gui' # "idle"
    BY <1>4 DEF CheckWorker, CloseOld, ForgetOld, DeleteOldList
  <2>2. list' = list /\ pos' = pos /\ done' = done /\ wrap' = wrap /\ work' = work
    BY <1>4 DEF CheckWorker, CloseOld, ForgetOld, DeleteOldList
  <2>3. up' = up
    BY <1>4 DEF CheckWorker, CloseOld, CloseHandle, ForgetOld, DeleteOldList, DeleteItems, Require,
                Serialized, TypeOK
  <2>4. ~Quiet /\ ~Quiet' /\ \A k \in Jobs : Created(k)' <=> Created(k)
    BY <2>1, <2>2 DEF Quiet, Created, WrapperAlive
  <2> QED BY <2>2, <2>3, <2>4, NoServiceStep
<1>5. CASE TerminateWorker
  BY <1>5 DEF TerminateWorker, Serialized, OneAtATime
<1>6. CASE FillList
  <2>1. up /\ up' /\ gui = "fill" /\ gui' = "spawn" /\ done' = done /\ wrap' = wrap /\ work' = work
    BY <1>6 DEF FillList
  <2>2. Starting
    BY <1>2, <2>1, IsStarting
  <2>3. ~Quiet' /\ \A k \in Jobs : ~Created(k)'
    BY <1>2, <2>1 DEF Quiet, Created, WrapperAlive
  <2>4. Starting'
    BY <2>1, <2>3 DEF Starting, ServicePhase, ServiceQueue, Running, Jobs
  <2> QED BY <2>1, <2>2, <2>4 DEF Starting, Service!svars
<1>7. CASE SpawnWrapper
  <2>1. up /\ up' /\ gui = "spawn" /\ gui' = "idle" /\ done' = done /\ work' = work /\ req \in Jobs
    BY <1>7 DEF SpawnWrapper, TypeOK
  <2>2. Starting
    BY <1>2, <2>1, IsStarting
  <2>3. \A k \in Jobs : ~Alive(k)
    BY <2>1 DEF Serialized, OneAtATime
  <2>4. CASE wrap' = wrap
    <3>1. Quiet'
      BY <2>1, <2>3, <2>4 DEF Quiet, Alive, WrapperAlive, WorkerAlive
    <3>2. Ready'
      BY <2>1, <3>1 DEF Ready, ServicePhase, ServiceQueue, Running, Quiet, Created, Alive, Jobs
    <3> QED BY <2>1, <2>2, <3>2 DEF Starting, Ready, Service!Abandon
  <2>5. CASE wrap' = [wrap EXCEPT ![req] = "disable"]
    <3>1. wrap'[req] = "disable" /\ \A k \in Jobs \ {req} : wrap'[k] = wrap[k]
      BY <2>1, <2>5 DEF TypeOK
    <3>2. ~Quiet'
      BY <2>1, <3>1 DEF Quiet, Alive, WrapperAlive
    <3>3. work[req] = "unborn"
      BY <2>1 DEF FreshRequests, Serialized, WorkerInWrapper
    <3>4. \A k \in Jobs : ~Created(k)'
      BY <1>1, <2>1, <2>3, <3>1, <3>3 DEF Created, Alive, WrapperAlive
    <3>5. Starting'
      BY <2>1, <3>2, <3>4 DEF Starting, ServicePhase, ServiceQueue, Running, Jobs
    <3> QED BY <2>1, <2>2, <3>5 DEF Starting, Service!svars
  <2> QED BY <1>7, <2>4, <2>5 DEF SpawnWrapper
<1> QED BY <1>3, <1>4, <1>5, <1>6, <1>7 DEF Gui

(* A wrapper: the service works as soon as there is a worker. *)
LEMMA WrapperStep ==
  ASSUME TypeOK, TypeOK', Serialized, Serialized', RefineInv, NEW j \in Jobs, Wrapper(j)
  PROVE  Service!Start \/ Service!Abandon \/ Service!Finish \/ UNCHANGED Service!svars
<1> USE DEF shared, threads, history
<1>1. WrapperAlive(j) /\ ~Quiet /\ up
  BY DEF Wrapper, DisableAll, CreateWorker, PublishHandle, Wait, Wake, CloseWaited,
         ForgetHandle, DeleteList, ClearList, EnableAll, Pumping, WrapperAlive, Quiet, Alive
<1>2. gui = "idle" /\ \A k \in Jobs : Alive(k) => k = j
  BY <1>1 DEF Serialized, OneAtATime, Alive, TypeOK, GuiPoints
<1>3. \A k \in Jobs : Created(k) => k = j
  BY <1>2 DEF Created, Alive
<1>4. /\ pos' = pos /\ done' = done /\ gui' = gui
      /\ \A k \in Jobs \ {j} : wrap'[k] = wrap[k] /\ work'[k] = work[k]
  BY DEF Wrapper, DisableAll, CreateWorker, PublishHandle, Wait, Wake, CloseWaited,
         ForgetHandle, DeleteList, ClearList, EnableAll, TypeOK
<1>5. \A k \in Jobs : (Alive(k)' => k = j) /\ (Created(k)' => k = j)
  BY <1>2, <1>3, <1>4 DEF Alive, Created, WrapperAlive, WorkerAlive
<1>6. up'
  BY <1>1 DEF Wrapper, DisableAll, CreateWorker, PublishHandle, Wait, Wake, CloseWaited,
         ForgetHandle, DeleteList, ClearList, EnableAll, CloseHandle, DeleteItems, Require, Serialized
<1>7. CASE DisableAll(j) \/ PublishHandle(j) \/ Wait(j) \/ Wake(j) \/ CloseWaited(j)
           \/ ForgetHandle(j) \/ DeleteList(j)
  <2>1. /\ list' = list /\ work' = work
        /\ wrap'[j] \notin {"unborn", "ended"}
    BY <1>7 DEF DisableAll, PublishHandle, Wait, Wake, CloseWaited, ForgetHandle, DeleteList, TypeOK
  <2>2. ~Quiet' /\ WrapperAlive(j)'
    BY <2>1 DEF Quiet, Alive, WrapperAlive
  <2>3. \A k \in Jobs : Created(k)' <=> Created(k)
    BY <1>1, <1>3, <1>5, <2>1, <2>2 DEF Created
  <2> QED BY <1>1, <1>4, <1>6, <2>1, <2>2, <2>3, NoServiceStep DEF TypeOK
<1>8. CASE CreateWorker(j)
  <2>1. wrap[j] = "create" /\ work[j] = "unborn" /\ pos[j] = 0 /\ list' = list
    BY <1>8 DEF CreateWorker, Serialized, WorkerInWrapper
  <2>2. Starting
    BY <1>1, <1>3, <2>1, IsStarting DEF Created
  <2>3. CASE wrap'[j] = "ended" /\ work' = work
    <3>1. \A k \in Jobs : ~Alive(k)'
      BY <1>5, <2>1, <2>3 DEF Alive, WrapperAlive, WorkerAlive
    <3>2. Quiet'
      BY <1>2, <1>4, <3>1 DEF Quiet
    <3>3. Ready'
      BY <1>6, <3>1, <3>2 DEF Ready, ServicePhase, ServiceQueue, Running, Created, Alive, Jobs
    <3> QED BY <1>4, <2>2, <3>3 DEF Starting, Ready, Service!Abandon
  <2>4. CASE wrap'[j] = "publish" /\ work'[j] # "unborn"
    <3>1. Created(j)'
      BY <2>4 DEF Created, WrapperAlive
    <3>2. Working(j)'
      BY <1>5, <1>6, <3>1, IsWorkingNext DEF WorkingMaps
    <3>3. CASE j \notin Drops
      BY <1>4, <2>2, <3>2, <3>3 DEF Starting, Working, Service!Start
    <3>4. CASE j \in Drops
      <4>1. PICK n \in 0 .. MaxFiles : list = Batch(j, n)
        BY <1>1, <3>4 DEF RefineInv, ListOwn
      <4>2. Rest(j)' = Batch(j, n)
        BY <1>4, <2>1, <4>1, RestFacts DEF Rest, TypeOK
      <4>3. Len(Batch(j, n)) = n /\ \A k \in 1 .. n : Batch(j, n)[k] = <<j, k>> /\ <<j, k>> \notin done
        BY <2>1, <3>4, BatchFacts DEF RefineInv, DoneOwn
      <4>4. \A k \in DOMAIN Batch(j, n) : Batch(j, n)[k] \notin done
        BY <4>3 DEF Batch
      <4> QED BY <1>4, <2>2, <3>2, <3>4, <4>2, <4>4 DEF Starting, Working, Service!Start
    <3> QED BY <3>3, <3>4
  <2> QED BY <1>8, <2>3, <2>4 DEF CreateWorker, TypeOK
<1>9. CASE ClearList(j)
  <2>1. wrap[j] = "clear" /\ work[j] = "ended" /\ work' = work /\ wrap'[j] = "enable" /\ list' = <<>>
    BY <1>9 DEF ClearList, Serialized, WorkerInWrapper, TypeOK
  <2>2. Created(j) /\ Created(j)'
    BY <2>1 DEF Created, WrapperAlive
  <2>3. Working(j) /\ Working(j)'
    BY <1>1, <1>3, <1>5, <1>6, <2>2, IsWorking, IsWorkingNext DEF WorkingMaps
  <2>4. j \in Drops => Rest(j) = <<>> /\ Rest(j)' = <<>>
    <3> SUFFICES ASSUME j \in Drops PROVE Rest(j) = <<>> /\ Rest(j)' = <<>>
      OBVIOUS
    <3>1. pos[j] \in Nat /\ pos'[j] = pos[j] /\ list \in Seq(Objects) /\ <<>> \in Seq(Objects) /\ Len(<<>>) = 0
      BY <1>4 DEF TypeOK
    <3>2. pos[j] >= Len(list)
      BY <1>1, <2>1 DEF RefineInv, EndPassed
    <3>3. SubSeq(list, pos[j] + 1, Len(list)) = <<>>
      BY <3>1, <3>2, RestFacts
    <3>4. SubSeq(<<>>, pos[j] + 1, Len(<<>>)) = <<>>
      BY <3>1, RestFacts
    <3> QED BY <2>1, <3>1, <3>3, <3>4 DEF Rest
  <2> QED BY <1>4, <2>3, <2>4 DEF Working, Service!svars
<1>10. CASE EnableAll(j)
  <2>1. wrap[j] = "enable" /\ work[j] = "ended" /\ work' = work /\ wrap'[j] = "ended" /\ list = <<>>
    BY <1>10 DEF EnableAll, Serialized, WorkerInWrapper, TypeOK, RefineInv, ClearedEmpty
  <2>2. Working(j)
    BY <1>1, <1>3, <2>1, IsWorking DEF WorkingMaps, Created
  <2>3. j \in Drops => Rest(j) = <<>>
    <3> SUFFICES ASSUME j \in Drops PROVE Rest(j) = <<>>
      OBVIOUS
    <3>1. pos[j] \in Nat /\ <<>> \in Seq(Objects) /\ Len(<<>>) = 0
      BY DEF TypeOK
    <3>2. SubSeq(<<>>, pos[j] + 1, Len(<<>>)) = <<>>
      BY <3>1, RestFacts
    <3> QED BY <2>1, <3>2 DEF Rest
  <2>4. \A k \in Jobs : ~Alive(k)'
    BY <1>5, <2>1 DEF Alive, WrapperAlive, WorkerAlive
  <2>5. Quiet'
    BY <1>2, <1>4, <2>4 DEF Quiet
  <2>6. Ready'
    BY <1>6, <2>4, <2>5 DEF Ready, ServicePhase, ServiceQueue, Running, Created, Alive, Jobs
  <2> QED BY <1>4, <2>2, <2>3, <2>6 DEF Working, Ready, Service!Finish
<1> QED BY <1>7, <1>8, <1>9, <1>10 DEF Wrapper

(* A worker: each Unpack that returns is one of the service. *)
LEMMA WorkerStep ==
  ASSUME TypeOK, TypeOK', Serialized, Serialized', RefineInv, NEW j \in Jobs, Worker(j)
  PROVE  Service!Unpack \/ UNCHANGED Service!svars
<1> USE DEF shared, threads, history
<1>1. WorkerAlive(j) /\ up
  BY DEF Worker, NextItem, BeginUnpack, EndUnpack, LeaveLoop, WorkerEnableAll, BeginPack, EndPack,
         Pumping, WorkerAlive
<1>2. WrapperAlive(j) /\ work[j] # "unborn" /\ gui = "idle"
  <2>1. WrapperAlive(j)
    BY <1>1 DEF Serialized, WorkerInWrapper, WrapperAlive
  <2>2. gui = "idle"
    BY <1>1 DEF Serialized, OneAtATime, Alive
  <2> QED BY <1>1, <2>1, <2>2 DEF WorkerAlive
<1>3. /\ list' = list /\ wrap' = wrap /\ gui' = gui
      /\ work'[j] # "unborn" /\ \A k \in Jobs \ {j} : work'[k] = work[k]
  BY ZenonT(60) DEF Worker, NextItem, BeginUnpack, EndUnpack, LeaveLoop, WorkerEnableAll, BeginPack, EndPack, TypeOK
<1>4. Created(j) /\ Created(j)' /\ \A k \in Jobs : Created(k)' <=> Created(k)
  BY <1>2, <1>3 DEF Created, WrapperAlive
<1>5. ~Quiet /\ ~Quiet'
  BY <1>2, <1>3 DEF Quiet, Alive, WrapperAlive
<1>6. up'
  BY <1>1 DEF Worker, NextItem, BeginUnpack, EndUnpack, LeaveLoop, WorkerEnableAll, BeginPack, EndPack,
              Require, Serialized
<1>7. CASE ~EndUnpack(j)
  <2>1. pos' = pos /\ done' = done
    BY <1>7 DEF Worker, NextItem, BeginUnpack, LeaveLoop, WorkerEnableAll, BeginPack, EndPack
  <2> QED BY <1>1, <1>3, <1>4, <1>5, <1>6, <2>1, NoServiceStep DEF TypeOK
<1>8. CASE EndUnpack(j)
  <2>1. work[j] = "unpack"
    BY <1>8 DEF EndUnpack
  <2>2. j \in Drops /\ pos[j] < Len(list) /\ using[j] = list[pos[j] + 1] /\ using[j] # None
    BY <2>1, UsingOwn DEF RefineInv
  <2>3. pos'[j] = pos[j] + 1 /\ done' = done \cup {list[pos[j] + 1]}
    BY <1>8, <2>2 DEF EndUnpack, TypeOK
  <2>4. \A k \in Jobs : Created(k) => k = j
    BY <1>4 DEF Serialized, OneAtATime, Created, Alive
  <2>5. Working(j) /\ Working(j)'
    BY <1>1, <1>4, <1>6, <2>4, IsWorking, IsWorkingNext DEF WorkingMaps
  <2>6. pos[j] \in Nat /\ list \in Seq(Objects) /\ pos[j] + 1 + 1 = pos[j] + 2
    BY DEF TypeOK
  <2>7. /\ Rest(j) # <<>> /\ Head(Rest(j)) = list[pos[j] + 1]
        /\ Tail(Rest(j)) = SubSeq(list, pos[j] + 2, Len(list))
    BY <2>2, <2>6, RestFacts DEF Rest
  <2>8. Rest(j)' = Tail(Rest(j))
    BY <1>3, <2>3, <2>6, <2>7 DEF Rest
  <2> QED BY <2>2, <2>3, <2>5, <2>7, <2>8 DEF Working, Service!Unpack
<1> QED BY <1>7, <1>8

(* Every step of the threads is one of the service or none. *)
LEMMA ServiceStep ==
  ASSUME Patient, TypeOK, TypeOK', FreshRequests, Serialized, Serialized', RefineInv, [Next]_vars
  PROVE  [Service!Next]_(Service!svars)
<1>1. CASE Gui \/ \E j \in Jobs : Request(j)
  BY <1>1, HandlerStep DEF Service!Next
<1>2. CASE Close
  <2>1. up /\ ~up' /\ done' = done
    BY <1>2 DEF Close, Pumping, history
  <2>2. ServicePhase # "closed"
    BY <2>1 DEF ServicePhase
  <2>3. ServicePhase' = "closed" /\ ServiceQueue' = <<>>
    BY <2>1 DEF ServicePhase, ServiceQueue
  <2> QED BY <2>1, <2>2, <2>3 DEF Service!Exit, Service!Next
<1>3. ASSUME NEW j \in Jobs, Wrapper(j) PROVE [Service!Next]_(Service!svars)
  BY <1>3, WrapperStep DEF Service!Next
<1>4. ASSUME NEW j \in Jobs, Worker(j) PROVE [Service!Next]_(Service!svars)
  BY <1>4, WorkerStep DEF Service!Next
<1>5. CASE UNCHANGED vars
  <2>1. /\ up' = up /\ list' = list /\ pos' = pos /\ done' = done
        /\ gui' = gui /\ wrap' = wrap /\ work' = work
    BY <1>5 DEF vars, shared, threads, history
  <2>2. (Quiet' <=> Quiet) /\ \A j \in Jobs : Created(j)' <=> Created(j)
    BY <2>1 DEF Quiet, Alive, Created, WrapperAlive, WorkerAlive
  <2> QED BY <2>1, <2>2, NoServiceStep
<1> QED BY <1>1, <1>2, <1>3, <1>4, <1>5 DEF Next

(* The dialog keeps the promise of ExtractService to a patient user: a batch is
   started whole or not at all, and until the dialog is ready again its files
   are unpacked one by one, in their order, each once and none left out. *)
THEOREM DialogServes ==
  ASSUME Patient
  PROVE  Spec => Service!Init /\ [][Service!Next]_(Service!svars)
<1>1. Init => Service!Init
  <2> SUFFICES ASSUME Init PROVE Service!Init
    OBVIOUS
  <2>1. up /\ Quiet /\ done = {}
    BY DEF Init, Quiet, Alive, WrapperAlive, WorkerAlive
  <2> QED BY <2>1, IsReady DEF Ready, Service!Init
<1>2. /\ TypeOK /\ FreshRequests /\ Serialized /\ RefineInv
      /\ (TypeOK /\ FreshRequests /\ Serialized /\ RefineInv)'
      /\ [Next]_vars
      => [Service!Next]_(Service!svars)
  BY ServiceStep
<1> QED BY <1>1, <1>2, RefineCorrect, PTL DEF Spec
=============================================================================
