--------------------------- MODULE InitJobProofs ---------------------------
(***************************************************************************)
(* Theorems about InitJob, for every set of modules, every backoff limit    *)
(* and every number of disturbances.                                        *)
(***************************************************************************)
EXTENDS InitJob, TLAPS

-----------------------------------------------------------------------------
(* Type correctness *)

\* What a Job that has lost a pod looks like.
LEMMA TypeOfFailure ==
    ASSUME NEW j \in Job
    PROVE  /\ CountFailure(j) \in Job
           /\ CountFailure(j).phase \in {"waiting", "failed"}
           /\ CountFailure(j).modules = j.modules
           /\ CountFailure(j).deleting = j.deleting
  <1> DEFINE n == j.failed + 1
             ph == IF j.failed < BackoffLimit THEN "waiting" ELSE "failed"
  <1>1. n \in Nat /\ ph \in {"waiting", "failed"}
    BY DEF Job
  <1>2. CountFailure(j) = [j EXCEPT !.failed = n, !.phase = ph]
    BY DEF CountFailure
  <1> HIDE DEF n, ph
  <1> QED
    BY <1>1, <1>2 DEF Job, JobPhase

\* What a status write may store keeps the type of the object.
LEMMA TypeOfStatus ==
    ASSUME NEW s \in Status
    PROVE  /\ RecordSuccess(s) \in Status
           /\ \A r \in Reason : Succeeded(s, r) \in Status
           /\ Degraded(s) \in Status
           /\ [s EXCEPT !.children = TRUE] \in Status
           /\ \A b \in SUBSET Module : RecordCreated(s, b) \in Status
           /\ ChildFailed(s) \subseteq Status
  <1>1. \A r \in Reason, t \in Status : Succeeded(t, r) \in Status
    BY DEF Succeeded, Status
  <1>2. \A t \in Status : Degraded(t) \in Status
    BY DEF Degraded, Status
  <1>3. [s EXCEPT !.installed = @ \cup s.cur.modules, !.cur = NoBatch] \in Status
    BY DEF Status, Batch, NoBatch
  <1>4. RecordSuccess(s) \in Status
    BY <1>1, <1>3 DEF RecordSuccess, Reason
  <1>5. [s EXCEPT !.children = TRUE] \in Status
    BY DEF Status
  <1>6. ASSUME NEW b \in SUBSET Module
        PROVE  RecordCreated(s, b) \in Status
    <2>1. [s EXCEPT !.cur = [named |-> TRUE, modules |-> b]] \in Status
      BY DEF Status, Batch
    <2> QED
      BY <1>1, <2>1 DEF RecordCreated, Reason
  <1>7. ChildFailed(s) \subseteq Status
    BY <1>1, <1>2 DEF ChildFailed, Reason
  <1> QED
    BY <1>1, <1>2, <1>4, <1>5, <1>6, <1>7

\* Every step of the handler and of its environment keeps the types.
LEMMA TypeStep == TypeOK /\ [Next]_vars => TypeOK'
  <1> SUFFICES ASSUME TypeOK, [Next]_vars
               PROVE  TypeOK'
    OBVIOUS
  <1> USE DEF TypeOK
  <1>1. mem.status \in Status /\ cr.status \in Status
    BY DEF Resource
  <1>2. ASSUME NEW s \in Status
        PROVE  [cr EXCEPT !.status = s] \in Resource /\ [mem EXCEPT !.status = s] \in Resource
    BY DEF Resource
  <1>3. NoResource \in Resource
    BY DEF NoResource, EmptyStatus, NoBatch, Resource, Status, Batch, Reason
  <1>4. ASSUME NEW k, Disturb(k)
        PROVE  budget' \in 0..MaxDisturbances
    BY <1>4, MaxDisturbancesAssumption DEF Disturb
  <1>5. Calm => budget' \in 0..MaxDisturbances
    BY DEF Calm
  <1>6. ASSUME NEW s \in Status, TryStatus(s)
        PROVE  /\ cr' \in Resource /\ mem' \in Resource
               /\ fresh' \subseteq {"cache", "mem"}
               /\ budget' \in 0..MaxDisturbances
    <2>1. CASE StoreStatus(s) /\ mem' = cr' /\ Calm
      BY <1>2, <1>5, <2>1 DEF StoreStatus
    <2>2. CASE /\ IF Current THEN Disturb("writeError") ELSE Calm
               /\ mem' = [mem EXCEPT !.status = s]
               /\ UNCHANGED <<cr, fresh>>
      BY <1>2, <1>4, <1>5, <2>2
    <2> QED
      BY <1>6, <2>1, <2>2 DEF TryStatus
  <1>7. Missing(mem) \in SUBSET Module
    BY DEF Missing, Resource
  <1>23. JobCacheLags => jobNews' \in BOOLEAN /\ jobCache' \in Job
    BY DEF JobCacheLags
  <1>8. CASE StartReconcile
    BY <1>8 DEF StartReconcile, CrView, ghosts, jobVars
  <1>9. CASE ReconcileChildren
    <2>1. CASE TryStatus([mem.status EXCEPT !.children = TRUE]) /\ pc' = "getjob"
      BY <1>1, <1>6, <1>9, <2>1, TypeOfStatus DEF ReconcileChildren, jobVars, ghosts
    <2>2. CASE Disturb("apiError") /\ UNCHANGED <<cr, fresh>> /\ pc' = "save"
               /\ \E s \in ChildFailed(mem.status) : mem' = [mem EXCEPT !.status = s]
      BY <1>1, <1>2, <1>4, <1>9, <2>2, TypeOfStatus DEF ReconcileChildren, jobVars, ghosts
    <2> QED
      BY <1>9, <2>1, <2>2 DEF ReconcileChildren
  <1>10. CASE GetJob
    <2>1. mem' \in Resource
      BY <1>1, <1>2, <1>10, TypeOfStatus
      DEF GetJob, JobSucceeded, JobActive, JobFailed, JobUnknown
    <2>2. budget' \in 0..MaxDisturbances
      BY <1>4, <1>5, <1>10 DEF GetJob
    <2> QED
      BY <1>10, <2>1, <2>2
      DEF GetJob, JobSucceeded, JobActive, JobFailed, JobUnknown, crVars, jobVars, ghosts
  <1>11. CASE DeletePods
    <2>1. mem' \in Resource /\ budget' \in 0..MaxDisturbances
      BY <1>1, <1>2, <1>4, <1>5, <1>11, TypeOfStatus DEF DeletePods
    <2>2. job' \in Job
      BY <1>11, TypeOfFailure DEF DeletePods, PodsDeleted
    <2> QED
      BY <1>11, <1>23, <2>1, <2>2 DEF DeletePods, crVars, ghosts
  <1>12. CASE DeleteJob
    <2>1. mem' \in Resource /\ budget' \in 0..MaxDisturbances
      BY <1>1, <1>2, <1>4, <1>5, <1>12, TypeOfStatus DEF DeleteJob
    <2>2. job' \in Job
      BY <1>12 DEF DeleteJob, Job
    <2> QED
      BY <1>12, <1>23, <2>1, <2>2 DEF DeleteJob, crVars, ghosts
  <1>13. CASE InstallMissing
    <2>1. mem' \in Resource /\ budget' \in 0..MaxDisturbances
      BY <1>1, <1>2, <1>4, <1>5, <1>7, <1>13, TypeOfStatus
      DEF InstallMissing, NothingMissing, CreateJob, CreateFails, Reason
    <2>2. job' \in Job
      <3>1. NewJob(Missing(mem)) \in Job
        BY <1>7 DEF NewJob, Job, JobPhase
      <3> QED
        BY <1>13, <3>1 DEF InstallMissing, NothingMissing, CreateJob, CreateFails
    <2>3. pc' \in {"deployment", "save"}
      BY <1>13 DEF InstallMissing, NothingMissing, CreateJob, CreateFails
    <2> QED
      BY <1>13, <1>23, <2>1, <2>2, <2>3 DEF InstallMissing, crVars, ghosts
  <1>14. CASE ApplyDeployment
    <2>1. mem' \in Resource /\ budget' \in 0..MaxDisturbances
      BY <1>1, <1>2, <1>4, <1>5, <1>14, TypeOfStatus DEF ApplyDeployment
    <2>2. served' \subseteq Module
      BY <1>14 DEF ApplyDeployment, Resource
    <2> QED
      BY <1>14, <2>1, <2>2 DEF ApplyDeployment, crVars, jobVars
  <1>15. CASE FlushStatus
    BY <1>1, <1>6, <1>15 DEF FlushStatus, jobVars, ghosts
  <1>16. CASE ApplyServices
    <2>1. mem' \in Resource /\ budget' \in 0..MaxDisturbances
      BY <1>1, <1>2, <1>4, <1>5, <1>16, TypeOfStatus DEF ApplyServices, Reason
    <2> QED
      BY <1>16, <2>1 DEF ApplyServices, crVars, jobVars, ghosts
  <1>17. CASE SaveStatus
    <2>1. cr' \in Resource /\ budget' \in 0..MaxDisturbances
      BY <1>1, <1>2, <1>4, <1>5, <1>17 DEF SaveStatus
    <2> QED
      BY <1>3, <1>17, <2>1 DEF SaveStatus, jobVars, ghosts
  <1>18. CASE Crash
    BY <1>3, <1>4, <1>18 DEF Crash, jobVars, ghosts
  <1>19. CASE SyncCR \/ SyncJob \/ Resync
    BY <1>19 DEF SyncCR, SyncJob, Resync, crVars, jobVars, ghosts
  <1>20. CASE EditSpec
    <2>1. cr' \in Resource
      BY <1>20 DEF EditSpec, Resource, Wanted
    <2> QED
      BY <1>4, <1>20, <2>1 DEF EditSpec, jobVars, ghosts
  <1>21. CASE UserDeletesJob \/ JobController
    <2>1. job' \in Job
      <3>1. CASE UserDeletesJob
        BY <3>1 DEF UserDeletesJob, Job
      <3>2. CASE JobStart
        BY <3>2 DEF JobStart, Job, JobPhase
      <3>3. CASE JobSucceed
        <4>1. job' = [job EXCEPT !.phase = "complete"]
          BY <3>3 DEF JobSucceed
        <4> QED
          BY <4>1 DEF Job, JobPhase
      <3>4. CASE JobFail
        BY <3>4, TypeOfFailure DEF JobFail
      <3>5. CASE JobGone
        BY <3>5 DEF JobGone, NoJob, Job, JobPhase
      <3> QED
        BY <1>21, <3>1, <3>2, <3>3, <3>4, <3>5 DEF JobController
    <2>2. budget' \in 0..MaxDisturbances
      BY <1>4, <1>21 DEF UserDeletesJob, JobController, JobStart, JobSucceed, JobFail, JobGone
    <2>3. db' \subseteq Module /\ JobCacheLags /\ UNCHANGED <<served, crVars, pc, mem, queued>>
      BY <1>21 DEF UserDeletesJob, JobController, JobStart, JobSucceed, JobFail,
        JobGone, Job, ghosts
    <2> QED
      BY <1>23, <2>1, <2>2, <2>3 DEF crVars
  <1>22. CASE UNCHANGED vars
    BY <1>22 DEF vars
  <1> QED
    BY <1>8, <1>9, <1>10, <1>11, <1>12, <1>13, <1>14, <1>15, <1>16, <1>17, <1>18,
       <1>19, <1>20, <1>21, <1>22 DEF Next, Worker

\* Every variable keeps its type, for all constants.
THEOREM TypeCorrect == Spec => []TypeOK
  <1>1. Init => TypeOK
    <2>1. NoJob \in Job
      BY DEF Job, NoJob, JobPhase
    <2>2. NoResource \in Resource /\ EmptyStatus \in Status
      BY DEF Resource, NoResource, Status, EmptyStatus, Batch, NoBatch, Reason
    <2>3. Init => cr \in Resource
      BY <2>2 DEF Init, Wanted, Resource
    <2>4. Init => budget \in 0..MaxDisturbances
      BY MaxDisturbancesAssumption DEF Init
    <2>5. Init => queued \in BOOLEAN /\ jobNews \in BOOLEAN
      BY DEF Init
    <2> QED
      BY <2>1, <2>2, <2>3, <2>4, <2>5 DEF Init, TypeOK
  <1> QED
    BY <1>1, TypeStep, PTL DEF Spec
-----------------------------------------------------------------------------
(* The loop under every disturbance *)

\* What each status operator does to the fields the invariants speak of.
LEMMA StatusFields ==
    ASSUME NEW s \in Status
    PROVE  /\ \A r : /\ Succeeded(s, r).installed = s.installed
                     /\ Succeeded(s, r).cur = s.cur
                     /\ Succeeded(s, r).succeeded = r
           /\ Degraded(s).installed = s.installed
           /\ Degraded(s).cur = s.cur
           /\ Degraded(s).succeeded = s.succeeded
           /\ \A t \in ChildFailed(s) : /\ t.installed = s.installed
                                        /\ t.cur = s.cur
                                        /\ t.succeeded \in {"Failed", s.succeeded}
           /\ RecordSuccess(s).installed = s.installed \cup s.cur.modules
           /\ RecordSuccess(s).cur = NoBatch
           /\ RecordSuccess(s).succeeded = "InitJobSucceeded"
           /\ \A b : /\ RecordCreated(s, b).installed = s.installed
                     /\ RecordCreated(s, b).cur = [named |-> TRUE, modules |-> b]
                     /\ RecordCreated(s, b).succeeded = "InitJobCreated"
           /\ [s EXCEPT !.children = TRUE].installed = s.installed
           /\ [s EXCEPT !.children = TRUE].cur = s.cur
           /\ [s EXCEPT !.children = TRUE].succeeded = s.succeeded
  <1>1. \A t \in Status : \A r :
           /\ Succeeded(t, r).installed = t.installed
           /\ Succeeded(t, r).cur = t.cur
           /\ Succeeded(t, r).succeeded = r
    BY DEF Succeeded, Status
  <1>2. /\ Degraded(s).installed = s.installed
        /\ Degraded(s).cur = s.cur
        /\ Degraded(s).succeeded = s.succeeded
    BY DEF Degraded, Status
  <1>3. \A t \in ChildFailed(s) : /\ t.installed = s.installed
                                  /\ t.cur = s.cur
                                  /\ t.succeeded \in {"Failed", s.succeeded}
    BY <1>1, <1>2 DEF ChildFailed
  <1>4. /\ RecordSuccess(s).installed = s.installed \cup s.cur.modules
        /\ RecordSuccess(s).cur = NoBatch
        /\ RecordSuccess(s).succeeded = "InitJobSucceeded"
    BY DEF RecordSuccess, Succeeded, Status
  <1>5. \A b : /\ RecordCreated(s, b).installed = s.installed
               /\ RecordCreated(s, b).cur = [named |-> TRUE, modules |-> b]
               /\ RecordCreated(s, b).succeeded = "InitJobCreated"
    BY DEF RecordCreated, Succeeded, Status
  <1>6. /\ [s EXCEPT !.children = TRUE].installed = s.installed
        /\ [s EXCEPT !.children = TRUE].cur = s.cur
        /\ [s EXCEPT !.children = TRUE].succeeded = s.succeeded
    BY DEF Status
  <1> QED
    BY <1>1, <1>2, <1>3, <1>4, <1>5, <1>6

\* Naming a batch changes neither the list of installed modules nor, but for its
\* own reason, the success.
LEMMA CreatedFields ==
    ASSUME NEW s \in Status, NEW b
    PROVE  /\ RecordCreated(s, b).installed = s.installed
           /\ RecordCreated(s, b).succeeded = "InitJobCreated"
  BY DEF RecordCreated, Succeeded, Status

\* Putting a status into an object changes nothing else of it.
LEMMA PutStatus ==
    ASSUME NEW o \in Resource, NEW s
    PROVE  /\ [o EXCEPT !.status = s].status = s
           /\ [o EXCEPT !.status = s].modules = o.modules
  BY DEF Resource

\* A dropped-error status write of a status with the installed modules and the
\* success reason of memory: the copies stay in order, and afterwards memory is
\* no further than the server in what is installed.
LEMMA TryStatusKeeps ==
    ASSUME TypeOK, LoopInv, NEW s \in Status,
           s.installed = mem.status.installed,
           s.succeeded = mem.status.succeeded,
           mem.status.installed \subseteq cr.status.installed,
           TryStatus(s), pc' # "idle", UNCHANGED <<crCache, served>>
    PROVE  /\ CopiesInv' /\ RolloutGate'
           /\ mem'.status.installed \subseteq cr'.status.installed
           /\ Missing(mem) = {} => Missing(mem)' = {}
           /\ (Current /\ mem.status.succeeded = "ReconcileSucceeded")'
              => \/ cr'.status.succeeded = "ReconcileSucceeded"
                 \/ Missing(mem)' = {}
  <1> USE DEF LoopInv
  <1>1. CASE Current /\ StoreStatus(s) /\ mem' = cr' /\ Calm
    <2>1. cr'.status = s /\ cr'.modules = cr.modules
      BY <1>1, PutStatus DEF StoreStatus, TypeOK
    <2>2. s.installed = cr.status.installed /\ mem.modules = cr.modules
      BY <1>1 DEF CopiesInv
    <2>3. "cache" \in fresh' => cr' = cr /\ "cache" \in fresh
      <3>1. s = cr.status => cr' = cr
        BY <1>1 DEF StoreStatus, TypeOK, Resource
      <3> QED
        BY <1>1, <3>1 DEF StoreStatus
    <2> QED
      BY <1>1, <2>1, <2>2, <2>3 DEF CopiesInv, RolloutGate, Missing
  <1>2. CASE /\ mem' = [mem EXCEPT !.status = s]
             /\ UNCHANGED <<cr, fresh>>
    <2>1. mem'.status = s /\ mem'.modules = mem.modules
      BY <1>2, PutStatus DEF TypeOK
    <2> QED
      BY <1>2, <2>1 DEF CopiesInv, HandlerInv, RolloutGate, Missing, Current
  <1> QED
    BY <1>1, <1>2 DEF TryStatus

\* Steps that leave the CR, its copies and what is served alone.
LEMMA HandlerStep ==
    ASSUME TypeOK, LoopInv, pc # "idle", pc' # "idle",
           UNCHANGED <<cr, crCache, fresh, served>>,
           NEW s \in Status, mem' = [mem EXCEPT !.status = s],
           mem.status.installed \subseteq s.installed,
           pc' \in {"children", "getjob", "missing", "deployment", "flush",
                    "services", "finish"}
             => s.installed \subseteq cr.status.installed,
           pc' \in {"deployment", "flush", "services"}
             => mem.modules \subseteq s.installed,
           s.succeeded = "ReconcileSucceeded"
             => \/ mem.status.succeeded = "ReconcileSucceeded"
                \/ mem.modules \subseteq s.installed
    PROVE  LoopInv'
  <1>1. mem'.status = s /\ mem'.modules = mem.modules
    BY PutStatus DEF TypeOK
  <1>2. Missing(mem)' = mem.modules \ s.installed
    BY <1>1 DEF Missing
  <1>3. Current' = Current
    BY DEF Current
  <1>4. CopiesInv'
    BY <1>1, <1>3 DEF LoopInv, CopiesInv
  <1>5. (Current /\ mem.status.succeeded = "ReconcileSucceeded")'
        => \/ cr'.status.succeeded = "ReconcileSucceeded"
           \/ Missing(mem)' = {}
    BY <1>1, <1>2, <1>3 DEF LoopInv, HandlerInv, Missing
  <1>6. HandlerInv'
    BY <1>1, <1>2, <1>5 DEF HandlerInv
  <1> QED
    BY <1>4, <1>6 DEF LoopInv, RolloutGate

\* A child that fails leaves everything in order.
LEMMA FailureStep ==
    ASSUME TypeOK, LoopInv, pc # "idle", pc' = "save",
           UNCHANGED <<cr, crCache, fresh, served>>,
           \E t \in ChildFailed(mem.status) : mem' = [mem EXCEPT !.status = t]
    PROVE  LoopInv'
  <1>1. mem.status \in Status
    BY DEF TypeOK, Resource
  <1>2. PICK t \in ChildFailed(mem.status) : mem' = [mem EXCEPT !.status = t]
    OBVIOUS
  <1>3. t \in Status
    BY <1>1, TypeOfStatus
  <1>4. /\ t.installed = mem.status.installed
        /\ t.succeeded \in {"Failed", mem.status.succeeded}
    BY <1>1, StatusFields
  <1> QED
    BY <1>2, <1>3, <1>4, HandlerStep

\* No step breaks the relation between the CR, its copies and the handler.
LEMMA LoopStep == TypeOK /\ LoopInv /\ [Next]_vars => LoopInv'
  <1> SUFFICES ASSUME TypeOK, LoopInv, [Next]_vars
               PROVE  LoopInv'
    OBVIOUS
  <1>1. mem.status \in Status /\ mem \in Resource /\ cr \in Resource
    BY DEF TypeOK, Resource
  <1>2. mem = [mem EXCEPT !.status = mem.status]
    BY <1>1 DEF Resource
  <1> DEFINE degraded == Degraded(mem.status)
  <1> DEFINE recorded == RecordSuccess(mem.status)
  <1>21. /\ degraded \in Status
         /\ degraded.installed = mem.status.installed
         /\ degraded.succeeded = mem.status.succeeded
    BY <1>1, TypeOfStatus, StatusFields
  <1>22. /\ recorded \in Status
         /\ mem.status.installed \subseteq recorded.installed
         /\ recorded.succeeded = "InitJobSucceeded"
    <2>1. recorded \in Status
      BY <1>1, TypeOfStatus
    <2>2. /\ recorded.installed = mem.status.installed \cup mem.status.cur.modules
          /\ recorded.succeeded = "InitJobSucceeded"
      BY <1>1, StatusFields
    <2> QED
      BY <2>1, <2>2
  <1> HIDE DEF degraded, recorded
  <1>3. CASE StartReconcile
    <2>1. pc' = "children" /\ UNCHANGED <<cr, crCache, served>> /\ pc = "idle"
      BY <1>3 DEF StartReconcile, ghosts
    <2>2. ~Current
      BY <2>1 DEF LoopInv, CopiesInv
    <2>3. mem'.status.installed \subseteq cr.status.installed
      BY <1>3 DEF StartReconcile, CrView, LoopInv, CopiesInv
    <2>4. Current' => ReadFresh
      BY <1>3, <2>2 DEF StartReconcile, Current
    <2>5. ReadFresh => mem' = cr
      BY <1>3 DEF StartReconcile, CrView, ReadFresh, LoopInv, CopiesInv
    <2>6. "cache" \in fresh' => "cache" \in fresh
      BY <1>3 DEF StartReconcile
    <2> QED
      BY <2>1, <2>3, <2>4, <2>5, <2>6 DEF LoopInv, CopiesInv, HandlerInv, RolloutGate
  <1>4. CASE ReconcileChildren
    <2> DEFINE s == [mem.status EXCEPT !.children = TRUE]
    <2>1. mem.status.installed \subseteq cr.status.installed
      BY <1>4 DEF ReconcileChildren, LoopInv, HandlerInv
    <2>2. CASE TryStatus(s) /\ pc' = "getjob"
      <3>1. UNCHANGED <<crCache, served>>
        BY <1>4 DEF ReconcileChildren, ghosts
      <3>2. s \in Status /\ s.installed = mem.status.installed
            /\ s.succeeded = mem.status.succeeded
        BY <1>1, TypeOfStatus, StatusFields
      <3> HIDE DEF s
      <3> QED
        BY <2>1, <2>2, <3>1, <3>2, TryStatusKeeps DEF LoopInv, HandlerInv
    <2>3. CASE /\ \E t \in ChildFailed(mem.status) : mem' = [mem EXCEPT !.status = t]
               /\ pc' = "save"
               /\ UNCHANGED <<cr, fresh>>
      BY <1>4, <2>3, FailureStep DEF ReconcileChildren, ghosts
    <2> QED
      BY <1>4, <2>2, <2>3 DEF ReconcileChildren
  <1>5. CASE GetJob
    <2>1. pc = "getjob" /\ UNCHANGED <<cr, crCache, fresh, served>>
      BY <1>5 DEF GetJob, crVars, ghosts
    <2>2. mem.status.installed \subseteq cr.status.installed
      BY <2>1 DEF LoopInv, HandlerInv
    <2>3. CASE UNCHANGED mem /\ pc' \in {"missing", "save"}
      BY <1>1, <1>2, <2>1, <2>2, <2>3, HandlerStep
    <2>4. CASE /\ mem' = [mem EXCEPT !.status = Degraded(@)]
               /\ pc' \in {"finish", "save"}
      <3>1. mem' = [mem EXCEPT !.status = degraded]
        BY <2>4 DEF degraded
      <3> QED
        BY <1>21, <2>1, <2>2, <2>4, <3>1, HandlerStep
    <2>5. CASE JobSucceeded
      <3>1. mem' = [mem EXCEPT !.status = recorded] /\ pc' = "pods"
        BY <2>5 DEF JobSucceeded, recorded
      <3> QED
        BY <1>22, <2>1, <3>1, HandlerStep
    <2> QED
      BY <1>5, <2>3, <2>4, <2>5 DEF GetJob, JobActive, JobFailed, JobUnknown
  <1>6. CASE DeletePods \/ DeleteJob
    <2>1. /\ pc \in {"pods", "delete"} /\ pc' \in {"delete", "save"}
          /\ UNCHANGED <<cr, crCache, fresh, served>>
      BY <1>6 DEF DeletePods, DeleteJob, crVars, ghosts
    <2>2. CASE UNCHANGED mem
      BY <1>1, <1>2, <2>1, <2>2, HandlerStep
    <2>3. CASE mem' = [mem EXCEPT !.status = Degraded(@)]
      <3>1. mem' = [mem EXCEPT !.status = degraded]
        BY <2>3 DEF degraded
      <3> QED
        BY <1>21, <2>1, <3>1, HandlerStep
    <2> QED
      BY <1>6, <2>2, <2>3 DEF DeletePods, DeleteJob
  <1>7. CASE InstallMissing
    <2>1. pc = "missing" /\ UNCHANGED <<cr, crCache, fresh, served>>
      BY <1>7 DEF InstallMissing, crVars, ghosts
    <2>2. mem.status.installed \subseteq cr.status.installed
      BY <2>1 DEF LoopInv, HandlerInv
    <2>3. CASE NothingMissing
      <3>1. mem.modules \subseteq mem.status.installed
        BY <2>3 DEF NothingMissing, Missing
      <3> QED
        BY <1>1, <1>2, <2>1, <2>2, <2>3, <3>1, HandlerStep DEF NothingMissing
    <2>4. CASE CreateJob
      <3> DEFINE s == RecordCreated(mem.status, Missing(mem))
      <3>1. s \in Status
        <4>1. Missing(mem) \in SUBSET Module
          BY <1>1 DEF Missing, Resource
        <4> QED
          BY <1>1, <4>1, TypeOfStatus
      <3>2. s.installed = mem.status.installed /\ s.succeeded = "InitJobCreated"
        BY <1>1, CreatedFields
      <3>3. mem' = [mem EXCEPT !.status = s] /\ pc' = "save"
        BY <2>4 DEF CreateJob
      <3> HIDE DEF s
      <3> QED
        BY <2>1, <3>1, <3>2, <3>3, HandlerStep
    <2>5. CASE CreateFails
      <3> DEFINE s == Succeeded(mem.status, "Failed")
      <3>1. s \in Status /\ s.installed = mem.status.installed /\ s.succeeded = "Failed"
        <4>1. "Failed" \in Reason
          BY DEF Reason
        <4>2. s \in Status
          BY <1>1, <4>1, TypeOfStatus
        <4> QED
          BY <1>1, <4>2, StatusFields
      <3>2. mem' = [mem EXCEPT !.status = s] /\ pc' = "save"
        BY <2>5 DEF CreateFails
      <3> HIDE DEF s
      <3> QED
        BY <2>1, <3>1, <3>2, HandlerStep
    <2> QED
      BY <1>7, <2>3, <2>4, <2>5 DEF InstallMissing
  <1>8. CASE ApplyDeployment
    <2>1. /\ pc = "deployment" /\ pc' \in {"flush", "save"}
          /\ UNCHANGED <<cr, crCache, fresh>>
      BY <1>8 DEF ApplyDeployment, crVars
    <2>2. /\ mem.status.installed \subseteq cr.status.installed
          /\ mem.modules \subseteq mem.status.installed
      BY <2>1 DEF LoopInv, HandlerInv, Missing
    <2>3. CASE served' = served \cup mem.modules /\ UNCHANGED mem
      BY <2>1, <2>2, <2>3
      DEF LoopInv, CopiesInv, HandlerInv, RolloutGate, Missing, Current
    <2>4. CASE /\ \E t \in ChildFailed(mem.status) : mem' = [mem EXCEPT !.status = t]
               /\ UNCHANGED served /\ pc' = "save"
      BY <2>1, <2>4, FailureStep
    <2> QED
      BY <1>8, <2>3, <2>4 DEF ApplyDeployment
  <1>9. CASE FlushStatus
    <2>1. pc = "flush" /\ pc' = "services" /\ UNCHANGED <<crCache, served>>
      BY <1>9 DEF FlushStatus, ghosts
    <2>2. mem.status.installed \subseteq cr.status.installed /\ Missing(mem) = {}
      BY <2>1 DEF LoopInv, HandlerInv
    <2> QED
      BY <1>1, <1>9, <2>1, <2>2, TryStatusKeeps DEF FlushStatus, LoopInv, HandlerInv
  <1>10. CASE ApplyServices
    <2>1. /\ pc = "services" /\ UNCHANGED <<cr, crCache, fresh, served>>
      BY <1>10 DEF ApplyServices, crVars, ghosts
    <2>2. /\ mem.status.installed \subseteq cr.status.installed
          /\ mem.modules \subseteq mem.status.installed
      BY <2>1 DEF LoopInv, HandlerInv, Missing
    <2>3. CASE mem' = [mem EXCEPT !.status = Succeeded(@, "ReconcileSucceeded")]
               /\ pc' = "finish"
      <3> DEFINE s == Succeeded(mem.status, "ReconcileSucceeded")
      <3>1. s \in Status /\ s.installed = mem.status.installed
        <4>1. "ReconcileSucceeded" \in Reason
          BY DEF Reason
        <4>2. s \in Status
          BY <1>1, <4>1, TypeOfStatus
        <4>3. s.installed = mem.status.installed
          BY <1>1, StatusFields
        <4> QED
          BY <4>2, <4>3
      <3>2. mem' = [mem EXCEPT !.status = s]
        BY <2>3
      <3> HIDE DEF s
      <3> QED
        BY <2>1, <2>2, <2>3, <3>1, <3>2, HandlerStep
    <2>4. CASE /\ \E t \in ChildFailed(mem.status) : mem' = [mem EXCEPT !.status = t]
               /\ pc' = "save"
      BY <2>1, <2>4, FailureStep
    <2> QED
      BY <1>10, <2>3, <2>4 DEF ApplyServices
  <1>11. CASE SaveStatus
    <2>1. /\ pc' = "idle" /\ mem' = NoResource /\ UNCHANGED <<crCache, served>>
          /\ ~Current'
      <3>1. "mem" \notin fresh'
        BY <1>11 DEF SaveStatus
      <3> QED
        BY <1>11, <3>1 DEF SaveStatus, ghosts, Current
    <2>2. NoResource.status.succeeded # "ReconcileSucceeded"
      BY DEF NoResource, EmptyStatus
    <2>3. cr.status.installed \subseteq cr'.status.installed
      <3>1. CASE Current /\ cr' = [cr EXCEPT !.status = mem.status]
        BY <1>1, <3>1, PutStatus DEF LoopInv, CopiesInv
      <3>2. CASE UNCHANGED cr
        BY <3>2
      <3> QED
        BY <1>11, <3>1, <3>2 DEF SaveStatus
    <2>4. "cache" \in fresh' => cr' = cr /\ "cache" \in fresh
      <3>1. mem.status = cr.status => [cr EXCEPT !.status = mem.status] = cr
        BY <1>1 DEF Resource
      <3> QED
        BY <1>11, <3>1 DEF SaveStatus
    <2> QED
      BY <2>1, <2>2, <2>3, <2>4 DEF LoopInv, CopiesInv, HandlerInv, RolloutGate
  <1>12. CASE Crash
    <2>1. NoResource.status.succeeded # "ReconcileSucceeded"
      BY DEF NoResource, EmptyStatus
    <2> QED
      BY <1>12, <2>1
      DEF Crash, ghosts, Current, LoopInv, CopiesInv, HandlerInv, RolloutGate
  <1>13. CASE SyncCR
    BY <1>13 DEF SyncCR, ghosts, Current, Missing, LoopInv, CopiesInv, HandlerInv, RolloutGate
  <1>14. CASE EditSpec
    <2>1. cr'.status = cr.status
      BY <1>1, <1>14 DEF EditSpec, Resource
    <2> QED
      BY <1>14, <2>1
      DEF EditSpec, ghosts, Current, Missing, LoopInv, CopiesInv, HandlerInv, RolloutGate
  <1>15. CASE \/ SyncJob \/ Resync \/ UserDeletesJob \/ JobController \/ UNCHANGED vars
    <2>1. UNCHANGED <<cr, crCache, fresh, served, pc, mem>>
      BY <1>15 DEF SyncJob, Resync, UserDeletesJob, JobController, JobStart, JobSucceed,
        JobFail, JobGone, vars, crVars, ghosts
    <2> QED
      BY <2>1 DEF Current, Missing, LoopInv, CopiesInv, HandlerInv, RolloutGate
  <1> QED
    BY <1>3, <1>4, <1>5, <1>6, <1>7, <1>8, <1>9, <1>10, <1>11, <1>12, <1>13, <1>14,
       <1>15 DEF Next, Worker

\* Initially the copies agree and nothing is recorded.
LEMMA LoopInit == Init => LoopInv
  BY DEF Init, LoopInv, CopiesInv, HandlerInv, RolloutGate, Missing, Current,
     NoResource, EmptyStatus

\* Whatever the environment does, a Deployment is applied only for modules that
\* the API server holds as installed.
THEOREM RolloutIsGated == Spec => []RolloutGate
  <1>1. LoopInv => RolloutGate
    BY DEF LoopInv
  <1> QED
    BY <1>1, TypeCorrect, LoopInit, LoopStep, PTL DEF Spec

\* The CR changes in two ways: the handler stores a status of what it has in
\* memory, on the version it has read, or the user edits the modules.
LEMMA Writes ==
    ASSUME TypeOK, [Next]_vars, cr' # cr
    PROVE  \/ Current /\ \E s : /\ s.installed = mem.status.installed
                                /\ s.succeeded = mem.status.succeeded
                                /\ cr' = [cr EXCEPT !.status = s]
           \/ \E m : cr' = [cr EXCEPT !.modules = m]
  <1>1. CASE ReconcileChildren
    <2>1. mem.status \in Status
      BY DEF TypeOK, Resource
    <2> QED
      BY <1>1, <2>1, StatusFields DEF ReconcileChildren, TryStatus, StoreStatus
  <1>2. CASE FlushStatus
    BY <1>2 DEF FlushStatus, TryStatus, StoreStatus
  <1>3. CASE SaveStatus
    BY <1>3 DEF SaveStatus
  <1>4. CASE EditSpec
    BY <1>4 DEF EditSpec
  <1> QED
    BY <1>1, <1>2, <1>3, <1>4 DEF Next, Worker, StartReconcile, GetJob, DeletePods,
      DeleteJob, InstallMissing, ApplyDeployment, ApplyServices, Crash, SyncCR, SyncJob,
      Resync, UserDeletesJob, JobController, JobStart, JobSucceed, JobFail, JobGone,
      vars, crVars

\* Whatever the environment does, no step forgets a recorded module.
THEOREM RecordedForever == Spec => NeverForgets
  <1>1. TypeOK /\ LoopInv /\ [Next]_vars
        => [cr.status.installed \subseteq cr'.status.installed]_cr
    <2> SUFFICES ASSUME TypeOK, LoopInv, [Next]_vars, cr' # cr
                 PROVE  cr.status.installed \subseteq cr'.status.installed
      OBVIOUS
    <2>1. cr \in Resource
      BY DEF TypeOK
    <2> QED
      BY <2>1, Writes DEF LoopInv, CopiesInv, Resource
  <1> QED
    BY <1>1, TypeCorrect, LoopInit, LoopStep, PTL DEF Spec, NeverForgets

\* Whatever the environment does, a status that turns to ReconcileSucceeded is
\* stored with a spec all of whose modules it records.
THEOREM SuccessIsHonest == Spec => HonestSuccess
  <1>1. TypeOK /\ LoopInv /\ [Next]_vars
        => [ /\ cr'.status.succeeded = "ReconcileSucceeded"
             /\ cr.status.succeeded # "ReconcileSucceeded"
             => cr'.modules \subseteq cr'.status.installed ]_cr
    <2> SUFFICES ASSUME TypeOK, LoopInv, [Next]_vars, cr' # cr,
                        cr'.status.succeeded = "ReconcileSucceeded",
                        cr.status.succeeded # "ReconcileSucceeded"
                 PROVE  cr'.modules \subseteq cr'.status.installed
      OBVIOUS
    <2>1. cr \in Resource
      BY DEF TypeOK
    <2>2. CASE \E m : cr' = [cr EXCEPT !.modules = m]
      BY <2>1, <2>2 DEF Resource
    <2>3. CASE Current /\ \E s : /\ s.installed = mem.status.installed
                                 /\ s.succeeded = mem.status.succeeded
                                 /\ cr' = [cr EXCEPT !.status = s]
      <3>1. PICK s : /\ s.installed = mem.status.installed
                     /\ s.succeeded = mem.status.succeeded
                     /\ cr' = [cr EXCEPT !.status = s]
        BY <2>3
      <3>2. cr'.status = s /\ cr'.modules = cr.modules
        BY <2>1, <3>1, PutStatus
      <3>3. Missing(mem) = {} /\ mem.modules = cr.modules
        BY <2>3, <3>1, <3>2 DEF LoopInv, CopiesInv, HandlerInv
      <3> QED
        BY <3>1, <3>2, <3>3 DEF Missing
    <2> QED
      BY <2>2, <2>3, Writes
  <1> QED
    BY <1>1, TypeCorrect, LoopInit, LoopStep, PTL DEF Spec, HonestSuccess

-----------------------------------------------------------------------------
(* The operator comes to rest only when there is nothing left to do *)

\* A Job that is absent has no failures, and without news the informer's copy of
\* the Job is the Job.
LEMMA JobCopiesStep == TypeOK /\ JobCopiesInv /\ [Next]_vars => JobCopiesInv'
  <1> SUFFICES ASSUME TypeOK, JobCopiesInv, [Next]_vars
               PROVE  JobCopiesInv'
    OBVIOUS
  <1> USE DEF JobCopiesInv
  <1>1. job \in Job /\ jobNews \in BOOLEAN
    BY DEF TypeOK
  <1>2. CASE UNCHANGED <<job, jobCache, jobNews>>
    BY <1>2
  <1>3. CASE SyncJob
    BY <1>3 DEF SyncJob
  <1>4. ASSUME JobCacheLags, job'.phase = "absent" => job'.failed = 0
        PROVE  JobCopiesInv'
    BY <1>1, <1>4 DEF JobCacheLags
  <1>5. CASE DeletePods
    <2>1. job'.phase = "absent" => job' = job
      BY <1>1, <1>5, TypeOfFailure DEF DeletePods, PodsDeleted
    <2> QED
      BY <1>4, <1>5, <2>1 DEF DeletePods
  <1>6. CASE DeleteJob \/ UserDeletesJob
    <2>1. job' = job \/ job' = [job EXCEPT !.deleting = TRUE]
      BY <1>6 DEF DeleteJob, UserDeletesJob
    <2>2. job'.phase = job.phase /\ job'.failed = job.failed
      BY <1>1, <2>1 DEF Job
    <2> QED
      BY <1>4, <1>6, <2>2 DEF DeleteJob, UserDeletesJob
  <1>7. CASE InstallMissing
    <2>1. job' = job \/ job' = NewJob(Missing(mem))
      BY <1>7 DEF InstallMissing, NothingMissing, CreateJob, CreateFails
    <2>2. NewJob(Missing(mem)).failed = 0
      BY DEF NewJob
    <2> QED
      BY <1>4, <1>7, <2>1, <2>2 DEF InstallMissing
  <1>8. CASE JobStart \/ JobSucceed
    <2>1. job'.phase \in {"running", "complete"}
      BY <1>1, <1>8 DEF JobStart, JobSucceed, Job
    <2> QED
      BY <1>4, <1>8, <2>1 DEF JobStart, JobSucceed
  <1>9. CASE JobFail
    <2>1. job'.phase \in {"waiting", "failed"}
      BY <1>1, <1>9, TypeOfFailure DEF JobFail
    <2> QED
      BY <1>4, <1>9, <2>1 DEF JobFail
  <1>10. CASE JobGone
    BY <1>4, <1>10 DEF JobGone, NoJob
  <1> QED
    BY <1>2, <1>3, <1>5, <1>6, <1>7, <1>8, <1>9, <1>10
    DEF Next, Worker, JobController, StartReconcile, ReconcileChildren, GetJob,
        ApplyDeployment, FlushStatus, ApplyServices, SaveStatus, Crash, SyncCR, Resync,
        EditSpec, vars, jobVars

\* What must have been so if after a step nothing asks for the handler.
LEMMA StillQuiet ==
    ASSUME TypeOK, [Next]_vars, ~queued', ~jobNews'
    PROVE  /\ ~jobNews /\ UNCHANGED job
           /\ ~queued \/ StartReconcile
           /\ ~SyncCR /\ ~Crash
  <1>1. ~SyncJob /\ ~SyncCR /\ ~Crash /\ ~Resync
    BY DEF SyncJob, SyncCR, Crash, Resync
  <1>2. JobCacheLags \/ UNCHANGED <<job, jobNews>>
    BY <1>1 DEF Next, Worker, JobController, StartReconcile, ReconcileChildren, GetJob,
        DeletePods, DeleteJob, InstallMissing, UserDeletesJob, JobStart, JobSucceed,
        JobFail, JobGone, ApplyDeployment, FlushStatus, ApplyServices, SaveStatus,
        EditSpec, vars, jobVars
  <1>3. UNCHANGED queued \/ StartReconcile \/ SaveStatus
    BY <1>1 DEF Next, Worker, JobController, ReconcileChildren, GetJob,
        DeletePods, DeleteJob, InstallMissing, UserDeletesJob, JobStart, JobSucceed,
        JobFail, JobGone, ApplyDeployment, FlushStatus, ApplyServices, EditSpec, vars
  <1>4. SaveStatus => ~queued
    BY DEF SaveStatus
  <1>5. ~jobNews /\ UNCHANGED job
    <2>1. CASE JobCacheLags
      <3>1. jobNews' = (jobNews \/ job' # job)
        BY <2>1 DEF JobCacheLags
      <3>2. ~(jobNews \/ job' # job)
        BY <3>1, Zenon
      <3> QED
        BY <3>2, Zenon
    <2>2. CASE UNCHANGED <<job, jobNews>>
      BY <2>2
    <2> QED
      BY <1>2, <2>1, <2>2
  <1>6. ~queued \/ StartReconcile
    BY <1>3, <1>4
  <1> QED
    BY <1>1, <1>5, <1>6

\* From the Deployment on the handler has served what it has in memory.
LEMMA ServedStep ==
    ASSUME TypeOK, LoopInv, RestInv, [Next]_vars, pc' \in {"flush", "services"}
    PROVE  mem'.modules \subseteq served'
  <1>1. CASE ApplyDeployment
    BY <1>1 DEF ApplyDeployment
  <1>2. CASE FlushStatus
    <2>1. mem.modules \subseteq served /\ UNCHANGED served
      BY <1>2 DEF FlushStatus, RestInv, ghosts
    <2>2. mem'.modules = mem.modules
      <3>1. CASE Current /\ cr' = [cr EXCEPT !.status = mem.status] /\ mem' = cr'
        BY <3>1, PutStatus DEF TypeOK, LoopInv, CopiesInv
      <3>2. CASE mem' = [mem EXCEPT !.status = mem.status]
        BY <3>2, PutStatus DEF TypeOK
      <3> QED
        BY <1>2, <3>1, <3>2 DEF FlushStatus, TryStatus, StoreStatus
    <2> QED
      BY <2>1, <2>2
  <1>3. CASE UNCHANGED <<pc, mem, served>>
    BY <1>3 DEF RestInv
  <1> QED
    BY <1>1, <1>2, <1>3
    DEF Next, Worker, JobController, StartReconcile, ReconcileChildren, GetJob,
        JobSucceeded, JobActive, JobFailed, JobUnknown, DeletePods, DeleteJob,
        InstallMissing, NothingMissing, CreateJob, CreateFails, ApplyServices, SaveStatus,
        Crash, SyncCR, SyncJob, Resync, EditSpec, UserDeletesJob, JobStart, JobSucceed,
        JobFail, JobGone, vars, ghosts

\* The handler asks for no requeue when there is nothing left, or when the Job it
\* has just seen has lost pods.
LEMMA FinishStep ==
    ASSUME TypeOK, LoopInv, JobCopiesInv, RestInv, [Next]_vars,
           pc' = "finish", Current', ~queued', ~jobNews'
    PROVE  (Done(mem) \/ GivenUp(mem))'
  <1>1. ~jobNews /\ UNCHANGED job /\ (~queued \/ StartReconcile) /\ ~SyncCR /\ ~Crash
    BY StillQuiet
  <1>2. mem \in Resource /\ mem.status \in Status /\ job \in Job
    BY DEF TypeOK, Resource
  <1>3. CASE GetJob
    <2>1. JobFailed /\ mem.status.cur.named
      BY <1>3 DEF GetJob, JobSucceeded, JobActive, JobUnknown
    <2>2. job = JobView
      BY <1>1 DEF JobView, JobCopiesInv
    <2>3. job.failed > 0 /\ job.phase \in {"waiting", "failed"}
      <3>1. job.phase # "absent"
        BY <2>1, <2>2 DEF JobFailed, JobCopiesInv
      <3> QED
        BY <1>2, <2>1, <2>2, <3>1 DEF JobFailed, Job, JobPhase
    <2>4. mem'.status = Degraded(mem.status)
      BY <1>2, <2>1, PutStatus DEF JobFailed
    <2>5. mem'.status.cur = mem.status.cur /\ mem'.status.degraded
      BY <1>2, <2>4 DEF Degraded, Status
    <2> QED
      BY <1>1, <2>1, <2>3, <2>5 DEF GivenUp
  <1>4. CASE ApplyServices
    <2>1. pc = "services" /\ UNCHANGED served
      BY <1>4 DEF ApplyServices, ghosts
    <2>2. Done(mem)
      BY <2>1 DEF Done, RestInv, LoopInv, HandlerInv
    <2>3. mem' = [mem EXCEPT !.status = Succeeded(@, "ReconcileSucceeded")]
      BY <1>4 DEF ApplyServices
    <2>4. mem'.modules = mem.modules /\ mem'.status.installed = mem.status.installed
      BY <1>2, <2>3, PutStatus, StatusFields
    <2> QED
      BY <2>1, <2>2, <2>4 DEF Done, Missing
  <1>5. ASSUME UNCHANGED <<pc, mem, served>>, fresh' \subseteq fresh
        PROVE  (Done(mem) \/ GivenUp(mem))'
    <2>1. Current /\ ~queued
      BY <1>1, <1>5 DEF Current, StartReconcile
    <2>2. Done(mem) \/ GivenUp(mem)
      BY <1>1, <1>5, <2>1 DEF RestInv
    <2> QED
      BY <1>1, <1>5, <2>2 DEF Done, GivenUp, Missing
  <1> QED
    BY <1>1, <1>3, <1>4, <1>5
    DEF Next, Worker, JobController, StartReconcile, ReconcileChildren, DeletePods,
        DeleteJob, InstallMissing, NothingMissing, CreateJob, CreateFails, ApplyDeployment,
        FlushStatus, SaveStatus, SyncJob, Resync, EditSpec, UserDeletesJob, JobStart,
        JobSucceed, JobFail, JobGone, vars, crVars, ghosts

\* The status write that ends the handler stores what was true of its memory.
LEMMA IdleStep ==
    ASSUME TypeOK, LoopInv, RestInv, [Next]_vars,
           pc' = "idle", "cache" \in fresh', ~queued', ~jobNews'
    PROVE  (Done(cr) \/ GivenUp(cr))'
  <1>1. ~jobNews /\ UNCHANGED job /\ (~queued \/ StartReconcile) /\ ~SyncCR /\ ~Crash
    BY StillQuiet
  <1>2. CASE SaveStatus
    <2>1. /\ pc = "finish" /\ Current /\ ~queued /\ UNCHANGED served
          /\ cr' = [cr EXCEPT !.status = mem.status]
      BY <1>2 DEF SaveStatus, ghosts
    <2>2. Done(mem) \/ GivenUp(mem)
      BY <1>1, <2>1 DEF RestInv
    <2>3. cr'.status = mem.status /\ cr'.modules = mem.modules
      BY <2>1, PutStatus DEF TypeOK, LoopInv, CopiesInv
    <2> QED
      BY <1>1, <2>1, <2>2, <2>3 DEF Done, GivenUp, Missing
  <1>3. ASSUME UNCHANGED <<pc, cr, served>>, fresh' \subseteq fresh
        PROVE  (Done(cr) \/ GivenUp(cr))'
    <2>1. ~queued
      BY <1>1, <1>3 DEF StartReconcile
    <2>2. Done(cr) \/ GivenUp(cr)
      BY <1>1, <1>3, <2>1 DEF RestInv
    <2> QED
      BY <1>1, <1>3, <2>2 DEF Done, GivenUp, Missing
  <1> QED
    BY <1>1, <1>2, <1>3
    DEF Next, Worker, JobController, StartReconcile, ReconcileChildren, GetJob,
        JobSucceeded, JobActive, JobFailed, JobUnknown, DeletePods, DeleteJob,
        InstallMissing, NothingMissing, CreateJob, CreateFails, ApplyDeployment,
        FlushStatus, ApplyServices, SyncJob, Resync, EditSpec, UserDeletesJob, JobStart,
        JobSucceed, JobFail, JobGone, vars, crVars, ghosts

LEMMA RestStep == TypeOK /\ LoopInv /\ JobCopiesInv /\ RestInv /\ [Next]_vars => RestInv'
  <1> SUFFICES ASSUME TypeOK, LoopInv, JobCopiesInv, RestInv, [Next]_vars
               PROVE  RestInv'
    OBVIOUS
  <1>1. (pc \in {"flush", "services"} => mem.modules \subseteq served)'
    BY ServedStep
  <1>2. (pc = "finish" /\ Current /\ ~queued /\ ~jobNews => Done(mem) \/ GivenUp(mem))'
    BY FinishStep
  <1>3. (pc = "idle" /\ "cache" \in fresh /\ ~queued /\ ~jobNews => Done(cr) \/ GivenUp(cr))'
    BY IdleStep
  <1> QED
    BY <1>1, <1>2, <1>3 DEF RestInv

LEMMA RestInit == Init => JobCopiesInv /\ RestInv
  BY DEF Init, JobCopiesInv, RestInv, NoJob

\* Whatever the environment does: when nothing is on its way to the operator and no
\* Job is at work, the modules of the spec are recorded and served, or the Job that
\* the status names has failed for good and the status says so.
THEOREM SettlesRight == Spec => []Settled
  <1>1. TypeOK /\ RestInv => Settled
    <2> SUFFICES ASSUME TypeOK, RestInv, Quiet
                 PROVE  \/ Done(cr)
                        \/ job.phase = "failed" /\ cr.status.cur.named /\ cr.status.degraded
      BY DEF Settled, Done, Missing
    <2>1. Done(cr) \/ GivenUp(cr)
      BY DEF RestInv, Quiet
    <2> QED
      BY <2>1 DEF GivenUp, Quiet
  <1> QED
    BY <1>1, TypeCorrect, LoopInit, LoopStep, RestInit, JobCopiesStep, RestStep, PTL DEF Spec

-----------------------------------------------------------------------------
(* Nothing is installed twice as long as no status is lost *)

NothingLost == Disturbances \cap {"crash", "writeError", "jobDeleted"} = {}

\* What it takes for a step to keep the account, if it leaves Job and database alone.
LEMMA AccountKept ==
    ASSUME OnceInv, UNCHANGED <<job, db>>,
           Latest'.installed = Latest.installed, Latest'.cur = Latest.cur,
           pc' \in {"pods", "delete"} => pc \in {"pods", "delete"}
    PROVE  OnceInv'
  <1> DEFINE a == Latest.installed
             b == Latest.cur
  <1>1. a' = a /\ b' = b
    OBVIOUS
  <1> HIDE DEF a, b
  <1> QED
    BY <1>1 DEF OnceInv, NoReinstall, a, b

\* A run of the handler that loses no write begins with the stored status and ends
\* by storing its own.
LEMMA LatestStays ==
    ASSUME NothingLost, TypeOK, LoopInv, WritesTaken, WritesTaken', [Next]_vars,
           ~GetJob, ~(InstallMissing /\ CreateJob)
    PROVE  Latest'.installed = Latest.installed /\ Latest'.cur = Latest.cur
  <1> USE DEF TypeOK
  <1>1. mem.status \in Status /\ cr.status \in Status
    BY DEF Resource
  <1>2. ~Disturb("crash") /\ ~Disturb("writeError")
    BY DEF NothingLost, Disturb
  <1>3. ASSUME NEW s, mem' = [mem EXCEPT !.status = s], pc # "idle", pc' # "idle",
               s.installed = mem.status.installed, s.cur = mem.status.cur
        PROVE  Latest'.installed = Latest.installed /\ Latest'.cur = Latest.cur
    BY <1>3, PutStatus DEF Latest
  <1>4. ASSUME NEW s, TryStatus(s), pc # "idle", pc' # "idle",
               s.installed = mem.status.installed, s.cur = mem.status.cur
        PROVE  Latest'.installed = Latest.installed /\ Latest'.cur = Latest.cur
    <2>1. [cr EXCEPT !.status = s].status = s /\ [mem EXCEPT !.status = s].status = s
      BY PutStatus
    <2>2. mem' = [cr EXCEPT !.status = s] \/ mem' = [mem EXCEPT !.status = s]
      BY <1>4 DEF TryStatus, StoreStatus
    <2> QED
      BY <1>4, <2>1, <2>2 DEF Latest
  <1>5. CASE StartReconcile
    <2>1. pc = "idle" /\ pc' = "children" /\ mem' = CrView /\ Current'
      BY <1>5 DEF StartReconcile, WritesTaken
    <2>2. ~Current
      BY <2>1 DEF LoopInv, CopiesInv
    <2>3. ReadFresh
      BY <1>5, <2>1, <2>2 DEF StartReconcile, Current
    <2>4. mem' = cr
      BY <2>1, <2>3 DEF ReadFresh, CrView, LoopInv, CopiesInv
    <2> QED
      BY <2>1, <2>4 DEF Latest
  <1>6. CASE ReconcileChildren
    <2>1. pc # "idle" /\ pc' # "idle"
      BY <1>6 DEF ReconcileChildren
    <2>2. CASE TryStatus([mem.status EXCEPT !.children = TRUE])
      BY <1>1, <1>4, <2>1, <2>2, StatusFields
    <2>3. CASE \E s \in ChildFailed(mem.status) : mem' = [mem EXCEPT !.status = s]
      BY <1>1, <1>3, <2>1, <2>3, StatusFields
    <2> QED
      BY <1>6, <2>2, <2>3 DEF ReconcileChildren
  <1>7. CASE DeletePods \/ DeleteJob
    <2>1. /\ pc # "idle" /\ pc' # "idle"
          /\ mem' = mem \/ mem' = [mem EXCEPT !.status = Degraded(@)]
      BY <1>7 DEF DeletePods, DeleteJob
    <2>2. CASE mem' = mem
      BY <2>1, <2>2 DEF Latest
    <2>3. CASE mem' = [mem EXCEPT !.status = Degraded(@)]
      BY <1>1, <1>3, <2>1, <2>3, StatusFields
    <2> QED
      BY <2>1, <2>2, <2>3
  <1>8. CASE InstallMissing
    <2>1. /\ pc # "idle" /\ pc' # "idle"
          /\ mem' = mem \/ mem' = [mem EXCEPT !.status = Succeeded(@, "Failed")]
      BY <1>8 DEF InstallMissing, NothingMissing, CreateFails
    <2>2. CASE mem' = mem
      BY <2>1, <2>2 DEF Latest
    <2>3. CASE mem' = [mem EXCEPT !.status = Succeeded(@, "Failed")]
      BY <1>1, <1>3, <2>1, <2>3, StatusFields
    <2> QED
      BY <2>1, <2>2, <2>3
  <1>9. CASE ApplyDeployment \/ ApplyServices
    <2>1. /\ pc # "idle" /\ pc' # "idle"
          /\ \/ mem' = mem
             \/ \E s \in ChildFailed(mem.status) \cup {Succeeded(mem.status, "ReconcileSucceeded")} :
                   mem' = [mem EXCEPT !.status = s]
      BY <1>9 DEF ApplyDeployment, ApplyServices
    <2>2. CASE mem' = mem
      BY <2>1, <2>2 DEF Latest
    <2>3. ASSUME NEW s \in ChildFailed(mem.status) \cup {Succeeded(mem.status, "ReconcileSucceeded")},
                 mem' = [mem EXCEPT !.status = s]
          PROVE  Latest'.installed = Latest.installed /\ Latest'.cur = Latest.cur
      BY <1>1, <1>3, <2>1, <2>3, StatusFields
    <2> QED
      BY <2>1, <2>2, <2>3
  <1>10. CASE FlushStatus
    BY <1>4, <1>10 DEF FlushStatus
  <1>11. CASE SaveStatus
    <2>1. pc # "idle" /\ pc' = "idle" /\ Current
      BY <1>11 DEF SaveStatus, WritesTaken
    <2>2. cr' = [cr EXCEPT !.status = mem.status]
      BY <1>2, <1>11, <2>1 DEF SaveStatus
    <2> QED
      BY <2>1, <2>2, PutStatus DEF Latest
  <1>12. CASE EditSpec
    <2>1. cr'.status = cr.status /\ UNCHANGED <<pc, mem>>
      BY <1>12 DEF EditSpec, Resource
    <2> QED
      BY <2>1 DEF Latest
  <1>13. CASE \/ SyncCR \/ SyncJob \/ Resync \/ UserDeletesJob \/ JobController
              \/ UNCHANGED vars
    <2>1. UNCHANGED <<cr, pc, mem>>
      BY <1>13 DEF SyncCR, SyncJob, Resync, UserDeletesJob, JobController, JobStart,
        JobSucceed, JobFail, JobGone, vars, crVars
    <2> QED
      BY <2>1 DEF Latest
  <1>14. ~Crash
    BY <1>2 DEF Crash
  <1> QED
    BY <1>5, <1>6, <1>7, <1>8, <1>9, <1>10, <1>11, <1>12, <1>13, <1>14 DEF Next, Worker

\* As long as no status is lost, the latest one answers for all Jobs there have been.
LEMMA OnceStep ==
    ASSUME NothingLost, TypeOK, LoopInv, OnceInv, WritesTaken, WritesTaken', [Next]_vars
    PROVE  OnceInv'
  <1> USE DEF TypeOK
  <1>1. mem.status \in Status
    BY DEF Resource
  <1>2. CASE GetJob
    <2>1. pc = "getjob" /\ pc' \notin {"idle", "delete"} /\ UNCHANGED <<job, db>>
      BY <1>2 DEF GetJob, JobSucceeded, JobActive, JobFailed, JobUnknown, jobVars, ghosts
    <2>2. CASE JobSucceeded /\ mem.status.cur.named
      <3>1. /\ Latest'.installed = Latest.installed \cup Latest.cur.modules
            /\ Latest'.cur = NoBatch /\ Latest.cur.named
        BY <1>1, <2>1, <2>2, StatusFields, PutStatus DEF JobSucceeded, Latest
      <3> QED
        BY <2>1, <3>1 DEF OnceInv, NoReinstall, NoBatch
    <2>3. CASE mem' = mem \/ mem' = [mem EXCEPT !.status = Degraded(@)]
      <3>1. Latest'.installed = Latest.installed /\ Latest'.cur = Latest.cur
        <4>1. CASE mem' = mem
          BY <2>1, <4>1 DEF Latest
        <4>2. CASE mem' = [mem EXCEPT !.status = Degraded(@)]
          <5>1. mem'.status = Degraded(mem.status)
            BY <4>2, PutStatus
          <5> QED
            BY <1>1, <2>1, <5>1, StatusFields DEF Latest
        <4> QED
          BY <2>3, <4>1, <4>2
      <3>2. CASE pc' = "pods"
        <4>1. JobSucceeded /\ mem.status.cur.named
          BY <1>2, <3>2 DEF GetJob, JobActive, JobFailed, JobUnknown
        <4> QED
          BY <2>2, <4>1
      <3> QED
        BY <2>1, <3>1, <3>2, AccountKept
    <2> QED
      BY <1>2, <2>2, <2>3 DEF GetJob, JobActive, JobFailed, JobUnknown
  <1>3. CASE InstallMissing /\ CreateJob
    <2>1. /\ pc = "missing" /\ pc' = "save" /\ job.phase = "absent" /\ UNCHANGED db
          /\ job' = NewJob(Missing(mem))
      BY <1>3 DEF InstallMissing, CreateJob, ghosts
    <2>2. ~Latest.cur.named /\ db \subseteq Latest.installed /\ Latest = mem.status
      BY <2>1 DEF OnceInv, Latest
    <2>3. /\ Latest'.installed = Latest.installed
          /\ Latest'.cur = [named |-> TRUE, modules |-> Missing(mem)]
      BY <1>1, <1>3, <2>1, StatusFields, PutStatus DEF CreateJob, Latest
    <2>4. Missing(mem) \cap db = {}
      BY <2>2 DEF Missing
    <2> QED
      BY <2>1, <2>2, <2>3, <2>4 DEF OnceInv, NoReinstall, NewJob
  <1>4. CASE ~GetJob /\ ~(InstallMissing /\ CreateJob)
    <2>1. Latest'.installed = Latest.installed /\ Latest'.cur = Latest.cur
      BY <1>4, LatestStays
    <2>2. CASE DeletePods
      <3>1. /\ pc = "pods" /\ ~Latest.cur.named /\ UNCHANGED db
            /\ \/ job' = job
               \/ job.phase = "running" /\ job' = CountFailure(job)
        BY <2>2 DEF DeletePods, PodsDeleted, ghosts, OnceInv
      <3>2. job'.phase # "absent" => job.phase # "absent"
        BY <3>1
      <3>3. /\ job'.modules = job.modules
            /\ job'.phase \in {"waiting", "running"} => job.phase \in {"waiting", "running"}
        BY <3>1, TypeOfFailure DEF TypeOK
      <3> QED
        BY <2>1, <3>1, <3>2, <3>3 DEF OnceInv, NoReinstall
    <2>3. CASE DeleteJob
      <3>1. /\ pc = "delete" /\ ~Latest.cur.named /\ UNCHANGED db
            /\ \/ job' = job
               \/ job.phase # "absent" /\ job' = [job EXCEPT !.deleting = TRUE]
        BY <2>3 DEF DeleteJob, ghosts, OnceInv
      <3>2. job'.modules = job.modules /\ job'.phase = job.phase
        BY <3>1 DEF Job
      <3> QED
        BY <2>1, <3>1, <3>2 DEF OnceInv, NoReinstall
    <2>4. CASE JobStart \/ JobFail
      <3>1. /\ UNCHANGED <<db, pc>> /\ job.phase \in {"waiting", "running"} /\ job \in Job
            /\ job' \in {[job EXCEPT !.phase = "running"], CountFailure(job)}
        BY <2>4 DEF JobStart, JobFail, ghosts
      <3>2. /\ job'.modules = job.modules /\ job'.deleting = job.deleting
            /\ job'.phase \in {"waiting", "running", "failed"}
        BY <3>1, TypeOfFailure DEF Job
      <3> QED
        BY <2>1, <3>1, <3>2 DEF OnceInv, NoReinstall
    <2>5. CASE JobSucceed
      <3>1. /\ UNCHANGED pc /\ job.phase = "running" /\ db' = db \cup job.modules
            /\ job' = [job EXCEPT !.phase = "complete"]
        BY <2>5 DEF JobSucceed
      <3>2. /\ job'.modules = job.modules /\ job'.deleting = job.deleting
            /\ job'.phase = "complete"
        BY <3>1 DEF Job
      <3> QED
        BY <2>1, <3>1, <3>2 DEF OnceInv, NoReinstall
    <2>6. CASE JobGone
      <3>1. /\ UNCHANGED pc /\ job.deleting /\ job'.phase = "absent"
            /\ \/ db' = db
               \/ job.phase = "running" /\ db' = db \cup job.modules
        BY <2>6 DEF JobGone, NoJob
      <3> QED
        BY <2>1, <3>1 DEF OnceInv, NoReinstall
    <2>7. ~UserDeletesJob /\ ~Crash
      BY DEF UserDeletesJob, Crash, Disturb, NothingLost
    <2>8. CASE InstallMissing
      <3>1. pc' \notin {"pods", "delete"} /\ UNCHANGED <<job, db>>
        BY <1>4, <2>8 DEF InstallMissing, NothingMissing, CreateFails, ghosts
      <3> QED
        BY <2>1, <3>1, AccountKept
    <2>9. CASE \/ StartReconcile \/ ReconcileChildren \/ ApplyDeployment \/ FlushStatus
               \/ ApplyServices \/ SaveStatus
      <3>1. UNCHANGED <<job, db>> /\ pc' \notin {"pods", "delete"}
        BY <2>9 DEF StartReconcile, ReconcileChildren, ApplyDeployment, FlushStatus,
          ApplyServices, SaveStatus, jobVars, ghosts
      <3> QED
        BY <2>1, <3>1, AccountKept
    <2>10. CASE SyncCR \/ SyncJob \/ Resync \/ EditSpec \/ UNCHANGED vars
      <3>1. UNCHANGED <<job, db, pc>>
        BY <2>10 DEF SyncCR, SyncJob, Resync, EditSpec, vars, jobVars, ghosts
      <3> QED
        BY <2>1, <3>1, AccountKept
    <2> QED
      BY <1>4, <2>2, <2>3, <2>4, <2>5, <2>6, <2>7, <2>8, <2>9, <2>10
      DEF Next, Worker, JobController
  <1> QED
    BY <1>2, <1>3, <1>4

\* While nobody deletes the Job, the operator is not restarted and the status write
\* that ends a run of the handler is taken, no module is installed a second time,
\* whatever the user edits between two runs, whichever Job is read late and whichever
\* other call fails (odoodeployment_funcs.go:245).
THEOREM InstalledOnce ==
    NothingLost => (Spec /\ []WritesTaken => []NoReinstall)
  <1> SUFFICES ASSUME NothingLost
               PROVE  Spec /\ []WritesTaken => []NoReinstall
    OBVIOUS
  <1>1. Init => OnceInv
    BY DEF Init, OnceInv, NoReinstall, Latest, NoJob, EmptyStatus, NoBatch
  <1>2. TypeOK /\ LoopInv /\ OnceInv /\ WritesTaken /\ WritesTaken' /\ [Next]_vars => OnceInv'
    BY OnceStep
  <1>3. OnceInv => NoReinstall
    BY DEF OnceInv
  <1> QED
    BY <1>1, <1>2, <1>3, TypeCorrect, LoopInit, LoopStep, PTL DEF Spec

-----------------------------------------------------------------------------
(* Soundness, when nobody deletes the Job and its reads are fresh *)

KeptJobs == "jobDeleted" \notin Disturbances /\ "staleJob" \notin Disturbances

\* A batch that is accounted for stays so.
LEMMA AccountedStays ==
    ASSUME NEW batch, Accounted(batch), JobInv, db \subseteq db',
           \/ job.phase = "absent"
           \/ job.phase # "absent" /\ job'.phase # "absent" /\ job'.modules = job.modules
           \/ job.deleting
    PROVE  batch.named => \/ batch.modules \subseteq db'
                          \/ job'.phase # "absent" /\ job'.modules = batch.modules
  BY DEF Accounted, JobInv

\* How a step may change the Job, and that it never shrinks the database.
LEMMA JobChanges ==
    ASSUME KeptJobs, TypeOK, JobInv, [Next]_vars
    PROVE  /\ db \subseteq db'
           /\ JobInv'
           /\ \/ job.phase = "absent"
              \/ job.phase # "absent" /\ job'.phase # "absent" /\ job'.modules = job.modules
              \/ job.deleting
  <1> USE DEF JobInv
  <1>1. CASE GetJob
    <2>1. pc' = "pods" => job.phase = "complete"
      BY <1>1 DEF GetJob, JobSucceeded, JobActive, JobFailed, JobUnknown, JobView, KeptJobs
    <2>2. UNCHANGED <<job, db>> /\ pc' # "delete"
      BY <1>1 DEF GetJob, JobSucceeded, JobActive, JobFailed, JobUnknown, jobVars, ghosts
    <2> QED
      BY <2>1, <2>2
  <1>2. CASE DeletePods
    <2>1. UNCHANGED <<job, db>> /\ pc = "pods" /\ pc' \in {"delete", "save"}
      BY <1>2 DEF DeletePods, PodsDeleted, ghosts
    <2> QED
      BY <2>1
  <1>3. CASE DeleteJob
    <2>1. /\ pc = "delete" /\ pc' = "save" /\ UNCHANGED db
          /\ \/ job.phase # "absent" /\ job' = [job EXCEPT !.deleting = TRUE]
             \/ UNCHANGED job
      BY <1>3 DEF DeleteJob, ghosts
    <2> QED
      BY <2>1 DEF TypeOK, Job
  <1>4. CASE InstallMissing
    <2>1. pc' \in {"deployment", "save"} /\ UNCHANGED db
      BY <1>4 DEF InstallMissing, NothingMissing, CreateJob, CreateFails, ghosts
    <2>2. job' = job \/ (job.phase = "absent" /\ job' = NewJob(Missing(mem)))
      BY <1>4 DEF InstallMissing, NothingMissing, CreateJob, CreateFails
    <2> QED
      BY <2>1, <2>2 DEF NewJob
  <1>5. CASE JobStart \/ JobSucceed
    <2>1. /\ ~job.deleting /\ job.phase # "absent" /\ pc' = pc
          /\ job.phase # "complete"
          /\ \/ job' = [job EXCEPT !.phase = "running"] /\ UNCHANGED db
             \/ job' = [job EXCEPT !.phase = "complete"] /\ db' = db \cup job.modules
      BY <1>5 DEF JobStart, JobSucceed, ghosts
    <2> QED
      BY <2>1 DEF TypeOK, Job
  <1>6. CASE JobFail
    <2>1. /\ ~job.deleting /\ job.phase = "running" /\ UNCHANGED <<pc, db>>
          /\ job' = CountFailure(job)
      BY <1>6 DEF JobFail, ghosts
    <2> QED
      BY <2>1, TypeOfFailure DEF TypeOK
  <1>7. CASE JobGone
    <2>1. job.deleting /\ job' = NoJob /\ db \subseteq db' /\ pc' = pc
      BY <1>7 DEF JobGone
    <2> QED
      BY <2>1 DEF NoJob
  <1>8. CASE \/ StartReconcile \/ ReconcileChildren \/ ApplyDeployment \/ FlushStatus
             \/ ApplyServices \/ SaveStatus \/ Crash
    <2>1. UNCHANGED <<job, db>> /\ pc' \notin {"pods", "delete"}
      BY <1>8 DEF StartReconcile, ReconcileChildren, ApplyDeployment, FlushStatus,
        ApplyServices, SaveStatus, Crash, jobVars, ghosts
    <2> QED
      BY <2>1
  <1>9. CASE SyncCR \/ SyncJob \/ Resync \/ EditSpec \/ UNCHANGED vars
    <2>1. UNCHANGED <<job, db, pc>>
      BY <1>9 DEF SyncCR, SyncJob, Resync, EditSpec, vars, jobVars, ghosts
    <2> QED
      BY <2>1
  <1>10. ~UserDeletesJob
    BY DEF UserDeletesJob, Disturb, KeptJobs
  <1> QED
    BY <1>1, <1>2, <1>3, <1>4, <1>5, <1>6, <1>7, <1>8, <1>9, <1>10
    DEF Next, Worker, JobController

\* What a copy of the CR says after a step comes from one of the copies before
\* it, from the success the handler has just read, or from the Job it created.
LEMMA CopyOrigin ==
    ASSUME TypeOK, [Next]_vars,
           NEW copy \in {cr', crCache', mem'}
    PROVE  LET new == copy.status IN
           \/ \E old \in {cr, crCache, mem, NoResource} :
                 new.installed = old.status.installed /\ new.cur = old.status.cur
           \/ /\ mem.status.cur.named /\ JobView.phase = "complete"
              /\ new.installed = mem.status.installed \cup mem.status.cur.modules
              /\ new.cur = NoBatch
           \/ /\ new.installed = mem.status.installed
              /\ new.cur = [named |-> TRUE, modules |-> job'.modules]
              /\ job'.phase # "absent"
  <1> DEFINE Origin(o) ==
        \/ \E old \in {cr, crCache, mem, NoResource} :
              /\ o.status.installed = old.status.installed
              /\ o.status.cur = old.status.cur
        \/ /\ mem.status.cur.named /\ JobView.phase = "complete"
           /\ o.status.installed = mem.status.installed \cup mem.status.cur.modules
           /\ o.status.cur = NoBatch
        \/ /\ o.status.installed = mem.status.installed
           /\ o.status.cur = [named |-> TRUE, modules |-> job'.modules]
           /\ job'.phase # "absent"
  <1> SUFFICES Origin(cr') /\ Origin(crCache') /\ Origin(mem')
    OBVIOUS
  <1>1. mem.status \in Status /\ mem \in Resource /\ cr \in Resource
    BY DEF TypeOK, Resource
  <1>2. Origin(cr) /\ Origin(crCache) /\ Origin(mem) /\ Origin(NoResource)
    OBVIOUS
  <1>3. ASSUME NEW s, s.installed = mem.status.installed, s.cur = mem.status.cur
        PROVE  Origin([cr EXCEPT !.status = s]) /\ Origin([mem EXCEPT !.status = s])
    BY <1>1, <1>3, PutStatus
  <1>4. CASE JobSucceeded /\ mem.status.cur.named /\ UNCHANGED <<cr, crCache>>
    <2>1. mem'.status = RecordSuccess(mem.status) /\ JobView.phase = "complete"
      BY <1>1, <1>4, PutStatus DEF JobSucceeded
    <2>2. Origin(mem')
      BY <1>1, <1>4, <2>1, StatusFields
    <2> QED
      BY <1>2, <1>4, <2>2
  <1>5. CASE CreateJob /\ UNCHANGED <<cr, crCache>>
    <2>1. mem'.status = RecordCreated(mem.status, Missing(mem))
      BY <1>1, <1>5, PutStatus DEF CreateJob
    <2>2. job'.modules = Missing(mem) /\ job'.phase # "absent"
      BY <1>5 DEF CreateJob, NewJob
    <2>3. /\ RecordCreated(mem.status, Missing(mem)).installed = mem.status.installed
          /\ RecordCreated(mem.status, Missing(mem)).cur
                = [named |-> TRUE, modules |-> Missing(mem)]
      <3> HIDE DEF Origin
      <3> QED
        BY <1>1, StatusFields
    <2>4. /\ mem'.status.installed = mem.status.installed
          /\ mem'.status.cur = [named |-> TRUE, modules |-> job'.modules]
      BY <2>1, <2>2, <2>3
    <2>5. Origin(mem')
      BY <2>2, <2>4
    <2> QED
      BY <1>2, <1>5, <2>5
  <1>6. EditSpec => Origin(cr')
    <2>1. EditSpec => cr'.status = cr.status
      BY <1>1 DEF EditSpec, Resource
    <2> QED
      BY <2>1
  <1>7. ASSUME NEW s, s.installed = mem.status.installed, s.cur = mem.status.cur,
               TryStatus(s)
        PROVE  Origin(cr') /\ Origin(mem')
    <2>1. CASE cr' = [cr EXCEPT !.status = s] /\ mem' = cr'
      BY <1>3, <1>7, <2>1
    <2>2. CASE mem' = [mem EXCEPT !.status = s] /\ UNCHANGED cr
      BY <1>2, <1>3, <1>7, <2>2
    <2> QED
      BY <1>7, <2>1, <2>2 DEF TryStatus, StoreStatus
  <1>8. /\ Origin([mem EXCEPT !.status = Degraded(mem.status)])
        /\ \A r : Origin([mem EXCEPT !.status = Succeeded(mem.status, r)])
        /\ \A s \in ChildFailed(mem.status) : Origin([mem EXCEPT !.status = s])
    BY <1>1, <1>3, StatusFields
  <1> HIDE DEF Origin
  <1>10. CASE ReconcileChildren
    <2>1. UNCHANGED crCache
      BY <1>10 DEF ReconcileChildren
    <2>2. CASE TryStatus([mem.status EXCEPT !.children = TRUE])
      <3>1. /\ [mem.status EXCEPT !.children = TRUE].installed = mem.status.installed
            /\ [mem.status EXCEPT !.children = TRUE].cur = mem.status.cur
        BY <1>1, StatusFields
      <3> QED
        BY <1>2, <1>7, <2>1, <2>2, <3>1
    <2>3. CASE /\ \E s \in ChildFailed(mem.status) : mem' = [mem EXCEPT !.status = s]
               /\ UNCHANGED cr
      BY <1>2, <1>8, <2>1, <2>3
    <2> QED
      BY <1>10, <2>2, <2>3 DEF ReconcileChildren
  <1>11. CASE GetJob
    <2>1. UNCHANGED <<cr, crCache>>
      BY <1>11 DEF GetJob, crVars
    <2>2. CASE UNCHANGED mem \/ mem' = [mem EXCEPT !.status = Degraded(mem.status)]
      BY <1>2, <1>8, <2>1, <2>2
    <2> QED
      BY <1>4, <1>11, <2>1, <2>2 DEF GetJob, JobActive, JobFailed, JobUnknown
  <1>12. CASE DeletePods \/ DeleteJob
    <2>1. UNCHANGED <<cr, crCache>>
      BY <1>12 DEF DeletePods, DeleteJob, crVars
    <2>2. UNCHANGED mem \/ mem' = [mem EXCEPT !.status = Degraded(mem.status)]
      BY <1>12 DEF DeletePods, DeleteJob
    <2> QED
      BY <1>2, <1>8, <2>1, <2>2
  <1>13. CASE InstallMissing
    <2>1. UNCHANGED <<cr, crCache>>
      BY <1>13 DEF InstallMissing, crVars
    <2>2. CASE NothingMissing
      BY <1>2, <2>1, <2>2 DEF NothingMissing
    <2>3. CASE CreateFails
      BY <1>2, <1>8, <2>1, <2>3 DEF CreateFails
    <2> QED
      BY <1>5, <1>13, <2>1, <2>2, <2>3 DEF InstallMissing
  <1>14. CASE ApplyDeployment
    BY <1>2, <1>8, <1>14 DEF ApplyDeployment, crVars
  <1>15. CASE ApplyServices
    <2>1. CASE mem' = [mem EXCEPT !.status = Succeeded(@, "ReconcileSucceeded")]
      BY <1>2, <1>8, <1>15, <2>1 DEF ApplyServices, crVars
    <2>2. CASE \E s \in ChildFailed(mem.status) : mem' = [mem EXCEPT !.status = s]
      BY <1>2, <1>8, <1>15, <2>2 DEF ApplyServices, crVars
    <2> QED
      BY <1>15, <2>1, <2>2 DEF ApplyServices
  <1>16. CASE FlushStatus
    BY <1>2, <1>7, <1>16 DEF FlushStatus
  <1>17. CASE SaveStatus
    BY <1>2, <1>3, <1>17 DEF SaveStatus
  <1>18. CASE EditSpec
    BY <1>2, <1>6, <1>18 DEF EditSpec
  <1>19. CASE \/ StartReconcile \/ Crash \/ SyncCR \/ SyncJob \/ Resync
              \/ UserDeletesJob \/ JobController \/ UNCHANGED vars
    BY <1>2, <1>19
    DEF StartReconcile, CrView, Crash, SyncCR, SyncJob, Resync, UserDeletesJob,
        JobController, JobStart, JobSucceed, JobFail, JobGone, vars, crVars
  <1> QED
    BY <1>10, <1>11, <1>12, <1>13, <1>14, <1>15, <1>16, <1>17, <1>18, <1>19
    DEF Next, Worker

\* With Jobs kept, no step records what was not installed, deletes an unfinished
\* Job, or names a batch that no Job accounts for.
LEMMA SoundStep ==
    ASSUME KeptJobs
    PROVE  TypeOK /\ SoundInv /\ [Next]_vars => SoundInv'
  <1> SUFFICES ASSUME TypeOK, SoundInv, [Next]_vars
               PROVE  SoundInv'
    OBVIOUS
  <1>1. /\ db \subseteq db' /\ JobInv'
        /\ \/ job.phase = "absent"
           \/ job.phase # "absent" /\ job'.phase # "absent" /\ job'.modules = job.modules
           \/ job.deleting
    BY JobChanges DEF SoundInv
  <1>2. ASSUME NEW batch, Accounted(batch)
        PROVE  batch.named => \/ batch.modules \subseteq db'
                              \/ job'.phase # "absent" /\ job'.modules = batch.modules
    BY <1>1, <1>2, AccountedStays DEF SoundInv
  <1>3. ASSUME NEW old \in {cr, crCache, mem, NoResource}
        PROVE  old.status.installed \subseteq db /\ Accounted(old.status.cur)
    BY DEF SoundInv, RecordInv, NoResource, EmptyStatus, NoBatch, Accounted
  <1>4. ASSUME NEW copy \in {cr', crCache', mem'}
        PROVE  /\ copy.status.installed \subseteq db'
               /\ copy.status.cur.named =>
                     \/ copy.status.cur.modules \subseteq db'
                     \/ job'.phase # "absent" /\ job'.modules = copy.status.cur.modules
    <2>1. CASE \E old \in {cr, crCache, mem, NoResource} :
                  /\ copy.status.installed = old.status.installed
                  /\ copy.status.cur = old.status.cur
      BY <1>1, <1>2, <1>3, <2>1
    <2>2. CASE /\ mem.status.cur.named /\ JobView.phase = "complete"
               /\ copy.status.installed
                     = mem.status.installed \cup mem.status.cur.modules
               /\ copy.status.cur = NoBatch
      <3>1. job.phase = "complete" /\ job.modules \subseteq db
        BY <2>2 DEF JobView, KeptJobs, SoundInv, JobInv
      <3>2. mem.status.cur.modules \subseteq db
        BY <1>3, <2>2, <3>1 DEF Accounted
      <3> QED
        BY <1>1, <1>3, <2>2, <3>2 DEF NoBatch
    <2>3. CASE /\ copy.status.installed = mem.status.installed
               /\ copy.status.cur = [named |-> TRUE, modules |-> job'.modules]
               /\ job'.phase # "absent"
      BY <1>1, <1>3, <2>3
    <2> QED
      BY <2>1, <2>2, <2>3, CopyOrigin
  <1> QED
    BY <1>1, <1>4 DEF SoundInv, RecordInv, Accounted

\* Initially there is no Job, no batch and nothing recorded.
LEMMA SoundInit == Init => SoundInv
  BY DEF Init, SoundInv, JobInv, RecordInv, Accounted, NoJob,
     NoResource, EmptyStatus, NoBatch

\* If nobody deletes the init Job and the operator reads it fresh, then whatever
\* else happens the recorded modules and those served were really installed.
THEOREM RecordIsSound == KeptJobs => (Spec => []Sound)
  <1> SUFFICES ASSUME KeptJobs
               PROVE  Spec => []Sound
    OBVIOUS
  <1>1. SoundInv /\ RolloutGate => Sound
    BY DEF SoundInv, RecordInv, RolloutGate, Sound
  <1> QED
    BY <1>1, TypeCorrect, RolloutIsGated, SoundInit, SoundStep, PTL DEF Spec

\* Under the same assumption a batch the status names is in the database, or the
\* Job of that name is the one that installs it.
THEOREM BatchesAccounted == KeptJobs => (Spec => []BatchAccounted)
  <1> SUFFICES ASSUME KeptJobs
               PROVE  Spec => []BatchAccounted
    OBVIOUS
  <1>1. SoundInv => BatchAccounted
    BY DEF SoundInv, RecordInv, BatchAccounted
  <1> QED
    BY <1>1, TypeCorrect, SoundInit, SoundStep, PTL DEF Spec

-----------------------------------------------------------------------------
(* The loop implements ModuleInstall *)

\* Every step of the loop is a step of ModuleInstall, or changes nothing of it.
LEMMA PromiseStep ==
    ASSUME TypeOK, TypeOK', LoopInv, SoundInv, SoundInv', [Next]_vars
    PROVE  [Promise!Next]_(Promise!vars)
  <1>1. cr \in Resource /\ cr' \in Resource
    BY DEF TypeOK
  <1>2. CASE EditSpec
    <2>1. cr'.status = cr.status /\ UNCHANGED <<db, served>>
      BY <1>1, <1>2 DEF EditSpec, Resource, ghosts
    <2>2. cr'.modules \in SUBSET Module
      BY <1>1 DEF Resource
    <2> QED
      BY <2>1, <2>2 DEF Promise!Next, Promise!Want
  <1>3. CASE JobSucceed \/ JobGone
    <2>1. UNCHANGED <<cr, served>> /\ db' \in {db, db \cup job.modules}
      BY <1>3 DEF JobSucceed, JobGone, crVars
    <2>2. job.modules \in SUBSET Module
      BY DEF TypeOK, Job
    <2> QED
      BY <2>1, <2>2 DEF Promise!Next, Promise!Install, Promise!vars
  <1>4. CASE ApplyDeployment
    <2>1. UNCHANGED <<cr, db>> /\ pc = "deployment"
          /\ served' \in {served, served \cup mem.modules}
      BY <1>4 DEF ApplyDeployment, crVars
    <2>2. mem.modules \in SUBSET cr.status.installed
      BY <2>1 DEF LoopInv, HandlerInv, Missing
    <2> QED
      BY <2>1, <2>2 DEF Promise!Next, Promise!Serve, Promise!vars
  <1>5. CASE ReconcileChildren \/ FlushStatus \/ SaveStatus
    <2>1. UNCHANGED <<db, served>>
      BY <1>5 DEF ReconcileChildren, FlushStatus, SaveStatus, ghosts
    <2>2. CASE UNCHANGED cr
      BY <2>1, <2>2 DEF Promise!vars
    <2>3. CASE cr' # cr
      <3>1. PICK s : Current /\ s.installed = mem.status.installed
                     /\ cr' = [cr EXCEPT !.status = s]
        <4>1. mem.status \in Status
          BY DEF TypeOK, Resource
        <4> QED
          BY <1>5, <2>3, <4>1, StatusFields
          DEF ReconcileChildren, FlushStatus, SaveStatus, TryStatus, StoreStatus
      <3>2. cr'.modules = cr.modules /\ cr.status.installed \subseteq cr'.status.installed
        BY <1>1, <3>1, PutStatus DEF LoopInv, CopiesInv
      <3>3. cr'.status.installed \in SUBSET db
        BY <2>1 DEF SoundInv, RecordInv
      <3>4. cr'.status.installed = cr.status.installed \cup cr'.status.installed
        BY <3>2
      <3> QED
        BY <2>1, <3>2, <3>3, <3>4 DEF Promise!Next, Promise!Record
    <2> QED
      BY <2>2, <2>3
  <1>6. CASE \/ StartReconcile \/ GetJob \/ DeletePods \/ DeleteJob \/ InstallMissing
             \/ ApplyServices \/ Crash \/ SyncCR \/ SyncJob \/ Resync \/ UserDeletesJob
             \/ JobStart \/ JobFail \/ UNCHANGED vars
    <2>1. UNCHANGED <<cr, db, served>>
      BY <1>6 DEF StartReconcile, GetJob, DeletePods, DeleteJob, InstallMissing,
        ApplyServices, Crash, SyncCR, SyncJob, Resync, UserDeletesJob, JobStart, JobFail,
        vars, crVars, ghosts
    <2> QED
      BY <2>1 DEF Promise!vars
  <1> QED
    BY <1>2, <1>3, <1>4, <1>5, <1>6 DEF Next, Worker, JobController

\* If nobody deletes the init Job and the operator reads it fresh, the loop
\* implements ModuleInstall, whatever else happens.
THEOREM KeepsPromise == KeptJobs => (Spec => Promised)
  <1> SUFFICES ASSUME KeptJobs
               PROVE  Spec => Promised
    OBVIOUS
  <1>1. Init => Promise!Init
    BY DEF Init, Promise!Init, Wanted, EmptyStatus
  <1>2. TypeOK /\ TypeOK' /\ LoopInv /\ SoundInv /\ SoundInv' /\ [Next]_vars
        => [Promise!Next]_(Promise!vars)
    BY PromiseStep
  <1> QED
    BY <1>1, <1>2, TypeCorrect, LoopInit, LoopStep, SoundInit, SoundStep, PTL
    DEF Spec, Promised, Promise!Spec
=============================================================================
