------------------------------ MODULE InitJob ------------------------------
(***************************************************************************)
(* The install loop of the Odoo operator: one OdooDeployment (the CR), the  *)
(* single init Job "<name>-init" that the operator creates for it, and the  *)
(* reconcile handler that drives both                                       *)
(*   (src/internal/controller/odoodeployment_controller.go, Reconcile, and  *)
(*    src/internal/controller/reconcileloops/databaseinitjob.go).           *)
(*                                                                          *)
(* The handler is a sequence of API calls; between two of them the user,    *)
(* the Job controller, the informer caches and a crash may all step in, so  *)
(* every API call is an action of its own, in the order of the code.        *)
(*                                                                          *)
(*   "children"   admin secret, config secret and PVC, and the three status *)
(*                writes between them whose errors are dropped              *)
(*   "getjob"     read the Job that the status names                        *)
(*   "pods"       list and delete the pods of a succeeded Job               *)
(*   "delete"     delete that Job                                           *)
(*   "missing"    Difference(wanted, installed), create the next Job        *)
(*   "deployment" create or update the Deployment                           *)
(*   "flush"      the status write after it, whose error is dropped         *)
(*   "services"   the two Services                                          *)
(*   "save"       the status write whose error is returned; then requeue    *)
(*   "finish"     the same write, but the code asks for no requeue          *)
(*                                                                          *)
(* Lists of modules are sets here; ModuleList.tla has their order and       *)
(* duplicates.                                                              *)
(***************************************************************************)
EXTENDS Naturals, FiniteSets

CONSTANTS
    Module,           \* names of Odoo modules
    BackoffLimit,     \* retries the Job controller grants (2 in the code)
    MaxDisturbances,  \* bound on the environment's disturbances
    Disturbances      \* the kinds of disturbance that may happen

\* What may go wrong around the handler.  The first six each consume one unit
\* of the budget; the stale reads are a property of the informer caches.
Kinds == {"edit", "crash", "apiError", "writeError", "jobFails", "jobDeleted",
          "staleCR", "staleJob"}

ASSUME BackoffLimitAssumption == BackoffLimit \in Nat
ASSUME MaxDisturbancesAssumption == MaxDisturbances \in Nat
ASSUME DisturbancesAssumption == Disturbances \subseteq Kinds

VARIABLES
    cr,        \* the OdooDeployment in the API server
    crCache,   \* the informer's copy of it
    job,       \* the Job <name>-init in the API server
    jobCache,  \* the informer's copy of it
    jobNews,   \* the Job has changed since the informer last looked
    db,        \* ghost: modules whose init Job ran to completion
    served,    \* ghost: modules that were wanted when a Deployment was applied
    pc,        \* the next API call of the handler
    mem,       \* the handler's in-memory OdooDeployment
    fresh,     \* which copies of the CR carry its present resourceVersion
    queued,    \* the request is in the work queue
    budget     \* disturbances still allowed

crVars == <<cr, crCache, fresh>>
jobVars == <<job, jobCache, jobNews>>
ghosts == <<db, served>>
vars == <<cr, crCache, job, jobCache, jobNews, db, served, pc, mem, fresh,
          queued, budget>>

-----------------------------------------------------------------------------
(* Data *)

Batch == [named : BOOLEAN, modules : SUBSET Module]
NoBatch == [named |-> FALSE, modules |-> {}]

\* Reasons of the condition OperatorSucceeded, its failures as one.
Reason == {"none", "InitJobCreated", "InitJobSucceeded", "Failed",
           "ReconcileSucceeded"}

Status == [installed : SUBSET Module,    \* InitModulesInstalled
           cur : Batch,                  \* CurrentInitJob
           children : BOOLEAN,           \* the three names of children are set
           succeeded : Reason,           \* condition OperatorSucceeded
           degraded : BOOLEAN]           \* condition OperatorDegraded is set

EmptyStatus == [installed |-> {}, cur |-> NoBatch, children |-> FALSE,
                succeeded |-> "none", degraded |-> FALSE]

Resource == [modules : SUBSET Module, status : Status]
NoResource == [modules |-> {}, status |-> EmptyStatus]

JobPhase == {"absent", "waiting", "running", "complete", "failed"}
Job == [phase : JobPhase, failed : Nat, modules : SUBSET Module,
        deleting : BOOLEAN]
NoJob == [phase |-> "absent", failed |-> 0, modules |-> {}, deleting |-> FALSE]
NewJob(m) == [phase |-> "waiting", failed |-> 0, modules |-> m,
              deleting |-> FALSE]

Wanted == SUBSET Module \ {{}}    \* Spec.Modules has MinItems=1

-----------------------------------------------------------------------------
(* Disturbances, reads and status writes *)

Calm == UNCHANGED budget
Disturb(kind) == /\ kind \in Disturbances
                 /\ budget > 0
                 /\ budget' = budget - 1

\* Reads go to the informer caches.  resourceVersion serves to tell a copy that
\* is up to date from one that is not: "fresh" holds the copies that are.
CrView == IF "staleCR" \in Disturbances THEN crCache ELSE cr
JobView == IF "staleJob" \in Disturbances THEN jobCache ELSE job

ReadFresh == "staleCR" \notin Disturbances \/ "cache" \in fresh

\* The informer learns later of what becomes of the Job.
JobCacheLags == /\ jobNews' = (jobNews \/ job' # job)
                /\ UNCHANGED jobCache

\* Mutant: the status is patched, not updated, so that no version is compared.
PatchedAnyway == TRUE

\* Optimistic concurrency: the API server takes a write of the version it holds.
Current == "mem" \in fresh

\* A write that changes nothing keeps the resourceVersion; the writer's copy is
\* the only fresh one after a write that does.
StoreStatus(s) ==
    /\ cr' = [cr EXCEPT !.status = s]
    /\ fresh' = IF s = cr.status THEN fresh ELSE {"mem"}

\* r.Status().Update with its error dropped: on success the response replaces
\* the in-memory object, on a conflict or an error memory keeps what was set.
TryStatus(s) ==
    \/ /\ Current
       /\ StoreStatus(s)
       /\ mem' = cr'
       /\ Calm
    \/ /\ IF Current THEN Disturb("writeError") ELSE Calm
       /\ mem' = [mem EXCEPT !.status = s]
       /\ UNCHANGED <<cr, fresh>>

\* Mutant: the reason is left empty.
SucceededEmpty(s, reason) == [s EXCEPT !.succeeded = ""]

Succeeded(s, reason) == [s EXCEPT !.succeeded = reason]
Degraded(s) == [s EXCEPT !.degraded = TRUE]

\* An error of a child's reconcile loop sets one of the two conditions.
ChildFailed(s) == {Succeeded(s, "Failed"), Degraded(s)}

\* Mutant: the batch replaces the list instead of being appended to it.
RecordOnlyBatch(s) ==
    Succeeded([s EXCEPT !.installed = s.cur.modules, !.cur = NoBatch],
              "InitJobSucceeded")

\* Mutant: the batch is cleared without being appended.
RecordNothing(s) == Succeeded([s EXCEPT !.cur = NoBatch], "InitJobSucceeded")

\* Lines 58-62: the batch of the finished Job counts as installed.
RecordSuccess(s) ==
    Succeeded([s EXCEPT !.installed = @ \cup s.cur.modules, !.cur = NoBatch],
              "InitJobSucceeded")

\* Mutant: the batch of the current Job counts as installed.
MissingBeyondBatch(o) ==
    o.modules \ (o.status.installed \cup o.status.cur.modules)

\* utils.Difference(Spec.Modules, Status.InitModulesInstalled)
Missing(o) == o.modules \ o.status.installed

\* Mutant: the batch is recorded as installed when its Job is created.
RecordEarly(s, batch) ==
    Succeeded([s EXCEPT !.installed = @ \cup batch], "InitJobCreated")

\* Lines 125-130: the Job just created becomes the current one.
RecordCreated(s, batch) ==
    Succeeded([s EXCEPT !.cur = [named |-> TRUE, modules |-> batch]],
              "InitJobCreated")

-----------------------------------------------------------------------------
(* The reconcile handler *)

\* A worker takes the request from the queue and reads the CR.
StartReconcile ==
    /\ pc = "idle"
    /\ queued
    /\ queued' = FALSE
    /\ mem' = CrView
    /\ fresh' = IF ReadFresh THEN fresh \cup {"mem"} ELSE fresh
    /\ pc' = "children"
    /\ UNCHANGED <<cr, crCache, jobVars, ghosts, budget>>

\* Admin secret, config secret and PVC; each name is written to the status and
\* the error of that write is dropped.
ReconcileChildren ==
    /\ pc = "children"
    /\ \/ /\ TryStatus([mem.status EXCEPT !.children = TRUE])
          /\ pc' = "getjob"
       \/ /\ Disturb("apiError")
          /\ \E s \in ChildFailed(mem.status) : mem' = [mem EXCEPT !.status = s]
          /\ pc' = "save"
          /\ UNCHANGED <<cr, fresh>>
    /\ UNCHANGED <<crCache, jobVars, ghosts, queued>>

\* Mutant: a Job that finished counts as succeeded, whatever its result.
JobFinished == /\ JobView.phase \in {"complete", "failed"}
               /\ mem' = [mem EXCEPT !.status = RecordSuccess(@)]
               /\ pc' = "pods"

\* What reading the named Job leads to.
JobSucceeded == /\ JobView.phase = "complete"
                /\ mem' = [mem EXCEPT !.status = RecordSuccess(@)]
                /\ pc' = "pods"
JobActive == /\ JobView.phase = "running"
             /\ UNCHANGED mem
             /\ pc' = "save"
JobFailed == /\ JobView.phase \notin {"complete", "running"}
             /\ JobView.failed > 0
             /\ mem' = [mem EXCEPT !.status = Degraded(@)]
             /\ pc' = "finish"
JobUnknown == /\ JobView.phase \notin {"complete", "running"}
              /\ JobView.failed = 0
              /\ UNCHANGED mem
              /\ pc' = "missing"

GetJob ==
    /\ pc = "getjob"
    /\ \/ /\ ~mem.status.cur.named
          /\ pc' = "missing"
          /\ UNCHANGED mem
          /\ Calm
       \/ /\ mem.status.cur.named
          /\ JobSucceeded \/ JobActive \/ JobFailed \/ JobUnknown
          /\ Calm
       \/ /\ mem.status.cur.named
          /\ Disturb("apiError")
          /\ mem' = [mem EXCEPT !.status = Degraded(@)]
          /\ pc' = "save"
    /\ UNCHANGED <<crVars, jobVars, ghosts, queued>>

\* A pod that fails, or is deleted while it runs, counts against the limit.
CountFailure(j) ==
    [j EXCEPT !.failed = @ + 1,
              !.phase = IF j.failed < BackoffLimit THEN "waiting" ELSE "failed"]

\* The pods carry only the Job's name: if the Job of that name is a newer one
\* that runs, its pod may be in the list.
PodsDeleted(j) == IF j.phase = "running" THEN CountFailure(j) ELSE j

DeletePods ==
    /\ pc = "pods"
    /\ \/ /\ job' \in {job, PodsDeleted(job)}
          /\ pc' = "delete"
          /\ UNCHANGED mem
          /\ Calm
       \/ /\ Disturb("apiError")
          /\ mem' = [mem EXCEPT !.status = Degraded(@)]
          /\ pc' = "save"
          /\ UNCHANGED job
    /\ JobCacheLags
    /\ UNCHANGED <<crVars, ghosts, queued>>

\* Deletion is by name.  The Job stays, marked, until JobGone removes it.
DeleteJob ==
    /\ pc = "delete"
    /\ pc' = "save"
    /\ \/ /\ job.phase # "absent"
          /\ job' = [job EXCEPT !.deleting = TRUE]
          /\ UNCHANGED mem
          /\ Calm
       \/ /\ IF job.phase = "absent" THEN Calm ELSE Disturb("apiError")
          /\ mem' = [mem EXCEPT !.status = Degraded(@)]
          /\ UNCHANGED job
    /\ JobCacheLags
    /\ UNCHANGED <<crVars, ghosts, queued>>

NothingMissing ==
    /\ Missing(mem) = {}
    /\ pc' = "deployment"
    /\ UNCHANGED <<job, mem>>
    /\ Calm

\* Create succeeds only if no Job of that name is left.
CreateJob ==
    /\ Missing(mem) # {}
    /\ job.phase = "absent"
    /\ job' = NewJob(Missing(mem))
    /\ mem' = [mem EXCEPT !.status = RecordCreated(@, Missing(mem))]
    /\ pc' = "save"
    /\ Calm

\* Mutant: a Job that already exists counts as just created.
ExistingTaken ==
    /\ Missing(mem) # {}
    /\ job.phase # "absent"
    /\ mem' = [mem EXCEPT !.status = RecordCreated(@, Missing(mem))]
    /\ pc' = "save"
    /\ UNCHANGED job
    /\ Calm

CreateFails ==
    /\ Missing(mem) # {}
    /\ IF job.phase # "absent" THEN Calm ELSE Disturb("apiError")
    /\ mem' = [mem EXCEPT !.status = Succeeded(@, "Failed")]
    /\ pc' = "save"
    /\ UNCHANGED job

InstallMissing ==
    /\ pc = "missing"
    /\ NothingMissing \/ CreateJob \/ CreateFails
    /\ JobCacheLags
    /\ UNCHANGED <<crVars, ghosts, queued>>

ApplyDeployment ==
    /\ pc = "deployment"
    /\ \/ /\ served' = served \cup mem.modules
          /\ pc' = "flush"
          /\ UNCHANGED mem
          /\ Calm
       \/ /\ Disturb("apiError")
          /\ \E s \in ChildFailed(mem.status) : mem' = [mem EXCEPT !.status = s]
          /\ pc' = "save"
          /\ UNCHANGED served
    /\ UNCHANGED <<crVars, jobVars, db, queued>>

FlushStatus ==
    /\ pc = "flush"
    /\ TryStatus(mem.status)
    /\ pc' = "services"
    /\ UNCHANGED <<crCache, jobVars, ghosts, queued>>

ApplyServices ==
    /\ pc = "services"
    /\ \/ /\ mem' = [mem EXCEPT !.status = Succeeded(@, "ReconcileSucceeded")]
          /\ pc' = "finish"
          /\ Calm
       \/ /\ Disturb("apiError")
          /\ \E s \in ChildFailed(mem.status) : mem' = [mem EXCEPT !.status = s]
          /\ pc' = "save"
    /\ UNCHANGED <<crVars, jobVars, ghosts, queued>>

\* The last status write.  A conflict or an error is returned, which requeues.
SaveStatus ==
    /\ pc \in {"save", "finish"}
    /\ \/ /\ Current
          /\ cr' = [cr EXCEPT !.status = mem.status]
          /\ fresh' = IF mem.status = cr.status THEN fresh \ {"mem"} ELSE {}
          /\ queued' = (queued \/ pc = "save")
          /\ Calm
       \/ /\ IF Current THEN Disturb("writeError") ELSE Calm
          /\ fresh' = fresh \ {"mem"}
          /\ queued' = TRUE
          /\ UNCHANGED cr
    /\ pc' = "idle"
    /\ mem' = NoResource
    /\ UNCHANGED <<crCache, jobVars, ghosts>>

Worker ==
    \/ StartReconcile \/ ReconcileChildren \/ GetJob \/ DeletePods \/ DeleteJob
    \/ InstallMissing \/ ApplyDeployment \/ FlushStatus \/ ApplyServices
    \/ SaveStatus

\* The operator restarts: memory is lost, every CR is queued again.
Crash ==
    /\ Disturb("crash")
    /\ pc' = "idle"
    /\ mem' = NoResource
    /\ fresh' = fresh \ {"mem"}
    /\ queued' = TRUE
    /\ UNCHANGED <<cr, crCache, jobVars, ghosts>>

-----------------------------------------------------------------------------
(* Watches: the caches catch up and the event handlers queue the request *)

SyncCR ==
    /\ "cache" \notin fresh
    /\ crCache' = cr
    /\ fresh' = fresh \cup {"cache"}
    /\ queued' = TRUE
    /\ UNCHANGED <<cr, jobVars, ghosts, pc, mem, budget>>

\* Mutant: the controller does not own Jobs, so their events queue nothing.
SyncJobSilently ==
    /\ jobNews
    /\ jobNews' = FALSE
    /\ jobCache' = job
    /\ UNCHANGED <<crVars, job, ghosts, pc, mem, queued, budget>>

SyncJob ==
    /\ jobNews
    /\ jobNews' = FALSE
    /\ jobCache' = job
    /\ queued' = TRUE
    /\ UNCHANGED <<crVars, job, ghosts, pc, mem, budget>>

\* The periodic resync of the informers, or an event of another child.
Resync ==
    /\ ~queued
    /\ queued' = TRUE
    /\ UNCHANGED <<crVars, jobVars, ghosts, pc, mem, budget>>

-----------------------------------------------------------------------------
(* The user and the Job controller *)

\* The user writes the spec; any other update of the CR is an edit to the same
\* modules.
EditSpec ==
    /\ Disturb("edit")
    /\ \E m \in Wanted : cr' = [cr EXCEPT !.modules = m]
    /\ fresh' = {}
    /\ UNCHANGED <<crCache, jobVars, ghosts, pc, mem, queued>>

UserDeletesJob ==
    /\ Disturb("jobDeleted")
    /\ job.phase # "absent"
    /\ job' = [job EXCEPT !.deleting = TRUE]
    /\ JobCacheLags
    /\ UNCHANGED <<crVars, ghosts, pc, mem, queued>>

JobStart ==
    /\ job.phase = "waiting"
    /\ ~job.deleting
    /\ job' = [job EXCEPT !.phase = "running"]
    /\ JobCacheLags
    /\ UNCHANGED <<crVars, ghosts, pc, mem, queued, budget>>

JobSucceed ==
    /\ job.phase = "running"
    /\ ~job.deleting
    /\ job' = [job EXCEPT !.phase = "complete"]
    /\ db' = db \cup job.modules
    /\ JobCacheLags
    /\ UNCHANGED <<crVars, served, pc, mem, queued, budget>>

JobFail ==
    /\ job.phase = "running"
    /\ ~job.deleting
    /\ Disturb("jobFails")
    /\ job' = CountFailure(job)
    /\ JobCacheLags
    /\ UNCHANGED <<crVars, ghosts, pc, mem, queued>>

\* The marked Job disappears.  Its pods are orphaned, so one that runs may still
\* finish its work.
JobGone ==
    /\ job.deleting
    /\ job' = NoJob
    /\ \/ UNCHANGED db
       \/ job.phase = "running" /\ db' = db \cup job.modules
    /\ JobCacheLags
    /\ UNCHANGED <<crVars, served, pc, mem, queued, budget>>

JobController == JobStart \/ JobSucceed \/ JobFail \/ JobGone

-----------------------------------------------------------------------------
Init ==
    /\ \E m \in Wanted : cr = [modules |-> m, status |-> EmptyStatus]
    /\ crCache = cr
    /\ fresh = {"cache"}
    /\ job = NoJob
    /\ jobCache = NoJob
    /\ jobNews = FALSE
    /\ db = {}
    /\ served = {}
    /\ pc = "idle"
    /\ mem = NoResource
    /\ queued = TRUE
    /\ budget = MaxDisturbances

Next == \/ Worker \/ Crash \/ SyncCR \/ SyncJob \/ Resync
        \/ EditSpec \/ UserDeletesJob \/ JobController

Spec == Init /\ [][Next]_vars

\* A queued request is worked on until the handler returns, the watches deliver,
\* and the Job controller runs a Job to an end and removes a deleted one.
Fairness ==
    /\ WF_vars(Worker)
    /\ WF_vars(SyncCR)
    /\ WF_vars(SyncJob)
    /\ WF_vars(JobStart)
    /\ WF_vars(JobSucceed \/ JobFail)
    /\ WF_vars(JobGone)

FairSpec == Spec /\ Fairness

-----------------------------------------------------------------------------
(* Properties *)

\* Every variable keeps its type, and the handler has no object while idle.
TypeOK ==
    /\ cr \in Resource
    /\ crCache \in Resource
    /\ job \in Job
    /\ jobCache \in Job
    /\ jobNews \in BOOLEAN
    /\ db \subseteq Module
    /\ served \subseteq Module
    /\ pc \in {"idle", "children", "getjob", "pods", "delete", "missing",
               "deployment", "flush", "services", "save", "finish"}
    /\ mem \in Resource
    /\ fresh \subseteq {"cache", "mem"}
    /\ queued \in BOOLEAN
    /\ budget \in 0..MaxDisturbances

\* InitModulesInstalled only grows (databaseinitjob.go:60 appends): no conflict,
\* stale read, crash or user edit makes the operator forget a module it recorded.
NeverForgets == [][cr.status.installed \subseteq cr'.status.installed]_cr

\* The Deployment is applied only for modules that the API server already holds
\* as installed: the handler gets past databaseinitjob.go:109 only with an empty
\* difference against a list it did not invent, whatever it read.
RolloutGate == served \subseteq cr.status.installed

\* A status that turns to ReconcileSucceeded (controller.go:219) is true of the
\* spec it is stored with: the write is refused if the user edited the modules
\* after the handler compared them.
HonestSuccess ==
    [][ /\ cr'.status.succeeded = "ReconcileSucceeded"
        /\ cr.status.succeeded # "ReconcileSucceeded"
        => cr'.modules \subseteq cr'.status.installed ]_cr

\* What the status calls installed was really installed by a Job that ran to
\* completion, and so was everything a Deployment was rolled out for.
Sound == /\ cr.status.installed \subseteq db
         /\ served \subseteq db

\* A batch that a status names is in the database already, or the Job of that
\* name is the one that installs it: conflicts and restarts may make the status
\* lag behind the Job, but never let a Job's success stand for another's batch.
Accounted(batch) ==
    batch.named => \/ batch.modules \subseteq db
                   \/ job.phase # "absent" /\ job.modules = batch.modules
BatchAccounted == Accounted(cr.status.cur) /\ Accounted(mem.status.cur)

\* Nothing is on its way to the operator, and no Job is at work.
Quiet == /\ pc = "idle" /\ ~queued
         /\ "cache" \in fresh /\ ~jobNews
         /\ job.phase \notin {"waiting", "running"} /\ ~job.deleting

\* The operator never comes to rest with work left, whatever was lost or read too
\* late on the way: the modules of the spec are recorded and served, or the Job
\* the status names has failed for good and the status says so
\* (databaseinitjob.go:97-101, odoodeployment_controller.go:219).
Settled ==
    Quiet => \/ /\ cr.modules \subseteq cr.status.installed
                /\ cr.modules \subseteq served
             \/ job.phase = "failed" /\ cr.status.cur.named /\ cr.status.degraded

\* The modules the user wants end up recorded, and a Deployment is rolled out
\* for them, and it stays so (databaseinitjob.go:104-107).
WantedInstalled == <>[](/\ cr.modules \subseteq cr.status.installed
                        /\ cr.modules \subseteq served)

\* "Only install modules that have not previously been installed"
\* (odoodeployment_funcs.go:245).
NoReinstall ==
    job.phase \in {"waiting", "running"} => job.modules \cap db = {}

-----------------------------------------------------------------------------
(* Inductive invariants (proved in InitJobProofs)                           *)

\* How the copies of the CR relate to it, and what the handler knows where.
CopiesInv ==
    /\ crCache.status.installed \subseteq cr.status.installed
    /\ "cache" \in fresh => crCache = cr
    /\ pc = "idle" => ~Current
    /\ Current => /\ mem.modules = cr.modules
                  /\ cr.status.installed \subseteq mem.status.installed
HandlerInv ==
    /\ pc \in {"children", "getjob", "missing", "deployment", "flush",
              "services", "finish"}
       => mem.status.installed \subseteq cr.status.installed
    /\ pc \in {"deployment", "flush", "services"} => Missing(mem) = {}
    /\ Current /\ mem.status.succeeded = "ReconcileSucceeded"
       => \/ cr.status.succeeded = "ReconcileSucceeded"
          \/ Missing(mem) = {}
LoopInv == CopiesInv /\ HandlerInv /\ RolloutGate

\* What the handler leaves behind when it asks for no requeue: a CR that has what
\* it wants, or one whose Job has lost its pods so far.
Done(o) == Missing(o) = {} /\ o.modules \subseteq served
GivenUp(o) == /\ job.failed > 0 /\ job.phase \in {"waiting", "failed"}
              /\ o.status.cur.named /\ o.status.degraded
JobCopiesInv ==
    /\ \A j \in {job, jobCache} : j.phase = "absent" => j.failed = 0
    /\ ~jobNews => jobCache = job
RestInv ==
    /\ pc \in {"flush", "services"} => mem.modules \subseteq served
    /\ pc = "finish" /\ Current /\ ~queued /\ ~jobNews => Done(mem) \/ GivenUp(mem)
    /\ pc = "idle" /\ "cache" \in fresh /\ ~queued /\ ~jobNews => Done(cr) \/ GivenUp(cr)

\* The latest status is the handler's while it works, as long as the API server
\* takes its writes.  It answers for all that a Job has installed or may install.
WritesTaken == pc # "idle" => Current
Latest == IF pc = "idle" THEN cr.status ELSE mem.status
OnceInv ==
    /\ pc \in {"pods", "delete"} => ~Latest.cur.named
    /\ Latest.cur.named => /\ job.phase # "absent" /\ ~job.deleting
                           /\ job.modules = Latest.cur.modules
                           /\ db \subseteq Latest.installed \cup Latest.cur.modules
    /\ ~Latest.cur.named => /\ db \subseteq Latest.installed
                            /\ job.phase # "absent" => job.modules \subseteq Latest.installed
    /\ NoReinstall

\* What holds in addition when nobody deletes the Job and its reads are fresh.
JobInv ==
    /\ job.phase = "complete" => job.modules \subseteq db
    /\ job.deleting => job.phase = "complete"
    /\ pc \in {"pods", "delete"} => job.phase \in {"complete", "absent"}
RecordInv ==
    \A copy \in {cr, crCache, mem} : /\ copy.status.installed \subseteq db
                                    /\ Accounted(copy.status.cur)
SoundInv == JobInv /\ RecordInv

\* The promise of ModuleInstall, kept by this loop.
Promise == INSTANCE ModuleInstall WITH
    wanted <- cr.modules,
    recorded <- cr.status.installed
Promised == Promise!Spec
=============================================================================
