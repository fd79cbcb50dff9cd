------------------------------ MODULE InitPods ------------------------------
(***************************************************************************)
(* The Jobs and pods of several OdooDeployments (CRs), and how the operator *)
(* clears them away (databaseinitjob.go:33-136).  A succeeded Job is        *)
(* recorded; its pods are found by the label "job-name", in every namespace *)
(* and in a cache, and deleted one by one before the Job is, by name.       *)
(*                                                                          *)
(* InitJob.tla has one CR and all of its handler; here two workers serve    *)
(* several CRs, and pods are objects.  Jobs and pods are read from informer *)
(* caches that lag.  The CR is read as it is and edited between two runs of *)
(* its handler, and nobody but the operator deletes a Job: copies of the CR *)
(* that lag, conflicts and deletions are the matter of InitJob.  Modules    *)
(* are numbered in the order in which the spec of a CR grows, so that a     *)
(* list of modules is its length.                                           *)
(*                                                                          *)
(* The next step of a handler:                                              *)
(*   "idle"    take the CR, read its Job, create the next Job               *)
(*   "list"    list the pods of the succeeded Job                           *)
(*   "pods"    delete them, then the Job                                    *)
(*   "record"  write the status that records the Job                        *)
(*   "name"    write the status that names the Job just created             *)
(***************************************************************************)
EXTENDS Naturals, FiniteSets

CONSTANTS
    CR,               \* the OdooDeployments
    JobName,          \* the name of the Job of each; namespaces may differ
    Modules,          \* how many modules each CR may want
    Pods,             \* how many pods each CR may have at a time
    BackoffLimit,     \* retries the Job controller grants
    Workers,          \* MaxConcurrentReconciles
    Kinds,            \* the disturbances that may happen
    MaxDisturbances   \* how many of them

ASSUME JobNameAssumption == DOMAIN JobName = CR
ASSUME SizesAssumption == Modules \in [CR -> Nat \ {0}] /\ Pods \in [CR -> Nat]
ASSUME BoundsAssumption == {BackoffLimit, Workers, MaxDisturbances} \subseteq Nat

VARIABLES
    wanted,    \* Spec.Modules of each CR
    status,    \* InitModulesInstalled and CurrentInitJob of each
    job,       \* their Jobs in the API server
    jobSeen,   \* what the informer's copies of them say
    pod,       \* their pods
    stalled,   \* the informer's list of pods lags
    podSeen,   \* the pods that are on it then
    ran,       \* ghost: the modules whose Job ran to completion
    misled,    \* ghost: CRs whose handler took an earlier Job for one not done
    pc,        \* where the handler of each CR is
    todo,      \* the pods it has listed and not yet deleted
    queued,    \* the CRs in the work queue
    budget     \* disturbances still allowed

handler == <<pc, todo, misled>>
caches == <<jobSeen, stalled, podSeen>>
vars == <<wanted, status, job, pod, caches, ran, handler, queued, budget>>

-----------------------------------------------------------------------------
(* Data *)

Pod == UNION {[of : {c}, name : 1..Pods[c]] : c \in CR}
PodState == {"none", "running", "orphan", "finished"}
Phase == {"absent", "waiting", "running", "complete", "failed"}
Batch == Nat   \* how long the list of modules is
Job == [phase : Phase, upto : Batch, failures : Nat, deleting : BOOLEAN]
NoJob == [phase |-> "absent", upto |-> 0, failures |-> 0, deleting |-> FALSE]
NewJob(upto) == [phase |-> "waiting", upto |-> upto, failures |-> 0, deleting |-> FALSE]

\* What the code asks of a Job that it has read: Status.Succeeded > 0, else
\* Status.Active > 0, else Status.Failed > 0, else as good as none.
Answer == {"succeeded", "active", "failed", "none"}
Says(j) == CASE j.phase = "complete" -> "succeeded"
             [] j.phase = "running" -> "active"
             [] j.phase \in {"waiting", "failed"} /\ j.failures > 0 -> "failed"
             [] OTHER -> "none"

\* batch 0: the status names no Job.
Status == [installed : Batch, batch : Batch]

Existing == {p \in Pod : pod[p] # "none"}
Running(c) == {p \in Pod : p.of = c /\ pod[p] = "running"}

\* Lists of pods come from a cache, up to date except while it stalls.
PodView == IF stalled THEN podSeen ELSE Existing

Busy == {c \in CR : pc[c] # "idle"}

Calm == UNCHANGED budget
Disturb(kind) == /\ kind \in Kinds
                 /\ budget > 0
                 /\ budget' = budget - 1

-----------------------------------------------------------------------------
(* Pods and Jobs *)

\* A pod that fails, or is deleted while it runs, counts against the limit.
CountFailure(j) ==
    [j EXCEPT !.failures = @ + 1,
              !.phase = IF j.failures < BackoffLimit THEN "waiting" ELSE "failed"]

\* A pod disappears; that of a running Job is missed by its Job controller.
RemovePod(p) ==
    /\ pod' = [pod EXCEPT ![p] = "none"]
    /\ job' = IF pod[p] = "running" THEN [job EXCEPT ![p.of] = CountFailure(@)] ELSE job

\* The Job controller.  A new pod has a name nobody remembers.
Forgotten(p) == pod[p] = "none" /\ p \notin podSeen \cup UNION {todo[c] : c \in CR}

StartPod(c) ==
    /\ job[c].phase = "waiting"
    /\ ~job[c].deleting
    /\ LET free == {p \in Pod : p.of = c /\ Forgotten(p)} IN
       \E p \in free : /\ \A q \in free : p.name <= q.name
                       /\ pod' = [pod EXCEPT ![p] = "running"]
    /\ job' = [job EXCEPT ![c].phase = "running"]
    /\ UNCHANGED <<wanted, status, caches, ran, handler, queued, budget>>

Greater(m, n) == IF m < n THEN n ELSE m

PodSucceeds(c) ==
    /\ ~job[c].deleting
    /\ \E p \in Running(c) : pod' = [pod EXCEPT ![p] = "finished"]
    /\ job' = [job EXCEPT ![c].phase = "complete"]
    /\ ran' = [ran EXCEPT ![c] = Greater(@, job[c].upto)]
    /\ UNCHANGED <<wanted, status, caches, handler, queued, budget>>

PodFails(c) ==
    /\ Disturb("podFails")
    /\ ~job[c].deleting
    /\ \E p \in Running(c) : pod' = [pod EXCEPT ![p] = "finished"]
    /\ job' = [job EXCEPT ![c] = CountFailure(@)]
    /\ UNCHANGED <<wanted, status, caches, ran, handler, queued>>

\* A deleted Job disappears, and its pods are left to themselves.
JobGone(c) ==
    /\ job[c].deleting
    /\ job' = [job EXCEPT ![c] = NoJob]
    /\ pod' = [p \in Pod |-> IF p \in Running(c) THEN "orphan" ELSE pod[p]]
    /\ UNCHANGED <<wanted, status, caches, ran, handler, queued, budget>>

\* What an orphan installs counts for nothing, as no Job tells of it.
OrphanEnds(p) ==
    /\ pod[p] = "orphan"
    /\ pod' = [pod EXCEPT ![p] = "finished"]
    /\ UNCHANGED <<wanted, status, job, caches, ran, handler, queued, budget>>

\* An eviction, or somebody deletes a pod.
PodDeleted(p) ==
    /\ Disturb("podDeleted")
    /\ pod[p] # "none"
    /\ RemovePod(p)
    /\ UNCHANGED <<wanted, status, caches, ran, handler, queued>>

-----------------------------------------------------------------------------
(* The caches *)

\* Pods come and go unseen from now on, until the watch delivers.
StallPods ==
    /\ Disturb("podLag")
    /\ ~stalled
    /\ stalled' = TRUE
    /\ podSeen' = Existing
    /\ UNCHANGED <<wanted, status, job, jobSeen, pod, ran, handler, queued>>

SyncPods ==
    /\ stalled
    /\ stalled' = FALSE
    /\ podSeen' = {}
    /\ UNCHANGED <<wanted, status, job, jobSeen, pod, ran, handler, queued, budget>>

\* Mutant: the controller does not own Jobs, so their events queue nothing.
SyncJobSilently(c) ==
    /\ jobSeen[c] # Says(job[c])
    /\ jobSeen' = [jobSeen EXCEPT ![c] = Says(job[c])]
    /\ UNCHANGED <<wanted, status, job, pod, stalled, podSeen, ran, handler, queued, budget>>

\* The change of a Job queues its owner.
SyncJob(c) ==
    /\ jobSeen[c] # Says(job[c])
    /\ jobSeen' = [jobSeen EXCEPT ![c] = Says(job[c])]
    /\ queued' = queued \cup {c}
    /\ UNCHANGED <<wanted, status, job, pod, stalled, podSeen, ran, handler, budget>>

-----------------------------------------------------------------------------
(* The handler *)

\* A worker takes the CR from the queue; a CR is never in two hands at once.  A run
\* of more than one step always ends with a requeue, so that such a CR keeps its
\* place in "queued".
Take(c) == /\ pc[c] = "idle"
           /\ c \in queued
           /\ Cardinality(Busy) < Workers

Requeue(c, again) == queued' = IF again THEN queued \cup {c} ELSE queued \ {c}

Named(c) == status[c].batch # 0

\* Mutant: a Job that has started counts as succeeded.
Started(c) == Named(c) /\ jobSeen[c] \in {"active", "succeeded"}

\* The Job of that name in the cache has succeeded.
Succeeded(c) == Named(c) /\ jobSeen[c] = "succeeded"

\* The Job in the cache is not the one there is, and that one is not done.
Mistaken(c) == /\ jobSeen[c] = "succeeded"
               /\ job[c].phase \notin {"absent", "complete"}

FindSucceeded(c) ==
    /\ Take(c)
    /\ Succeeded(c)
    /\ pc' = [pc EXCEPT ![c] = "list"]
    /\ misled' = IF Mistaken(c) THEN misled \cup {c} ELSE misled
    /\ UNCHANGED <<wanted, status, job, pod, caches, ran, todo, queued, budget>>

\* It is active, or has only lost pods; then it is not looked at again before it
\* changes.
Waiting(c) ==
    /\ Take(c)
    /\ Named(c)
    /\ ~Succeeded(c)
    /\ jobSeen[c] \in {"active", "failed"}
    /\ Requeue(c, jobSeen[c] = "active")
    /\ UNCHANGED <<wanted, status, job, pod, caches, ran, handler, budget>>

\* Mutant: a Job that exists already counts as the one to create.
GetsAnyJob(c) == TRUE

\* A Job is created only if none of that name exists.
GetsJob(c) == job[c].phase = "absent"

Missing(c) == wanted[c] > status[c].installed

\* No Job is named, or the cache has none, or one whose status says nothing yet:
\* the modules still missing get the next Job.
CreateJob(c) ==
    /\ GetsJob(c)
    /\ job' = [job EXCEPT ![c] = IF @.phase = "absent" THEN NewJob(wanted[c]) ELSE @]
    /\ pc' = [pc EXCEPT ![c] = "name"]
    /\ UNCHANGED queued

InstallMissing(c) ==
    /\ Take(c)
    /\ Named(c) => jobSeen[c] = "none"
    /\ \/ Missing(c) /\ CreateJob(c)
       \/ /\ ~Missing(c) \/ ~GetsJob(c)
          /\ Requeue(c, Missing(c))
          /\ UNCHANGED <<job, pc>>
    /\ UNCHANGED <<wanted, status, pod, caches, ran, todo, misled, budget>>

\* The Job cannot be read or created, or the status not written that says that it
\* failed: the code comes back.
CallFails(c) ==
    /\ Take(c)
    /\ Named(c) \/ Missing(c)
    /\ \E kind \in {"apiError", "writeError"} : Disturb(kind)
    /\ UNCHANGED <<wanted, status, job, pod, caches, ran, handler, queued>>

\* MatchingLabels{"job-name": ...}: no namespace is asked for.
Labelled(c) == {p \in PodView : JobName[p.of] = JobName[c]}

\* The call is answered, or it fails and the rest is not done: the status is saved
\* as it stands, with the Job cleared (databaseinitjob.go:67-71, 77-81, 86-90).
Abandon(c) == /\ pc' = [pc EXCEPT ![c] = "record"]
              /\ todo' = [todo EXCEPT ![c] = {}]
              /\ UNCHANGED <<job, pod>>

ListPods(c) ==
    /\ pc[c] = "list"
    /\ \/ /\ todo' = [todo EXCEPT ![c] = Labelled(c)]
          /\ pc' = [pc EXCEPT ![c] = "pods"]
          /\ Calm
          /\ UNCHANGED <<job, pod>>
       \/ Disturb("apiError") /\ Abandon(c)
    /\ UNCHANGED <<wanted, status, caches, ran, misled, queued>>

\* A pod that is not there any more is an error like any other.
DeletePod(c) ==
    /\ pc[c] = "pods"
    /\ \E p \in todo[c] :
          \/ /\ pod[p] # "none"
             /\ RemovePod(p)
             /\ todo' = [todo EXCEPT ![c] = @ \ {p}]
             /\ Calm
             /\ UNCHANGED pc
          \/ pod[p] = "none" /\ Abandon(c) /\ Calm
          \/ Disturb("apiError") /\ Abandon(c)
    /\ UNCHANGED <<wanted, status, caches, ran, misled, queued>>

\* The Job of that name is marked as deleted, whichever it is.  Pods that were not
\* listed stay.
DeleteJob(c) ==
    /\ pc[c] = "pods"
    /\ todo[c] = {}
    /\ \/ /\ job[c].phase # "absent"
          /\ job' = [job EXCEPT ![c].deleting = TRUE]
          /\ pc' = [pc EXCEPT ![c] = "record"]
          /\ Calm
          /\ UNCHANGED <<pod, todo>>
       \/ job[c].phase = "absent" /\ Abandon(c) /\ Calm
       \/ Disturb("apiError") /\ Abandon(c)
    /\ UNCHANGED <<wanted, status, caches, ran, misled, queued>>

\* Mutant: the number of modules is added up.
RecordedSum(s) == [installed |-> s.installed + s.batch, batch |-> 0]

\* The batch of the succeeded Job counts as installed, and no Job is named.
Recorded(s) == [installed |-> s.batch, batch |-> 0]

\* Mutant: the code does not come back.
WriteStatusOnce(c, s) ==
    /\ \/ status' = [status EXCEPT ![c] = s] /\ Calm
       \/ Disturb("writeError") /\ UNCHANGED status
    /\ pc' = [pc EXCEPT ![c] = "idle"]
    /\ queued' = queued \ {c}

\* The status write that ends the run, and may fail; the code comes back.
WriteStatus(c, s) ==
    /\ \/ status' = [status EXCEPT ![c] = s] /\ Calm
       \/ Disturb("writeError") /\ UNCHANGED status
    /\ pc' = [pc EXCEPT ![c] = "idle"]
    /\ UNCHANGED queued

Record(c) ==
    /\ pc[c] = "record"
    /\ WriteStatus(c, Recorded(status[c]))
    /\ UNCHANGED <<wanted, job, pod, caches, ran, todo, misled>>

NameJob(c) ==
    /\ pc[c] = "name"
    /\ WriteStatus(c, [status[c] EXCEPT !.batch = wanted[c]])
    /\ UNCHANGED <<wanted, job, pod, caches, ran, todo, misled>>

Handler(c) == \/ FindSucceeded(c) \/ Waiting(c) \/ InstallMissing(c) \/ CallFails(c)
              \/ ListPods(c) \/ DeletePod(c) \/ DeleteJob(c) \/ Record(c) \/ NameJob(c)

Crash ==
    /\ Disturb("crash")
    /\ pc' = [c \in CR |-> "idle"]
    /\ todo' = [c \in CR |-> {}]
    /\ queued' = CR
    /\ UNCHANGED <<wanted, status, job, pod, caches, ran, misled>>

\* The user adds modules, between two runs of the handler.
AddModules(c) ==
    /\ pc[c] = "idle"
    /\ \E n \in (wanted[c] + 1)..Modules[c] : wanted' = [wanted EXCEPT ![c] = n]
    /\ queued' = queued \cup {c}
    /\ UNCHANGED <<status, job, pod, caches, ran, handler, budget>>

-----------------------------------------------------------------------------
Init ==
    /\ wanted = [c \in CR |-> 1]
    /\ status = [c \in CR |-> [installed |-> 0, batch |-> 0]]
    /\ job = [c \in CR |-> NoJob]
    /\ jobSeen = [c \in CR |-> "none"]
    /\ pod = [p \in Pod |-> "none"]
    /\ stalled = FALSE
    /\ podSeen = {}
    /\ ran = [c \in CR |-> 0]
    /\ misled = {}
    /\ pc = [c \in CR |-> "idle"]
    /\ todo = [c \in CR |-> {}]
    /\ queued = CR
    /\ budget = MaxDisturbances

JobController(c) == StartPod(c) \/ PodSucceeds(c) \/ PodFails(c) \/ JobGone(c)

Next ==
    \/ \E c \in CR : Handler(c) \/ AddModules(c) \/ JobController(c) \/ SyncJob(c)
    \/ \E p \in Pod : PodDeleted(p) \/ OrphanEnds(p)
    \/ StallPods
    \/ SyncPods
    \/ Crash

Spec == Init /\ [][Next]_vars

\* The queue is first come, first served, so every CR gets its turn; the Job
\* controller starts pods, they come to an end, and the watches deliver.
Fairness == /\ \A c \in CR : WF_vars(Handler(c)) /\ WF_vars(JobController(c))
            /\ WF_vars(SyncPods \/ \E c \in CR : SyncJob(c))

FairSpec == Spec /\ Fairness

-----------------------------------------------------------------------------
(* Properties *)

TypeOK ==
    /\ wanted \in [CR -> Batch]
    /\ status \in [CR -> Status]
    /\ job \in [CR -> Job]
    /\ jobSeen \in [CR -> Answer]
    /\ pod \in [Pod -> PodState]
    /\ stalled \in BOOLEAN
    /\ podSeen \subseteq Pod
    /\ ran \in [CR -> Batch]
    /\ \A c \in CR : {wanted[c], status[c].installed, status[c].batch, job[c].upto, ran[c]}
                     \subseteq 0..Modules[c]
    /\ misled \subseteq CR
    /\ pc \in [CR -> {"idle", "list", "pods", "record", "name"}]
    /\ todo \in [CR -> SUBSET Pod]
    /\ queued \subseteq CR
    /\ budget \in 0..MaxDisturbances

\* What a status records was installed by a Job of that very CR, whatever pods
\* are deleted, by whom, and whatever Job of that name was left behind.  There is
\* one exception: the handler once took an earlier Job, still in the cache, for one
\* that was not done (databaseinitjob.go:41, 54-60).
RecordedRan == \A c \in CR \ misled : status[c].installed <= ran[c]

\* With the same exception, the handler of a CR never deletes a pod of its own Job
\* while it installs (databaseinitjob.go:54, 72-81): the pods of that label are
\* deleted after the Job succeeded and before there is another.
OwnRunKept ==
    [][\A c \in CR \ misled : DeletePod(c) => \A p \in Running(c) : pod'[p] = pod[p]]_vars

\* With the same exception, never do two pods install into the database of one CR
\* at a time: a Job is deleted, and its pods are left, only when none of them is at
\* work (databaseinitjob.go:64-92), also where the list of pods was out of date.
Installing(c) == {p \in Pod : p.of = c /\ pod[p] \in {"running", "orphan"}}
OneInstaller == \A c \in CR \ misled : \A p, q \in Installing(c) : p = q

\* The operator turns its back on a CR only while that has all its modules, or has
\* a Job that the status names and that has lost a pod, so that it will have news or
\* has failed for good: whoever deletes its pods, whatever fails, whatever the
\* handler has taken for what, and also with a Job left behind, it comes back
\* (databaseinitjob.go:64-136).
Settled ==
    \A c \in CR : pc[c] = "idle" /\ c \notin queued /\ jobSeen[c] = Says(job[c])
                  => ~Missing(c) \/ (Named(c) /\ Says(job[c]) = "failed")

\* A Job that the status does not name, because naming it failed or because it was
\* kept although its success is recorded: "InitJobCreationFailed" for ever once a
\* module is added.
Leaked(c) == job[c].phase # "absent" /\ ~Named(c)

\* There are two ways not to get one's modules, whatever happens to the pods: the
\* Job has failed for good, or one was left behind.
InstalledOrStuck ==
    <>[](\A c \in CR : \/ status[c].installed = wanted[c]
                       \/ job[c].phase = "failed"
                       \/ Leaked(c))

\* "Deleting pod %s from job %s" (databaseinitjob.go:74): only pods of the Job
\* that is cleared are deleted.
DeletesOwnPods ==
    [][\A c \in CR : DeletePod(c) => \A p \in Pod : pod'[p] # pod[p] => p.of = c]_vars

-----------------------------------------------------------------------------
(* Inductive invariant (proved in InitPodsProofs)                           *)

\* While a pod of a Job runs, so does the Job, and there is one such pod.
PodsInv == \A c \in CR : /\ Running(c) # {} => job[c].phase = "running"
                         /\ \A p, q \in Running(c) : p = q

\* What the Job of a CR stands for that was never misled: it has done its batch if it
\* is complete, and covers that of the status, or there is none and that has run.
JobsInv ==
    \A c \in CR \ misled :
        /\ job[c].phase = "complete" => job[c].upto <= ran[c]
        /\ Named(c) => IF job[c].phase = "absent" THEN status[c].batch <= ran[c]
                       ELSE status[c].batch <= job[c].upto
        /\ job[c].deleting => job[c].phase = "complete"
        /\ \A p \in Installing(c) : p \in Running(c)

\* What the handler of such a CR knows.
HandlerInv ==
    \A c \in CR \ misled :
        /\ pc[c] \in {"list", "pods", "record"}
           => Named(c) /\ job[c].phase \in {"absent", "complete"}
        /\ pc[c] = "name" => /\ job[c].phase # "absent" /\ ~job[c].deleting
                             /\ job[c].upto = wanted[c]

\* Lists of modules only grow.
GrowthInv == \A c \in CR : status[c].batch <= wanted[c]

RanInv == PodsInv /\ JobsInv /\ HandlerInv /\ GrowthInv /\ RecordedRan

\* A CR that the handler has left has what it wants, or a Job that had lost a pod
\* when the handler last looked; one that it has not left keeps its place in the
\* queue.
RestInv ==
    \A c \in CR : c \notin queued
                  => /\ pc[c] = "idle"
                     /\ ~Missing(c) \/ (Named(c) /\ jobSeen[c] = "failed")
=============================================================================
