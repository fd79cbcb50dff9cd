--------------------------- MODULE InitPodsProofs ---------------------------
(***************************************************************************)
(* Theorems about InitPods, for every set of CRs, whatever names their Jobs *)
(* share, and every number of modules, pods, workers and disturbances.      *)
(***************************************************************************)
EXTENDS InitPods, TLAPS

-----------------------------------------------------------------------------
(* Type correctness *)

\* A disturbance is taken from the budget, a calm step leaves it.
LEMMA TypeOfBudget ==
    ASSUME budget \in 0..MaxDisturbances, Calm \/ \E kind : Disturb(kind)
    PROVE  budget' \in 0..MaxDisturbances
  BY BoundsAssumption DEF Calm, Disturb

LEMMA TypeOfPod == \A p \in Pod : p.of \in CR
  BY DEF Pod

LEMMA TypeOfNoJob ==
    NoJob \in Job /\ NoJob.upto = 0 /\ NoJob.phase = "absent" /\ ~NoJob.deleting
  BY DEF NoJob, Job, Phase, Batch

\* What a Job that has lost a pod looks like.
LEMMA TypeOfFailure ==
    ASSUME NEW j \in Job
    PROVE  /\ CountFailure(j) \in Job
           /\ CountFailure(j).phase \in {"waiting", "failed"}
           /\ CountFailure(j).upto = j.upto
           /\ CountFailure(j).deleting = j.deleting
  <1> DEFINE n == j.failures + 1
             ph == IF j.failures < BackoffLimit THEN "waiting" ELSE "failed"
  <1>1. n \in Nat /\ ph \in {"waiting", "failed"}
    BY DEF Job
  <1>2. CountFailure(j) = [j EXCEPT !.failures = n, !.phase = ph]
    BY DEF CountFailure
  <1> HIDE DEF n, ph
  <1> QED
    BY <1>1, <1>2 DEF Job, Phase

\* The parts of a state that count the modules of one CR.
SizesOf(c) == {wanted[c], status[c].installed, status[c].batch, job[c].upto, ran[c]}
                 \subseteq 0..Modules[c]

LEMMA TypeOfAnswer == \A j : Says(j) \in Answer
  BY DEF Says, Answer

\* The pod that is removed, by its own running or not.
LEMMA TypeOfRemovePod ==
    ASSUME TypeOK, NEW p \in Pod, RemovePod(p)
    PROVE  /\ pod' \in [Pod -> PodState]
           /\ job' \in [CR -> Job]
           /\ \A c \in CR : job'[c].upto = job[c].upto
           /\ \A c \in CR : \/ job'[c] = job[c]
                            \/ c = p.of /\ pod[p] = "running" /\ job'[c] = CountFailure(job[c])
           /\ \A q \in Pod : pod'[q] = IF q = p THEN "none" ELSE pod[q]
  <1>1. p.of \in CR /\ job[p.of] \in Job
    BY TypeOfPod DEF TypeOK
  <1>2. pod' \in [Pod -> PodState] /\ \A q \in Pod : pod'[q] = IF q = p THEN "none" ELSE pod[q]
    BY DEF RemovePod, TypeOK, PodState
  <1>3. CASE pod[p] = "running"
    <2>1. job' = [job EXCEPT ![p.of] = CountFailure(job[p.of])]
      BY <1>3 DEF RemovePod
    <2> QED
      BY <1>1, <1>2, <1>3, <2>1, TypeOfFailure DEF TypeOK
  <1>4. CASE pod[p] # "running"
    BY <1>2, <1>4 DEF RemovePod, TypeOK
  <1> QED
    BY <1>3, <1>4

\* What a status write does, that is accepted or not.
LEMMA EffectOfWrite ==
    ASSUME TypeOK, NEW c \in CR, NEW s \in Status, WriteStatus(c, s)
    PROVE  /\ status' \in [CR -> Status]
           /\ status'[c] \in {s, status[c]}
           /\ \A d \in CR \ {c} : status'[d] = status[d]
           /\ pc' = [pc EXCEPT ![c] = "idle"]
           /\ queued' = queued
           /\ Calm \/ \E kind : Disturb(kind)
  BY DEF WriteStatus, TypeOK

\* The two statuses that are written.
LEMMA TypeOfRecorded ==
    ASSUME TypeOK, NEW c \in CR
    PROVE  /\ Recorded(status[c]) \in Status
           /\ Recorded(status[c]).installed = status[c].batch
           /\ Recorded(status[c]).batch = 0
           /\ [status[c] EXCEPT !.batch = wanted[c]] \in Status
           /\ [status[c] EXCEPT !.batch = wanted[c]].installed = status[c].installed
           /\ [status[c] EXCEPT !.batch = wanted[c]].batch = wanted[c]
  BY DEF TypeOK, Recorded, Status, Batch

LEMMA TypeOfWrites ==
    ASSUME TypeOK, NEW c \in CR, Record(c) \/ NameJob(c)
    PROVE  TypeOK'
  <1>1. PICK s \in Status : /\ WriteStatus(c, s)
                            /\ s.installed \in {status[c].installed, status[c].batch}
                            /\ s.batch \in {0, wanted[c]}
    <2>1. CASE Record(c)
      BY <2>1, TypeOfRecorded DEF Record
    <2>2. CASE NameJob(c)
      BY <2>2, TypeOfRecorded DEF NameJob
    <2> QED
      BY <2>1, <2>2
  <1>2. UNCHANGED <<wanted, job, pod, caches, ran, todo, misled>>
    BY DEF Record, NameJob
  <1>3. \A d \in CR : SizesOf(d)'
    <2>1. \A d \in CR : SizesOf(d) /\ 0 \in 0..Modules[d]
      BY SizesAssumption DEF TypeOK, SizesOf
    <2>2. \A d \in CR : /\ status'[d].installed \in {status[d].installed, status[d].batch}
                        /\ status'[d].batch \in {status[d].batch, 0, wanted[d]}
      BY <1>1, EffectOfWrite
    <2> QED
      BY <1>2, <2>1, <2>2 DEF SizesOf
  <1>4. budget' \in 0..MaxDisturbances
    BY <1>1, EffectOfWrite, TypeOfBudget DEF TypeOK
  <1>5. pc' \in [CR -> {"idle", "list", "pods", "record", "name"}]
    BY <1>1, EffectOfWrite DEF TypeOK
  <1>6. status' \in [CR -> Status] /\ queued' = queued
    BY <1>1, EffectOfWrite
  <1> QED
    BY <1>2, <1>3, <1>4, <1>5, <1>6 DEF TypeOK, SizesOf, caches

\* A step of the handler that clears a succeeded Job away.
Clears(c) == ListPods(c) \/ DeletePod(c) \/ DeleteJob(c)

Clearing == {"list", "pods", "record"}

\* It moves on, and may have deleted a pod of anybody or marked its Job.
LEMMA EffectOfClears ==
    ASSUME TypeOK, NEW c \in CR, Clears(c)
    PROVE  /\ UNCHANGED <<wanted, status, caches, ran, misled, queued>>
           /\ Calm \/ \E kind : Disturb(kind)
           /\ todo' \in [CR -> SUBSET Pod]
           /\ pc[c] \in Clearing
           /\ \E at \in Clearing : pc' = [pc EXCEPT ![c] = at]
           /\ \/ UNCHANGED <<job, pod>>
              \/ \E p \in Pod : RemovePod(p)
              \/ job[c].phase # "absent" /\ job' = [job EXCEPT ![c].deleting = TRUE]
                 /\ UNCHANGED pod
  <1>1. CASE ListPods(c)
    <2>1. Labelled(c) \subseteq Pod
      BY DEF Labelled, PodView, Existing, TypeOK
    <2> QED
      BY <1>1, <2>1 DEF ListPods, Abandon, TypeOK, Clearing
  <1>2. CASE DeletePod(c)
    <2>1. PICK p \in todo[c] : \/ /\ RemovePod(p)
                                  /\ todo' = [todo EXCEPT ![c] = @ \ {p}]
                                  /\ Calm /\ UNCHANGED pc
                               \/ Abandon(c) /\ Calm
                               \/ Disturb("apiError") /\ Abandon(c)
      BY <1>2 DEF DeletePod
    <2>2. p \in Pod
      BY DEF TypeOK
    <2>3. \E at \in Clearing : pc' = [pc EXCEPT ![c] = at]
      BY <1>2, <2>1 DEF DeletePod, Abandon, TypeOK, Clearing
    <2>4. todo' \in [CR -> SUBSET Pod]
      BY <2>1 DEF Abandon, TypeOK
    <2> QED
      BY <1>2, <2>1, <2>2, <2>3, <2>4 DEF DeletePod, Abandon, Clearing
  <1>3. CASE DeleteJob(c)
    <2>1. todo' \in [CR -> SUBSET Pod]
      BY <1>3 DEF DeleteJob, Abandon, TypeOK
    <2> QED
      BY <1>3, <2>1 DEF DeleteJob, Abandon, Clearing
  <1> QED
    BY <1>1, <1>2, <1>3 DEF Clears

LEMMA TypeOfMarked ==
    ASSUME NEW j \in Job
    PROVE  /\ [j EXCEPT !.deleting = TRUE] \in Job
           /\ [j EXCEPT !.deleting = TRUE].upto = j.upto
           /\ [j EXCEPT !.deleting = TRUE].phase = j.phase
           /\ [j EXCEPT !.deleting = TRUE].deleting
  BY DEF Job

LEMMA TypeOfClears ==
    ASSUME TypeOK, NEW c \in CR, Clears(c)
    PROVE  TypeOK'
  <1>1. budget' \in 0..MaxDisturbances
    BY EffectOfClears, TypeOfBudget DEF TypeOK
  <1>2. pc' \in [CR -> {"idle", "list", "pods", "record", "name"}]
    BY EffectOfClears DEF TypeOK, Clearing
  <1>3. job' \in [CR -> Job] /\ pod' \in [Pod -> PodState]
        /\ \A d \in CR : job'[d].upto = job[d].upto
    <2>1. CASE UNCHANGED <<job, pod>>
      BY <2>1 DEF TypeOK
    <2>2. CASE \E p \in Pod : RemovePod(p)
      BY <2>2, TypeOfRemovePod
    <2>3. CASE job' = [job EXCEPT ![c].deleting = TRUE] /\ UNCHANGED pod
      <3>1. job[c] \in Job
        BY DEF TypeOK
      <3> QED
        BY <2>3, <3>1, TypeOfMarked DEF TypeOK
    <2> QED
      BY <2>1, <2>2, <2>3, EffectOfClears
  <1> QED
    BY <1>1, <1>2, <1>3, EffectOfClears DEF TypeOK, caches

\* A step of the handler that begins with a look at the Job.
Begins(c) == FindSucceeded(c) \/ Waiting(c) \/ InstallMissing(c) \/ CallFails(c)

LEMMA TypeOfCreated ==
    ASSUME TypeOK, NEW c \in CR, CreateJob(c)
    PROVE  /\ job' \in [CR -> Job]
           /\ job[c].phase = "absent"
           /\ job'[c].phase = "waiting" /\ job'[c].upto = wanted[c] /\ ~job'[c].deleting
           /\ \A d \in CR \ {c} : job'[d] = job[d]
  <1>1. wanted[c] \in Batch
    BY DEF TypeOK
  <1>2. NewJob(wanted[c]) \in Job
    BY <1>1 DEF NewJob, Job, Phase
  <1>3. job' = [job EXCEPT ![c] = NewJob(wanted[c])]
    BY DEF CreateJob, GetsJob
  <1> QED
    BY <1>2, <1>3 DEF CreateJob, GetsJob, TypeOK, NewJob

LEMMA TypeOfBegins ==
    ASSUME TypeOK, NEW c \in CR, Begins(c)
    PROVE  TypeOK'
  <1>1. CASE FindSucceeded(c)
    <2>1. pc' \in [CR -> {"idle", "list", "pods", "record", "name"}] /\ misled' \subseteq CR
      BY <1>1 DEF FindSucceeded, TypeOK
    <2> QED
      BY <1>1, <2>1 DEF FindSucceeded, TypeOK, caches
  <1>2. CASE Waiting(c)
    BY <1>2 DEF Waiting, Requeue, TypeOK, caches, handler
  <1>3. CASE InstallMissing(c)
    <2>1. queued' \subseteq CR
      BY <1>3 DEF InstallMissing, CreateJob, Requeue, TypeOK
    <2>2. /\ job' \in [CR -> Job]
          /\ pc' \in [CR -> {"idle", "list", "pods", "record", "name"}]
          /\ \A d \in CR : job'[d].upto \in {job[d].upto, wanted[d]}
      <3>1. CASE CreateJob(c)
        BY <3>1, TypeOfCreated DEF CreateJob, TypeOK
      <3>2. CASE UNCHANGED <<job, pc>>
        BY <3>2 DEF TypeOK
      <3> QED
        BY <1>3, <3>1, <3>2 DEF InstallMissing
    <2> QED
      BY <1>3, <2>1, <2>2 DEF InstallMissing, TypeOK, caches
  <1>4. CASE CallFails(c)
    <2>1. budget' \in 0..MaxDisturbances
      BY <1>4, TypeOfBudget DEF CallFails, TypeOK
    <2> QED
      BY <1>4, <2>1 DEF CallFails, TypeOK, caches, handler
  <1> QED
    BY <1>1, <1>2, <1>3, <1>4 DEF Begins

\* The Job controller changes the state of the pods of one CR and its Job.
LEMMA EffectOfController ==
    ASSUME TypeOK, NEW c \in CR, JobController(c)
    PROVE  /\ UNCHANGED <<wanted, status, caches, handler, queued>>
           /\ Calm \/ \E kind : Disturb(kind)
           /\ pod' \in [Pod -> PodState]
           /\ \A p \in Pod : p.of # c => pod'[p] = pod[p]
           /\ \E j \in Job : job' = [job EXCEPT ![c] = j] /\ j.upto \in {0, job[c].upto}
           /\ ran' \in [CR -> Batch]
           /\ \A d \in CR : ran'[d] \in {ran[d], job[d].upto}
           /\ \A d \in CR \ {c} : ran'[d] = ran[d]
  <1>1. job[c] \in Job /\ job[c].upto \in Batch
    BY DEF TypeOK, Job
  <1>2. \A phase \in Phase : /\ [job[c] EXCEPT !.phase = phase] \in Job
                             /\ [job[c] EXCEPT !.phase = phase].upto = job[c].upto
    BY <1>1 DEF Job
  <1>3. CASE StartPod(c)
    <2>1. job' = [job EXCEPT ![c] = [job[c] EXCEPT !.phase = "running"]]
      BY <1>3 DEF StartPod
    <2>2. pod' \in [Pod -> PodState] /\ \A p \in Pod : p.of # c => pod'[p] = pod[p]
      BY <1>3 DEF StartPod, TypeOK, PodState
    <2> QED
      BY <1>2, <1>3, <2>1, <2>2 DEF StartPod, Calm, Phase, TypeOK
  <1>4. CASE PodSucceeds(c)
    <2>1. job' = [job EXCEPT ![c] = [job[c] EXCEPT !.phase = "complete"]]
      BY <1>4 DEF PodSucceeds
    <2>2. pod' \in [Pod -> PodState] /\ \A p \in Pod : p.of # c => pod'[p] = pod[p]
      BY <1>4 DEF PodSucceeds, Running, TypeOK, PodState
    <2>3. Greater(ran[c], job[c].upto) \in {ran[c], job[c].upto}
      BY DEF Greater
    <2>4. ran' = [ran EXCEPT ![c] = Greater(ran[c], job[c].upto)]
      BY <1>4 DEF PodSucceeds
    <2>5. /\ ran' \in [CR -> Batch]
          /\ \A d \in CR : ran'[d] \in {ran[d], job[d].upto}
          /\ \A d \in CR \ {c} : ran'[d] = ran[d]
      BY <1>1, <2>3, <2>4 DEF TypeOK
    <2>6. "complete" \in Phase
      BY DEF Phase
    <2> QED
      BY <1>2, <1>4, <2>1, <2>2, <2>5, <2>6 DEF PodSucceeds, Calm
  <1>5. CASE PodFails(c)
    <2>1. job' = [job EXCEPT ![c] = CountFailure(job[c])]
      BY <1>5 DEF PodFails
    <2>2. pod' \in [Pod -> PodState] /\ \A p \in Pod : p.of # c => pod'[p] = pod[p]
      BY <1>5 DEF PodFails, Running, TypeOK, PodState
    <2> QED
      BY <1>1, <1>5, <2>1, <2>2, TypeOfFailure DEF PodFails, TypeOK
  <1>6. CASE JobGone(c)
    <2>1. pod' \in [Pod -> PodState] /\ \A p \in Pod : p.of # c => pod'[p] = pod[p]
      BY <1>6 DEF JobGone, Running, TypeOK, PodState
    <2> QED
      BY <1>6, <2>1, TypeOfNoJob DEF JobGone, Calm, TypeOK
  <1> QED
    BY <1>3, <1>4, <1>5, <1>6 DEF JobController

LEMMA TypeOfController ==
    ASSUME TypeOK, NEW c \in CR, JobController(c)
    PROVE  TypeOK'
  <1>1. budget' \in 0..MaxDisturbances
    BY EffectOfController, TypeOfBudget DEF TypeOK
  <1>2. job' \in [CR -> Job] /\ \A d \in CR : job'[d].upto \in {0, job[d].upto}
    BY EffectOfController DEF TypeOK
  <1>3. \A d \in CR : 0 \in 0..Modules[d]
    BY SizesAssumption
  <1>4. \A d \in CR : SizesOf(d)'
    BY <1>2, <1>3, EffectOfController DEF SizesOf, TypeOK
  <1> QED
    BY <1>1, <1>2, <1>4, EffectOfController DEF TypeOK, SizesOf, caches, handler

\* The caches catch up, or that of the pods stalls.
Syncs == StallPods \/ SyncPods \/ \E c \in CR : SyncJob(c)

LEMMA TypeOfSyncs == TypeOK /\ Syncs => TypeOK'
  <1> SUFFICES ASSUME TypeOK, Syncs
               PROVE  TypeOK'
    OBVIOUS
  <1>1. CASE StallPods
    BY <1>1, TypeOfBudget DEF StallPods, Existing, TypeOK, handler
  <1>2. CASE SyncPods
    BY <1>2 DEF SyncPods, TypeOK, handler
  <1>3. ASSUME NEW c \in CR, SyncJob(c)
        PROVE  TypeOK'
    <2>1. jobSeen' \in [CR -> Answer] /\ queued' \subseteq CR
      BY <1>3, TypeOfAnswer DEF SyncJob, TypeOK
    <2> QED
      BY <1>3, <2>1 DEF SyncJob, TypeOK, handler
  <1> QED
    BY <1>1, <1>2, <1>3 DEF Syncs

LEMMA TypeOfAddModules ==
    ASSUME TypeOK, NEW c \in CR, AddModules(c)
    PROVE  TypeOK' /\ \A d \in CR : wanted[d] <= wanted'[d] /\ (d # c => wanted'[d] = wanted[d])
  <1>1. PICK n \in (wanted[c] + 1)..Modules[c] : wanted' = [wanted EXCEPT ![c] = n]
    BY DEF AddModules
  <1>2. n \in Nat /\ n \in 0..Modules[c] /\ wanted[c] <= n
    BY SizesAssumption DEF TypeOK, Batch
  <1>3. wanted' \in [CR -> Nat] /\ \A d \in CR : wanted'[d] = IF d = c THEN n ELSE wanted[d]
    BY <1>1, <1>2 DEF TypeOK, Batch
  <1>4. \A d \in CR : wanted[d] \in Nat
    BY DEF TypeOK, Batch
  <1>5. \A d \in CR : SizesOf(d)'
    BY <1>2, <1>3 DEF AddModules, SizesOf, TypeOK
  <1>6. TypeOK'
    BY <1>3, <1>5 DEF AddModules, handler, caches, TypeOK, SizesOf, Batch
  <1> QED
    BY <1>2, <1>3, <1>4, <1>6

\* Every step is one of these.
LEMMA Steps ==
    ASSUME [Next]_vars
    PROVE  \/ \E c \in CR : Begins(c) \/ Clears(c) \/ Record(c) \/ NameJob(c)
           \/ \E c \in CR : JobController(c) \/ AddModules(c)
           \/ \E p \in Pod : PodDeleted(p) \/ OrphanEnds(p)
           \/ Syncs
           \/ Crash
           \/ UNCHANGED vars
  BY DEF Next, Handler, Begins, Clears, Syncs

\* Every step keeps the types.
LEMMA TypeStep == TypeOK /\ [Next]_vars => TypeOK'
  <1> SUFFICES ASSUME TypeOK, [Next]_vars
               PROVE  TypeOK'
    OBVIOUS
  <1>1. ASSUME NEW c \in CR, Begins(c) \/ Clears(c) \/ Record(c) \/ NameJob(c)
        PROVE  TypeOK'
    BY <1>1, TypeOfBegins, TypeOfClears, TypeOfWrites
  <1>2. ASSUME NEW c \in CR, JobController(c) \/ AddModules(c)
        PROVE  TypeOK'
    BY <1>2, TypeOfController, TypeOfAddModules
  <1>3. ASSUME NEW p \in Pod, PodDeleted(p)
        PROVE  TypeOK'
    <2>1. /\ pod' \in [Pod -> PodState] /\ job' \in [CR -> Job]
          /\ \A c \in CR : job'[c].upto = job[c].upto
      BY <1>3, TypeOfRemovePod DEF PodDeleted
    <2>2. budget' \in 0..MaxDisturbances
      BY <1>3, TypeOfBudget DEF PodDeleted, TypeOK
    <2> QED
      BY <1>3, <2>1, <2>2 DEF PodDeleted, caches, handler, TypeOK
  <1>4. ASSUME NEW p \in Pod, OrphanEnds(p)
        PROVE  TypeOK'
    <2>1. pod' \in [Pod -> PodState]
      BY <1>4 DEF OrphanEnds, TypeOK, PodState
    <2> QED
      BY <1>4, <2>1 DEF OrphanEnds, caches, handler, TypeOK
  <1>5. CASE Crash
    <2>1. budget' \in 0..MaxDisturbances
      BY <1>5, TypeOfBudget DEF Crash, TypeOK
    <2> QED
      BY <1>5, <2>1 DEF Crash, caches, TypeOK
  <1>6. CASE UNCHANGED vars
    BY <1>6 DEF vars, caches, handler, TypeOK
  <1> QED
    BY <1>1, <1>2, <1>3, <1>4, <1>5, <1>6, Steps, TypeOfSyncs

LEMMA TypeInit == Init => TypeOK
  <1> SUFFICES ASSUME Init
               PROVE  TypeOK
    OBVIOUS
  <1>1. \A c \in CR : 1 \in 0..Modules[c] /\ 0 \in 0..Modules[c]
    BY SizesAssumption
  <1>2. job \in [CR -> Job] /\ \A c \in CR : job[c].upto = 0
    BY TypeOfNoJob DEF Init
  <1>3. wanted \in [CR -> Batch] /\ status \in [CR -> Status] /\ ran \in [CR -> Batch]
    BY DEF Init, Batch, Status
  <1>4. \A c \in CR : SizesOf(c)
    BY <1>1, <1>2 DEF Init, SizesOf
  <1>5. jobSeen \in [CR -> Answer] /\ pod \in [Pod -> PodState] /\ todo \in [CR -> SUBSET Pod]
    BY DEF Init, Answer, PodState
  <1>6. budget \in 0..MaxDisturbances
    BY BoundsAssumption DEF Init
  <1>7. pc \in [CR -> {"idle", "list", "pods", "record", "name"}]
    BY DEF Init
  <1> QED
    BY <1>2, <1>3, <1>4, <1>5, <1>6, <1>7 DEF Init, TypeOK, SizesOf

\* Every variable keeps its type, and no list grows beyond the modules of its CR.
THEOREM TypeCorrect == Spec => []TypeOK
  BY TypeInit, TypeStep, PTL DEF Spec

-----------------------------------------------------------------------------
(* What a status records, and which pods a handler deletes *)

\* The invariant, of one CR: whatever its handler has taken for what, ...
Sane(c) ==
    /\ Running(c) # {} => job[c].phase = "running"
    /\ \A p, q \in Running(c) : p = q
    /\ status[c].batch <= wanted[c]

\* ... and while it has not taken an earlier Job for one that was not done.
Sound(c) ==
    /\ job[c].phase = "complete" => job[c].upto <= ran[c]
    /\ Named(c) => IF job[c].phase = "absent" THEN status[c].batch <= ran[c]
                   ELSE status[c].batch <= job[c].upto
    /\ job[c].deleting => job[c].phase = "complete"
    /\ \A p \in Installing(c) : p \in Running(c)
    /\ pc[c] \in Clearing => Named(c) /\ job[c].phase \in {"absent", "complete"}
    /\ pc[c] = "name" => job[c].phase # "absent" /\ ~job[c].deleting /\ job[c].upto = wanted[c]
    /\ status[c].installed <= ran[c]

Good(c) == Sane(c) /\ (c \notin misled => Sound(c))

LEMMA GoodOfEach == RanInv <=> \A c \in CR : Good(c)
  BY DEF RanInv, PodsInv, JobsInv, HandlerInv, GrowthInv, RecordedRan, Good, Sane, Sound, Clearing

\* The handler of a CR moves on without an effect on it.
Moves(c) == \/ pc'[c] \in {pc[c], "idle"}
            \/ pc[c] \in Clearing /\ pc'[c] \in Clearing

\* Nothing else of the CR changes, but pods that do not run for its Job.
LEMMA GoodKept ==
    ASSUME NEW c \in CR, Good(c), Moves(c), c \in misled => c \in misled',
           wanted'[c] = wanted[c], status'[c] = status[c], job'[c] = job[c], ran'[c] = ran[c],
           Running(c)' = Running(c), Installing(c)' \subseteq Installing(c)
    PROVE  Good(c)'
  BY DEF Good, Sane, Sound, Moves, Named, Clearing

\* The same for pods that do not change at all.
LEMMA PodsKept ==
    ASSUME NEW c \in CR, \A p \in Pod : p.of = c => pod'[p] = pod[p]
    PROVE  Running(c)' = Running(c) /\ Installing(c)' = Installing(c)
  BY DEF Running, Installing

\* The one running pod is lost, and the Job knows: such a Job is not being cleared.
LEMMA GoodAfterLoss ==
    ASSUME TypeOK, NEW c \in CR, Good(c), Moves(c), c \in misled => c \in misled',
           wanted'[c] = wanted[c], status'[c] = status[c], job'[c] = CountFailure(job[c]),
           ran'[c] = ran[c], NEW p \in Running(c), Running(c)' = Running(c) \ {p},
           Installing(c)' \subseteq Installing(c) \ {p}
    PROVE  Good(c)'
  <1>1. Running(c)' = {} /\ job[c].phase = "running" /\ job[c] \in Job
    BY DEF Good, Sane, TypeOK
  <1>2. /\ job'[c].phase \in {"waiting", "failed"} /\ job'[c].upto = job[c].upto
        /\ job'[c].deleting = job[c].deleting
    BY <1>1, TypeOfFailure
  <1>3. Sane(c)'
    BY <1>1 DEF Good, Sane
  <1>4. ASSUME c \notin misled
        PROVE  Sound(c)'
    <2>1. Sound(c)
      BY <1>4 DEF Good
    <2>2. pc[c] \notin Clearing /\ pc'[c] \in {pc[c], "idle"}
      BY <1>1, <2>1 DEF Sound, Moves
    <2>3. Installing(c)' = {}
      BY <1>1, <2>1 DEF Sound, Good, Sane
    <2>4. Named(c)' => status'[c].batch <= job'[c].upto
      BY <1>1, <1>2, <2>1 DEF Sound, Named
    <2> QED
      BY <1>1, <1>2, <2>1, <2>2, <2>3, <2>4 DEF Sound, Clearing
  <1> QED
    BY <1>3, <1>4 DEF Good

\* A pod disappears.
LEMMA GoodAfterRemoval ==
    ASSUME TypeOK, NEW c \in CR, Good(c), Moves(c), NEW p \in Pod, RemovePod(p),
           UNCHANGED <<wanted, status, ran, misled>>
    PROVE  Good(c)'
  <1>1. \A q \in Pod : pod'[q] = IF q = p THEN "none" ELSE pod[q]
    BY TypeOfRemovePod
  <1>2. Running(c)' = Running(c) \ {p} /\ Installing(c)' = Installing(c) \ {p}
    BY <1>1 DEF Running, Installing
  <1>3. CASE p \in Running(c)
    <2>1. job'[c] = CountFailure(job[c])
      <3>1. p.of = c /\ pod[p] = "running"
        BY <1>3 DEF Running
      <3>2. job' = [job EXCEPT ![c] = CountFailure(job[c])]
        BY <3>1 DEF RemovePod
      <3> QED
        BY <3>2 DEF TypeOK
    <2> QED
      BY <1>2, <1>3, <2>1, GoodAfterLoss
  <1>4. CASE p \notin Running(c)
    <2>1. job'[c] = job[c]
      BY <1>4, TypeOfRemovePod DEF Running
    <2> QED
      BY <1>2, <1>4, <2>1, GoodKept
  <1> QED
    BY <1>3, <1>4

\* The Job of a CR is cleared away, and with it the pods of any.
LEMMA GoodAfterClears ==
    ASSUME TypeOK, NEW c \in CR, Good(c), NEW d \in CR, Clears(d)
    PROVE  Good(c)'
  <1>1. UNCHANGED <<wanted, status, ran, misled>>
    BY EffectOfClears
  <1>2. Moves(c)
    BY EffectOfClears DEF Moves, TypeOK
  <1>3. CASE UNCHANGED <<job, pod>>
    BY <1>1, <1>2, <1>3, PodsKept, GoodKept
  <1>4. ASSUME NEW p \in Pod, RemovePod(p)
        PROVE  Good(c)'
    BY <1>1, <1>2, <1>4, GoodAfterRemoval
  <1>5. CASE /\ job[d].phase # "absent" /\ job' = [job EXCEPT ![d].deleting = TRUE]
             /\ UNCHANGED pod
    <2>1. Running(c)' = Running(c) /\ Installing(c)' = Installing(c)
      BY <1>5, PodsKept
    <2>2. CASE c # d
      BY <1>1, <1>2, <1>5, <2>1, <2>2, GoodKept DEF TypeOK
    <2>3. CASE c = d
      <3>1. job[c] \in Job /\ job'[c] = [job[c] EXCEPT !.deleting = TRUE]
        BY <1>5, <2>3 DEF TypeOK
      <3>2. job'[c].phase = job[c].phase /\ job'[c].upto = job[c].upto
        BY <3>1, TypeOfMarked
      <3>3. pc[c] \in Clearing /\ pc'[c] \in Clearing
        BY <2>3, EffectOfClears DEF TypeOK
      <3>4. Sane(c)'
        BY <1>1, <2>1, <3>2 DEF Good, Sane
      <3>5. ASSUME Sound(c)
            PROVE  Sound(c)'
        <4>1. job[c].phase = "complete" /\ Named(c)
          BY <1>5, <2>3, <3>3, <3>5 DEF Sound
        <4>2. pc'[c] # "name"
          BY <3>3 DEF Clearing
        <4> QED
          BY <1>1, <2>1, <3>2, <3>3, <3>5, <4>1, <4>2 DEF Sound, Named
      <3> QED
        BY <1>1, <3>4, <3>5 DEF Good
    <2> QED
      BY <2>2, <2>3
  <1> QED
    BY <1>3, <1>4, <1>5, EffectOfClears

\* A status write that is refused, or about another CR.
LEMMA GoodAfterWrites ==
    ASSUME TypeOK, NEW c \in CR, Good(c), NEW d \in CR, Record(d) \/ NameJob(d)
    PROVE  Good(c)'
  <1>1. UNCHANGED <<wanted, job, pod, ran, misled>>
    BY DEF Record, NameJob
  <1>2. Running(c)' = Running(c) /\ Installing(c)' = Installing(c)
    BY <1>1, PodsKept
  <1>3. PICK s \in Status :
           /\ WriteStatus(d, s)
           /\ \/ /\ pc[d] = "record" /\ s.installed = status[d].batch /\ s.batch = 0
              \/ /\ pc[d] = "name" /\ s.installed = status[d].installed /\ s.batch = wanted[d]
    BY TypeOfRecorded DEF Record, NameJob
  <1>4. pc' = [pc EXCEPT ![d] = "idle"] /\ Moves(c)
    BY <1>3, EffectOfWrite DEF Moves, TypeOK
  <1>5. CASE status'[c] = status[c]
    BY <1>1, <1>2, <1>4, <1>5, GoodKept
  <1>6. CASE c = d /\ status'[c] = s
    <2>1. pc'[c] = "idle" /\ wanted[c] \in Nat /\ status[c].batch \in Nat
      BY <1>4, <1>6 DEF TypeOK, Batch, Status
    <2>2. Sane(c)'
      BY <1>1, <1>2, <1>3, <1>6, <2>1 DEF Good, Sane
    <2>3. ASSUME Sound(c)
          PROVE  Sound(c)'
      <3>1. CASE pc[c] = "record" /\ s.installed = status[c].batch /\ s.batch = 0
        <4>1. Named(c) /\ job[c].phase \in {"absent", "complete"}
          BY <2>3, <3>1 DEF Sound, Clearing
        <4>2. /\ job[c].upto \in Nat /\ ran[c] \in Nat
          BY DEF TypeOK, Job, Batch
        <4>3. status[c].batch <= ran[c]
          BY <2>1, <2>3, <4>1, <4>2 DEF Sound
        <4> QED
          BY <1>1, <1>2, <1>6, <2>1, <2>3, <3>1, <4>3 DEF Sound, Named, Clearing
      <3>2. CASE pc[c] = "name" /\ s.installed = status[c].installed /\ s.batch = wanted[c]
        <4>1. job[c].phase # "absent" /\ job[c].upto = wanted[c]
          BY <2>3, <3>2 DEF Sound
        <4> QED
          BY <1>1, <1>2, <1>6, <2>1, <2>3, <3>2, <4>1 DEF Sound, Named, Clearing
      <3> QED
        BY <1>3, <1>6, <3>1, <3>2
    <2> QED
      BY <1>1, <2>2, <2>3 DEF Good
  <1> QED
    BY <1>3, <1>5, <1>6, EffectOfWrite

\* The handler looks at the Job in the cache, and may create the next.
LEMMA GoodAfterBegins ==
    ASSUME TypeOK, NEW c \in CR, Good(c), NEW d \in CR, Begins(d)
    PROVE  Good(c)'
  <1>1. UNCHANGED <<wanted, status, pod, ran>>
    BY DEF Begins, FindSucceeded, Waiting, InstallMissing, CallFails
  <1>2. Running(c)' = Running(c) /\ Installing(c)' = Installing(c)
    BY <1>1, PodsKept
  <1>3. CASE UNCHANGED <<job, pc, misled>>
    BY <1>1, <1>2, <1>3, GoodKept DEF Moves
  <1>4. CASE FindSucceeded(d)
    <2>1. UNCHANGED job /\ pc' = [pc EXCEPT ![d] = "list"] /\ Named(d)
          /\ misled' = IF Mistaken(d) THEN misled \cup {d} ELSE misled
      BY <1>4 DEF FindSucceeded, Succeeded
    <2>2. CASE c # d
      <3>1. pc'[c] = pc[c]
        BY <2>1, <2>2 DEF TypeOK
      <3> QED
        BY <1>1, <1>2, <2>1, <3>1, GoodKept DEF Moves
    <2>3. CASE c = d
      <3>1. Sane(c)'
        BY <1>1, <1>2, <2>1 DEF Good, Sane
      <3>2. ASSUME c \notin misled'
            PROVE  Sound(c)'
        <4>1. Sound(c) /\ ~Mistaken(c)
          BY <2>1, <2>3, <3>2 DEF Good
        <4>2. job[c].phase \in {"absent", "complete"}
          BY <1>4, <2>3, <4>1 DEF FindSucceeded, Succeeded, Mistaken
        <4>3. pc'[c] = "list"
          BY <2>1, <2>3 DEF TypeOK
        <4> QED
          BY <1>1, <1>2, <2>1, <2>3, <4>1, <4>2, <4>3 DEF Sound, Named
      <3> QED
        BY <3>1, <3>2 DEF Good
    <2> QED
      BY <2>2, <2>3
  <1>5. CASE InstallMissing(d) /\ CreateJob(d)
    <2>1. UNCHANGED misled /\ pc' = [pc EXCEPT ![d] = "name"]
      BY <1>5 DEF InstallMissing, CreateJob
    <2>2. CASE c # d
      <3>1. pc'[c] = pc[c] /\ job'[c] = job[c]
        BY <1>5, <2>1, <2>2, TypeOfCreated DEF TypeOK
      <3> QED
        BY <1>1, <1>2, <2>1, <3>1, GoodKept DEF Moves
    <2>3. CASE c = d
      <3>1. /\ job[c].phase = "absent"
            /\ job'[c].phase = "waiting" /\ job'[c].upto = wanted[c] /\ ~job'[c].deleting
        BY <1>5, <2>3, TypeOfCreated
      <3>2. pc'[c] = "name"
        BY <2>1, <2>3 DEF TypeOK
      <3>3. Running(c) = {}
        BY <3>1 DEF Good, Sane
      <3>4. Sane(c)'
        BY <1>1, <1>2, <3>3 DEF Good, Sane
      <3>5. ASSUME Sound(c)
            PROVE  Sound(c)'
        BY <1>1, <1>2, <3>1, <3>2, <3>5 DEF Good, Sane, Sound, Clearing
      <3> QED
        BY <2>1, <3>4, <3>5 DEF Good
    <2> QED
      BY <2>2, <2>3
  <1> QED
    BY <1>3, <1>4, <1>5 DEF Begins, Waiting, InstallMissing, CallFails, handler

\* Pods start and end, and deleted Jobs go.
LEMMA GoodAfterController ==
    ASSUME TypeOK, NEW c \in CR, Good(c), NEW d \in CR, JobController(d)
    PROVE  Good(c)'
  <1>1. UNCHANGED <<wanted, status, pc, misled>> /\ Moves(c)
    BY EffectOfController DEF handler, Moves
  <1>2. job[c] \in Job /\ wanted[c] \in Nat /\ ran[c] \in Nat /\ job[c].upto \in Nat
    BY DEF TypeOK, Job, Batch
  <1>3. CASE c # d
    <2>1. job'[c] = job[c] /\ ran'[c] = ran[c] /\ \A p \in Pod : p.of = c => pod'[p] = pod[p]
      BY <1>3, EffectOfController DEF TypeOK
    <2> QED
      BY <1>1, <2>1, PodsKept, GoodKept
  <1>4. CASE c = d /\ StartPod(c)
    <2>1. PICK p \in Pod : p.of = c /\ pod[p] = "none" /\ pod' = [pod EXCEPT ![p] = "running"]
      BY <1>4 DEF StartPod, Forgotten
    <2>2. Running(c)' = Running(c) \cup {p} /\ Installing(c)' = Installing(c) \cup {p}
      BY <2>1 DEF Running, Installing, TypeOK
    <2>3. job[c].phase = "waiting" /\ ~job[c].deleting /\ Running(c) = {}
      BY <1>4 DEF StartPod, Good, Sane
    <2>4. job' = [job EXCEPT ![c] = [job[c] EXCEPT !.phase = "running"]] /\ ran' = ran
      BY <1>4 DEF StartPod
    <2>5. /\ job'[c].phase = "running" /\ job'[c].upto = job[c].upto
          /\ job'[c].deleting = job[c].deleting
      BY <1>2, <2>4 DEF TypeOK, Job
    <2>6. Sane(c)'
      BY <1>1, <2>2, <2>3, <2>5 DEF Good, Sane
    <2>7. ASSUME Sound(c)
          PROVE  Sound(c)'
      BY <1>1, <2>2, <2>3, <2>4, <2>5, <2>7 DEF Sound, Named, Clearing
    <2> QED
      BY <1>1, <2>6, <2>7 DEF Good
  <1>5. CASE c = d /\ PodSucceeds(c)
    <2>1. PICK p \in Running(c) : pod' = [pod EXCEPT ![p] = "finished"]
      BY <1>5 DEF PodSucceeds
    <2>2. Running(c)' = Running(c) \ {p} /\ Installing(c)' = Installing(c) \ {p}
      BY <2>1 DEF Running, Installing, TypeOK
    <2>3. job[c].phase = "running" /\ ~job[c].deleting /\ Running(c)' = {}
      BY <1>5, <2>1, <2>2 DEF PodSucceeds, Good, Sane
    <2>4. /\ job' = [job EXCEPT ![c] = [job[c] EXCEPT !.phase = "complete"]]
          /\ ran' = [ran EXCEPT ![c] = Greater(ran[c], job[c].upto)]
      BY <1>5 DEF PodSucceeds
    <2>5. /\ job'[c].phase = "complete" /\ job'[c].upto = job[c].upto
          /\ job'[c].deleting = job[c].deleting
      BY <1>2, <2>4 DEF TypeOK, Job
    <2>6. ran[c] <= ran'[c] /\ job[c].upto <= ran'[c] /\ ran'[c] \in Nat
      BY <1>2, <2>4 DEF Greater, TypeOK
    <2>7. Sane(c)'
      BY <1>1, <2>3 DEF Good, Sane
    <2>8. ASSUME Sound(c)
          PROVE  Sound(c)'
      <3>1. pc[c] \notin Clearing
        BY <2>3, <2>8 DEF Sound
      <3>2. Installing(c)' = {}
        BY <2>2, <2>3, <2>8 DEF Sound
      <3>3. status[c].installed \in Nat /\ status[c].installed <= ran'[c]
        BY <1>2, <2>6, <2>8 DEF Sound, TypeOK, Status, Batch
      <3>4. Named(c)' => status'[c].batch <= job'[c].upto
        BY <1>1, <2>3, <2>5, <2>8 DEF Sound, Named
      <3> QED
        BY <1>1, <2>3, <2>5, <2>6, <2>8, <3>1, <3>2, <3>3, <3>4 DEF Sound, Clearing
    <2> QED
      BY <1>1, <2>7, <2>8 DEF Good
  <1>6. CASE c = d /\ PodFails(c)
    <2>1. PICK p \in Running(c) : pod' = [pod EXCEPT ![p] = "finished"]
      BY <1>6 DEF PodFails
    <2>2. Running(c)' = Running(c) \ {p} /\ Installing(c)' = Installing(c) \ {p}
      BY <2>1 DEF Running, Installing, TypeOK
    <2>3. job'[c] = CountFailure(job[c]) /\ ran' = ran
      BY <1>6 DEF PodFails, TypeOK
    <2> QED
      BY <1>1, <2>2, <2>3, GoodAfterLoss
  <1>7. CASE c = d /\ JobGone(c)
    <2>1. job'[c] = NoJob /\ ran' = ran /\ job[c].deleting
      BY <1>7 DEF JobGone, TypeOK
    <2>2. Running(c)' = {} /\ Installing(c)' \subseteq Installing(c)
      BY <1>7 DEF JobGone, Running, Installing, TypeOK
    <2>3. Sane(c)'
      BY <1>1, <2>2 DEF Good, Sane
    <2>4. ASSUME Sound(c)
          PROVE  Sound(c)'
      <3>1. job[c].phase = "complete" /\ pc[c] # "name"
        BY <2>1, <2>4 DEF Sound
      <3>2. Running(c) = {}
        BY <3>1 DEF Good, Sane
      <3>3. Installing(c)' = {}
        BY <2>2, <2>4, <3>2 DEF Sound
      <3>4. Named(c) => status[c].batch \in Nat /\ status[c].batch <= ran[c]
        BY <1>2, <2>4, <3>1 DEF Sound, TypeOK, Status, Batch
      <3> QED
        BY <1>1, <2>1, <2>4, <3>1, <3>3, <3>4, TypeOfNoJob DEF Sound, Named
    <2> QED
      BY <1>1, <2>3, <2>4 DEF Good
  <1> QED
    BY <1>3, <1>4, <1>5, <1>6, <1>7 DEF JobController

LEMMA GoodStep == TypeOK /\ RanInv /\ [Next]_vars => RanInv'
  <1> SUFFICES ASSUME TypeOK, [Next]_vars, NEW c \in CR, Good(c)
               PROVE  Good(c)'
    BY GoodOfEach DEF RanInv, PodsInv, JobsInv, HandlerInv, GrowthInv, RecordedRan, Good, Sane,
                      Sound, Clearing
  <1>1. ASSUME NEW d \in CR, Begins(d) \/ Clears(d) \/ Record(d) \/ NameJob(d)
        PROVE  Good(c)'
    BY <1>1, GoodAfterBegins, GoodAfterClears, GoodAfterWrites
  <1>2. ASSUME NEW d \in CR, JobController(d)
        PROVE  Good(c)'
    BY <1>2, GoodAfterController
  <1>3. ASSUME NEW d \in CR, AddModules(d)
        PROVE  Good(c)'
    <2>1. UNCHANGED <<status, job, pod, ran, pc, misled>> /\ pc[d] = "idle"
      BY <1>3 DEF AddModules, handler
    <2>2. wanted[c] <= wanted'[c] /\ (c # d => wanted'[c] = wanted[c])
      BY <1>3, TypeOfAddModules
    <2>3. Running(c)' = Running(c) /\ Installing(c)' = Installing(c)
      BY <2>1, PodsKept
    <2>4. CASE c # d
      BY <2>1, <2>2, <2>3, <2>4, GoodKept DEF Moves
    <2>5. CASE c = d
      <3>1. {wanted[c], wanted'[c], status[c].batch} \subseteq Nat
        BY <1>3, TypeOfAddModules DEF TypeOK, Batch, Status
      <3>2. Sane(c)'
        BY <2>1, <2>2, <2>3, <3>1 DEF Good, Sane
      <3>3. Sound(c) => Sound(c)'
        BY <2>1, <2>3, <2>5 DEF Sound, Named, Clearing
      <3> QED
        BY <2>1, <3>2, <3>3 DEF Good
    <2> QED
      BY <2>4, <2>5
  <1>4. ASSUME NEW p \in Pod, PodDeleted(p)
        PROVE  Good(c)'
    BY <1>4, GoodAfterRemoval DEF PodDeleted, handler, Moves
  <1>5. ASSUME NEW p \in Pod, OrphanEnds(p)
        PROVE  Good(c)'
    <2>1. Running(c)' = Running(c) /\ Installing(c)' \subseteq Installing(c)
      BY <1>5 DEF OrphanEnds, Running, Installing, TypeOK
    <2> QED
      BY <1>5, <2>1, GoodKept DEF OrphanEnds, handler, Moves
  <1>6. CASE Crash
    <2>1. UNCHANGED <<wanted, status, job, pod, ran, misled>> /\ pc'[c] = "idle"
      BY <1>6 DEF Crash
    <2> QED
      BY <2>1, PodsKept, GoodKept DEF Moves
  <1>7. CASE UNCHANGED <<wanted, status, job, pod, ran, pc, misled>>
    BY <1>7, PodsKept, GoodKept DEF Moves
  <1> QED
    BY <1>1, <1>2, <1>3, <1>4, <1>5, <1>6, <1>7, Steps
       DEF Syncs, StallPods, SyncPods, SyncJob, vars, handler

LEMMA GoodInit == Init => RanInv
  <1> SUFFICES ASSUME Init, NEW c \in CR
               PROVE  Good(c)
    BY GoodOfEach
  <1>1. Running(c) = {} /\ Installing(c) = {}
    BY DEF Init, Running, Installing
  <1>2. job[c] = NoJob /\ status[c].installed = 0 /\ status[c].batch = 0 /\ ran[c] = 0
        /\ pc[c] = "idle" /\ wanted[c] = 1
    BY DEF Init
  <1> QED
    BY <1>1, <1>2, TypeOfNoJob DEF Good, Sane, Sound, Named, Clearing

LEMMA RanInvariant == Spec => []RanInv
  BY GoodInit, GoodStep, TypeCorrect, PTL DEF Spec

\* What a status records, a Job of that CR has installed, whoever deleted whichever
\* pods, unless the handler once took an earlier Job for one that was not done.
THEOREM RecordIsSound == Spec => []RecordedRan
  <1>1. RanInv => RecordedRan
    BY DEF RanInv
  <1> QED
    BY <1>1, RanInvariant, PTL

\* With the same exception, the handler of a CR deletes no pod of its own Job that is
\* still at work.
THEOREM KeepsOwnRun == Spec => OwnRunKept
  <1>1. RanInv => [\A c \in CR \ misled :
                       DeletePod(c) => \A p \in Running(c) : pod'[p] = pod[p]]_vars
    <2> SUFFICES ASSUME RanInv, NEW c \in CR \ misled, DeletePod(c)
                 PROVE  Running(c) = {}
      OBVIOUS
    <2>1. job[c].phase \in {"absent", "complete"}
      BY DEF RanInv, HandlerInv, DeletePod
    <2> QED
      BY <2>1 DEF RanInv, PodsInv
  <1> QED
    BY <1>1, RanInvariant, PTL DEF OwnRunKept

\* With the same exception, there is one pod at a time that installs for a CR: what
\* a Job leaves behind is done.
THEOREM OneAtATime == Spec => []OneInstaller
  <1>1. RanInv => OneInstaller
    BY DEF RanInv, PodsInv, JobsInv, OneInstaller
  <1> QED
    BY <1>1, RanInvariant, PTL

-----------------------------------------------------------------------------
(* The operator comes back to every CR that needs it *)

\* The invariant, of one CR.
Rests(c) == c \notin queued => /\ pc[c] = "idle"
                               /\ ~Missing(c) \/ (Named(c) /\ jobSeen[c] = "failed")

\* Nothing of the CR changes, but that it may be queued.
LEMMA RestsKept ==
    ASSUME NEW c \in CR, Rests(c), c \in queued => c \in queued',
           c \notin queued' => pc'[c] = pc[c],
           status'[c] = status[c], wanted'[c] = wanted[c], jobSeen'[c] = jobSeen[c]
    PROVE  Rests(c)'
  BY DEF Rests, Missing, Named

\* A CR that stays in the queue.
LEMMA RestsQueued ==
    ASSUME NEW c \in CR, c \in queued'
    PROVE  Rests(c)'
  BY DEF Rests

\* The handler begins: it leaves a CR that has nothing missing, or whose Job has
\* only lost pods so far.
LEMMA RestsAfterBegins ==
    ASSUME TypeOK, NEW c \in CR, Rests(c), NEW d \in CR, Begins(d)
    PROVE  Rests(c)'
  <1>1. UNCHANGED <<wanted, status, jobSeen>> /\ d \in queued
    BY DEF Begins, FindSucceeded, Waiting, InstallMissing, CallFails, Take, caches
  <1>2. CASE c # d
    <2>1. pc'[c] = pc[c] /\ (c \in queued => c \in queued')
      BY <1>2 DEF Begins, FindSucceeded, Waiting, InstallMissing, CallFails, CreateJob, Requeue,
                  handler, TypeOK
    <2> QED
      BY <1>1, <2>1, RestsKept
  <1>3. CASE c = d /\ UNCHANGED queued
    BY <1>1, <1>3, RestsQueued
  <1>4. CASE c = d /\ Waiting(d)
    <2>1. CASE jobSeen[c] = "active"
      BY <1>4, <2>1, RestsQueued DEF Waiting, Requeue
    <2>2. CASE jobSeen[c] = "failed"
      BY <1>1, <1>4, <2>2 DEF Waiting, Take, Rests, Named, handler
    <2> QED
      BY <1>4, <2>1, <2>2 DEF Waiting
  <1>5. CASE c = d /\ InstallMissing(d) /\ ~CreateJob(d)
    <2>1. CASE Missing(c)
      BY <1>5, <2>1, RestsQueued DEF InstallMissing, Requeue
    <2>2. CASE ~Missing(c)
      BY <1>1, <1>5, <2>2 DEF InstallMissing, Take, Rests, Missing
    <2> QED
      BY <2>1, <2>2
  <1> QED
    BY <1>2, <1>3, <1>4, <1>5 DEF Begins, FindSucceeded, CreateJob, CallFails

\* It has more to do, or ends: then it comes back.
LEMMA RestsAfterMore ==
    ASSUME TypeOK, NEW c \in CR, Rests(c), NEW d \in CR, Clears(d) \/ Record(d) \/ NameJob(d)
    PROVE  Rests(c)'
  <1>1. UNCHANGED <<wanted, jobSeen, queued>> /\ pc[d] # "idle"
    BY EffectOfClears DEF Record, NameJob, WriteStatus, caches, Clearing
  <1>2. CASE c = d
    BY <1>1, <1>2, RestsQueued DEF Rests
  <1>3. CASE c # d
    <2>1. pc'[c] = pc[c] /\ status'[c] = status[c]
      BY <1>3, EffectOfClears DEF Record, NameJob, WriteStatus, TypeOK
    <2> QED
      BY <1>1, <2>1, RestsKept
  <1> QED
    BY <1>2, <1>3

LEMMA RestStep == TypeOK /\ RestInv /\ [Next]_vars => RestInv'
  <1> SUFFICES ASSUME TypeOK, [Next]_vars, NEW c \in CR, Rests(c)
               PROVE  Rests(c)'
    BY DEF RestInv, Rests
  <1>1. ASSUME NEW d \in CR, Begins(d) \/ Clears(d) \/ Record(d) \/ NameJob(d)
        PROVE  Rests(c)'
    BY <1>1, RestsAfterBegins, RestsAfterMore
  <1>2. ASSUME NEW d \in CR, JobController(d)
        PROVE  Rests(c)'
    BY <1>2, EffectOfController, RestsKept DEF handler, caches
  <1>3. ASSUME NEW d \in CR, AddModules(d)
        PROVE  Rests(c)'
    <2>1. queued' = queued \cup {d} /\ UNCHANGED <<status, jobSeen, pc>>
      BY <1>3 DEF AddModules, handler, caches
    <2>2. c # d => wanted'[c] = wanted[c]
      BY <1>3, TypeOfAddModules
    <2> QED
      BY <2>1, <2>2, RestsKept, RestsQueued
  <1>4. ASSUME NEW d \in CR, SyncJob(d)
        PROVE  Rests(c)'
    <2>1. queued' = queued \cup {d} /\ UNCHANGED <<wanted, status, pc>>
      BY <1>4 DEF SyncJob, handler
    <2>2. c # d => jobSeen'[c] = jobSeen[c]
      BY <1>4 DEF SyncJob, TypeOK
    <2> QED
      BY <2>1, <2>2, RestsKept, RestsQueued
  <1>5. CASE Crash
    BY <1>5, RestsQueued DEF Crash
  <1>6. CASE UNCHANGED <<wanted, status, jobSeen, pc, queued>>
    BY <1>6, RestsKept
  <1> QED
    BY <1>1, <1>2, <1>3, <1>4, <1>5, <1>6, Steps
       DEF Syncs, StallPods, SyncPods, PodDeleted, OrphanEnds, vars, handler, caches

\* Whatever happens to the pods of any CR, whatever fails and whatever the handler
\* has taken for what, it leaves none alone that has modules missing and no Job which
\* will have news or has failed for good.
THEOREM SettlesRight == Spec => []Settled
  <1>1. Init => RestInv
    BY DEF Init, RestInv
  <1>2. RestInv => Settled
    BY DEF RestInv, Settled
  <1> QED
    BY <1>1, <1>2, RestStep, TypeCorrect, PTL DEF Spec
=============================================================================
