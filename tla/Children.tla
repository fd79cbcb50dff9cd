------------------------------ MODULE Children ------------------------------
(***************************************************************************)
(* The objects the operator keeps for an OdooDeployment (the CR) beside its *)
(* secrets: the filestore PVC, the Deployment and two Services              *)
(*   (reconcileloops/odoofilestore.go, deployment.go, httpservice.go,       *)
(*    pollservice.go), the watches on them (odoodeployment_controller.go:   *)
(* 224-317, 339-482), and what becomes of them when the CR is deleted.      *)
(*                                                                          *)
(* All modules are installed here, so that the handler never stops at the   *)
(* init Job (InitJob.tla); the secrets are in ConfigSecrets.tla.            *)
(***************************************************************************)
EXTENDS Naturals, FiniteSets

CONSTANTS
    Version,          \* the specs of a CR, as far as its children depend on them
    FirstVersions,    \* the ones users begin with
    Service,          \* the spec of a Service, the same for every CR
    Foreign,          \* a spec somebody else gave to a child
    NoSpec,           \* the spec of a child that does not exist
    MaxUid,           \* how often the CR is created
    Kinds,            \* the disturbances that may happen
    MaxDisturbances   \* how many of them

ASSUME SpecsAssumption ==
    /\ FirstVersions # {} /\ FirstVersions \subseteq Version
    /\ Service \notin Version
    /\ Foreign \notin Version \cup {Service}
    /\ NoSpec \notin Version \cup {Service, Foreign}
ASSUME BoundsAssumption == MaxUid \in Nat \ {0} /\ MaxDisturbances \in Nat

VARIABLES
    cr,        \* the CR in the API server
    crSeen,    \* the informer's copy of it
    child,     \* the children in the API server
    seen,      \* the informers' copies of them
    events,    \* what their undelivered changes will say
    pc,        \* the next loop of the handler
    mem,       \* the CR as the handler holds it
    queued,    \* the request is in the work queue
    budget     \* disturbances still allowed

vars == <<cr, crSeen, child, seen, events, pc, mem, queued, budget>>

-----------------------------------------------------------------------------
(* Data *)

Child == {"pvc", "deployment", "http", "poll"}
SpecOf == Version \cup {Service, Foreign, NoSpec}
Object == [exists : BOOLEAN, owner : 0..MaxUid, spec : SpecOf]    \* owner 0: none
NoObject == [exists |-> FALSE, owner |-> 0, spec |-> NoSpec]

\* The CR: its identity, its spec, and whether its status names the PVC.
CR == [exists : BOOLEAN, uid : 0..MaxUid, version : Version, named : BOOLEAN]

\* A change of a child tells the owner it had or has, and whoever uses its name.
Event == {"owned", "changed"}
Told(old, new) == {e \in Event : /\ old # new
                                 /\ e = "owned" => old.owner # 0 \/ new.owner # 0}

Put(k, new) ==
    /\ child' = [child EXCEPT ![k] = new]
    /\ events' = [events EXCEPT ![k] = @ \cup Told(child[k], new)]

Calm == UNCHANGED budget
Disturb(kind) == /\ kind \in Kinds
                 /\ budget > 0
                 /\ budget' = budget - 1

-----------------------------------------------------------------------------
(* The handler *)

\* GetPvcTemplate, GetDeploymentTemplate, GetHttpServiceTemplate, ...  What the
\* API server fills in by itself is in the templates or copied from the object.
Template(k, version) == IF k \in {"http", "poll"} THEN Service ELSE version

\* Mutant: the last status write is forgotten.
AfterWithoutSave == [pvc |-> "status", deployment |-> "http", http |-> "poll",
                     poll |-> "done"]

\* The order of the loops.
After == [pvc |-> "status", deployment |-> "http", http |-> "poll", poll |-> "save"]

\* Mutant: an error is logged and not returned.
FailSilently == /\ pc' = "idle"
                /\ UNCHANGED <<cr, child, events, mem, queued>>

Fail == /\ pc' = "idle"
        /\ queued' = TRUE
        /\ UNCHANGED <<cr, child, events, mem>>

\* A CR that is not there any more ends the run.
StartReconcile ==
    /\ pc = "idle"
    /\ queued
    /\ queued' = FALSE
    /\ mem' = crSeen
    /\ pc' = IF crSeen.exists THEN "pvc" ELSE "idle"
    /\ UNCHANGED <<cr, crSeen, child, seen, events, budget>>

\* A child that the cache does not know is created.  The PVC and the Deployment
\* get their owner; to a Service it is refused, for lack of a namespace yet
\* (httpservice.go:56, pollservice.go:56).
Create(k) ==
    /\ ~seen[k].exists
    /\ ~child[k].exists
    /\ Put(k, [exists |-> TRUE,
               owner |-> IF k \in {"pvc", "deployment"} THEN mem.uid ELSE 0,
               spec |-> Template(k, mem.version)])

\* Mutant: the PVC is updated like the others.
UpdateAll(k) ==
    /\ seen[k].exists
    /\ seen[k].spec # Template(k, mem.version)
    /\ child[k] = seen[k]
    /\ Put(k, [seen[k] EXCEPT !.owner = mem.uid,
                              !.spec = Template(k, mem.version)])

\* One that differs from its template is updated, the PVC excepted, and gets the
\* present CR as its owner: ctrl.SetControllerReference replaces the reference to an
\* earlier one of the name.
Update(k) ==
    /\ k # "pvc"
    /\ seen[k].exists
    /\ seen[k].spec # Template(k, mem.version)
    /\ child[k] = seen[k]
    /\ Put(k, [seen[k] EXCEPT !.owner = mem.uid,
                              !.spec = Template(k, mem.version)])

Keep(k) ==
    /\ seen[k].exists
    /\ k = "pvc" \/ seen[k].spec = Template(k, mem.version)
    /\ UNCHANGED <<child, events>>

\* The server refuses to create what exists and to update what has changed.
Refused(k) == \/ ~seen[k].exists /\ child[k].exists
              \/ /\ k # "pvc"
                 /\ seen[k].exists
                 /\ seen[k].spec # Template(k, mem.version)
                 /\ child[k] # seen[k]

ReconcileChild(k) ==
    /\ pc = k
    /\ \/ /\ Create(k) \/ Update(k) \/ Keep(k)
          /\ pc' = After[k]
          /\ Calm
          /\ UNCHANGED <<cr, mem, queued>>
       \/ Refused(k) /\ Fail /\ Calm
       \/ Fail /\ Disturb("apiError")
    /\ UNCHANGED <<crSeen, seen>>

\* The PVC's name goes into the status.  The write is refused if the CR is not
\* the one that was read; its error is dropped.
NamePvc ==
    /\ pc = "status"
    /\ pc' = "deployment"
    /\ \/ /\ cr = mem
          /\ cr' = [cr EXCEPT !.named = TRUE]
          /\ mem' = cr'
          /\ Calm
       \/ /\ IF cr = mem THEN Disturb("writeError") ELSE Calm
          /\ UNCHANGED <<cr, mem>>
    /\ UNCHANGED <<crSeen, child, seen, events, queued>>

\* The last status write, whose error is returned.
SaveStatus ==
    /\ pc = "save"
    /\ pc' = "idle"
    /\ \/ /\ cr = mem
          /\ cr' = [cr EXCEPT !.named = TRUE]
          /\ UNCHANGED queued
          /\ Calm
       \/ /\ IF cr = mem THEN Disturb("writeError") ELSE Calm
          /\ queued' = TRUE
          /\ UNCHANGED cr
    /\ UNCHANGED <<crSeen, child, seen, events, mem>>

Worker == \/ StartReconcile \/ NamePvc \/ SaveStatus
          \/ \E k \in Child : ReconcileChild(k)

Crash == Fail /\ Disturb("crash") /\ UNCHANGED <<crSeen, seen>>

-----------------------------------------------------------------------------
(* Watches *)

SyncCR ==
    /\ crSeen # cr
    /\ crSeen' = cr
    /\ queued' = TRUE
    /\ UNCHANGED <<cr, child, seen, events, pc, mem, budget>>

\* Mutant: only the HTTP service is looked up by name.
UsesHttpOnly(k) ==
    /\ crSeen.exists
    /\ k = "pvc" => crSeen.named
    /\ k # "poll"

\* UsesPVC, UsesDeployment, UsesService of a CR in the cache.
Uses(k) == crSeen.exists /\ (k = "pvc" => crSeen.named)

SyncChild(k) ==
    /\ events[k] # {}
    /\ seen' = [seen EXCEPT ![k] = child[k]]
    /\ events' = [events EXCEPT ![k] = {}]
    /\ queued' = (queued \/ "owned" \in events[k] \/ Uses(k))
    /\ UNCHANGED <<cr, crSeen, child, pc, mem, budget>>

Resync ==
    /\ ~queued
    /\ queued' = TRUE
    /\ UNCHANGED <<cr, crSeen, child, seen, events, pc, mem, budget>>

Watches == SyncCR \/ \E k \in Child : SyncChild(k)

-----------------------------------------------------------------------------
(* The user and the garbage collector *)

\* The spec of the CR changes.
EditCR ==
    /\ Disturb("edit")
    /\ cr.exists
    /\ \E v \in Version : cr' = [cr EXCEPT !.version = v]
    /\ UNCHANGED <<crSeen, child, seen, events, pc, mem, queued>>

\* Deletion takes effect at once: no finalizer is set.
DeleteCR ==
    /\ Disturb("delete")
    /\ cr.exists
    /\ cr' = [cr EXCEPT !.exists = FALSE, !.named = FALSE]
    /\ UNCHANGED <<crSeen, child, seen, events, pc, mem, queued>>

RecreateCR ==
    /\ ~cr.exists
    /\ cr.uid < MaxUid
    /\ \E v \in Version :
          cr' = [exists |-> TRUE, uid |-> cr.uid + 1, version |-> v, named |-> FALSE]
    /\ UNCHANGED <<crSeen, child, seen, events, pc, mem, queued, budget>>

\* Somebody changes, creates or deletes a child; the PVC's spec is immutable.
TamperChild(k) ==
    /\ Disturb("tamper")
    /\ \/ /\ k # "pvc" \/ ~child[k].exists
          /\ Put(k, [exists |-> TRUE, owner |-> child[k].owner, spec |-> Foreign])
       \/ child[k].exists /\ Put(k, NoObject)
    /\ UNCHANGED <<cr, crSeen, seen, pc, mem, queued>>

\* The garbage collector deletes what is owned by a CR that is no more.
Dangling(k) == child[k].owner # 0 /\ ~(cr.exists /\ cr.uid = child[k].owner)
Collect(k) ==
    /\ Dangling(k)
    /\ Put(k, NoObject)
    /\ UNCHANGED <<cr, crSeen, seen, pc, mem, queued, budget>>

Environment == \/ EditCR \/ DeleteCR \/ RecreateCR
               \/ \E k \in Child : TamperChild(k) \/ Collect(k)

-----------------------------------------------------------------------------
Init ==
    /\ \E v \in FirstVersions :
          cr = [exists |-> TRUE, uid |-> 1, version |-> v, named |-> FALSE]
    /\ crSeen = cr
    /\ child = [k \in Child |-> NoObject]
    /\ seen = child
    /\ events = [k \in Child |-> {}]
    /\ pc = "idle"
    /\ mem = cr
    /\ queued = TRUE
    /\ budget = MaxDisturbances

Next == Worker \/ Crash \/ Watches \/ Resync \/ Environment

Spec == Init /\ [][Next]_vars

\* As in ConfigSecrets; the garbage collector does its work too.
Fairness == /\ WF_vars(Worker)
            /\ WF_vars(SyncCR)
            /\ WF_vars(\E k \in Child : SyncChild(k))
            /\ WF_vars(\E k \in Child : Collect(k))

FairSpec == Spec /\ Fairness

-----------------------------------------------------------------------------
(* Properties *)

TypeOK ==
    /\ {cr, crSeen, mem} \subseteq CR
    /\ {child, seen} \subseteq [Child -> Object]
    /\ events \in [Child -> SUBSET Event]
    /\ pc \in Child \cup {"idle", "status", "save"}
    /\ queued \in BOOLEAN
    /\ budget \in 0..MaxDisturbances

\* Nothing is queued, under way, undelivered or uncollected.
Quiet == /\ pc = "idle"
         /\ ~queued
         /\ crSeen = cr
         /\ \A k \in Child : events[k] = {} /\ ~Dangling(k)

Right == \A k \in Child :
            /\ child[k].exists
            /\ k # "pvc" => child[k].spec = Template(k, cr.version)

\* When everything has calmed down, every child of a CR exists and is as its spec
\* says, whoever changed or deleted it, the garbage collector of an earlier CR of
\* that name included (Reconcile, UsesPVC, UsesDeployment, UsesService).
Settled == Quiet /\ cr.exists => Right

\* A CR that is left alone gets all its children, and keeps them.
Restored == <>[]cr.exists => <>[]Right

\* "Here we do not try to update the PVC" (odoofilestore.go:49): a claim is never
\* changed by the operator, nor replaced when its cache does not know it yet.
ClaimKept ==
    [][Worker /\ child["pvc"].exists => child'["pvc"] = child["pvc"]]_vars

\* "manages the full lifecycle of Odoo deployments" (README.md:2): a deleted CR
\* leaves nothing behind that the operator made.
NoLeftovers == Quiet /\ ~cr.exists => \A k \in Child : ~child[k].exists

-----------------------------------------------------------------------------
(* Inductive invariant (proved in ChildrenProofs)                           *)

\* The handler is going to run: the request is queued, or a change is on its way
\* that will queue it.
Stirring == \/ queued
            \/ \E k \in Child : \/ "owned" \in events[k]
                                \/ events[k] # {} /\ Uses(k)

\* Copies differ from their objects only as long as an event is on its way, and
\* a copy of the CR is never ahead of it.
CachesInv == /\ \A k \in Child : seen[k] # child[k] => events[k] # {}
             /\ crSeen.uid <= cr.uid

\* A run that nothing has overtaken works on the CR in the cache; one that came
\* to its end has named the PVC, in the incarnation it was about.
RunInv == /\ pc # "idle" /\ ~queued => crSeen.exists /\ mem.version = crSeen.version
          /\ pc = "idle" /\ ~queued /\ crSeen.exists /\ cr.exists /\ crSeen.uid = cr.uid
             => cr.named

\* The children the handler is past, by its place.
Passed == [idle |-> Child, pvc |-> {}, status |-> {"pvc"}, deployment |-> {"pvc"},
           http |-> {"pvc", "deployment"}, poll |-> {"pvc", "deployment", "http"},
           save |-> Child]

\* Unless the handler is going to run anyway, the children it is past are right.
\* The PVC is watched by name only when the CR in the cache names it.
PassedInv ==
    ~Stirring /\ crSeen.exists =>
        \A k \in Passed[pc] :
            /\ k # "pvc" \/ crSeen.named => child[k].exists
            /\ k # "pvc" => child[k].spec = Template(k, crSeen.version)

SettleInv == CachesInv /\ RunInv /\ PassedInv
=============================================================================
