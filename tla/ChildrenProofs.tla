--------------------------- MODULE ChildrenProofs ---------------------------
(***************************************************************************)
(* Theorems about Children, for every set of specs of a CR and every number *)
(* of incarnations and disturbances.                                        *)
(***************************************************************************)
EXTENDS Children, TLAPS

-----------------------------------------------------------------------------
(* Type correctness *)

\* A write of a child keeps the types of children and events.
LEMMA TypeOfPut ==
    ASSUME TypeOK, NEW k \in Child, NEW new \in Object, Put(k, new)
    PROVE  child' \in [Child -> Object] /\ events' \in [Child -> SUBSET Event]
  <1>1. Told(child[k], new) \in SUBSET Event
    BY DEF Told
  <1> QED
    BY <1>1 DEF TypeOK, Put

\* A disturbance is taken from the budget, a calm step leaves it.
LEMMA TypeOfBudget ==
    ASSUME budget \in 0..MaxDisturbances, Calm \/ \E kind : Disturb(kind)
    PROVE  budget' \in 0..MaxDisturbances
  BY BoundsAssumption DEF Calm, Disturb

LEMMA TypeOfTemplate ==
    ASSUME NEW k, NEW v \in Version
    PROVE  Template(k, v) \in SpecOf
  BY DEF Template, SpecOf

LEMMA TypeOfReconcileChild ==
    ASSUME TypeOK, NEW k \in Child, ReconcileChild(k)
    PROVE  TypeOK'
  <1> USE DEF TypeOK
  <1>1. mem.uid \in 0..MaxUid /\ mem.version \in Version
    BY DEF CR
  <1>2. seen[k] \in Object
    OBVIOUS
  <1>3. Template(k, mem.version) \in SpecOf
    BY <1>1, TypeOfTemplate
  <1>4. [exists |-> TRUE, owner |-> IF k \in {"pvc", "deployment"} THEN mem.uid ELSE 0,
         spec |-> Template(k, mem.version)] \in Object
    BY <1>1, <1>3, BoundsAssumption DEF Object
  <1>5. mem.uid \in 0..MaxUid
    BY <1>1
  <1>6. [seen[k] EXCEPT !.owner = mem.uid,
                        !.spec = Template(k, mem.version)] \in Object
    BY <1>2, <1>3, <1>5 DEF Object
  <1>7. Create(k) => child' \in [Child -> Object] /\ events' \in [Child -> SUBSET Event]
    BY <1>4, TypeOfPut DEF Create
  <1>8. Update(k) => child' \in [Child -> Object] /\ events' \in [Child -> SUBSET Event]
    BY <1>6, TypeOfPut DEF Update
  <1>9. child' \in [Child -> Object] /\ events' \in [Child -> SUBSET Event]
    BY <1>7, <1>8 DEF ReconcileChild, Keep, Fail
  <1>10. budget' \in 0..MaxDisturbances
    BY TypeOfBudget DEF ReconcileChild
  <1>11. pc' \in Child \cup {"idle", "status", "save"}
    BY DEF ReconcileChild, Fail, After, Child
  <1>12. {cr, crSeen, mem}' \subseteq CR /\ seen' \in [Child -> Object] /\ queued' \in BOOLEAN
    BY DEF ReconcileChild, Fail
  <1> QED
    BY <1>9, <1>10, <1>11, <1>12

\* The handler's steps that write the CR.
LEMMA TypeOfStatusWrites ==
    ASSUME TypeOK, NamePvc \/ SaveStatus
    PROVE  TypeOK'
  <1> USE DEF TypeOK
  <1>1. [cr EXCEPT !.named = TRUE] \in CR
    BY DEF CR
  <1>2. budget' \in 0..MaxDisturbances
    <2>1. Calm \/ \E kind : Disturb(kind)
      BY DEF NamePvc, SaveStatus
    <2> QED
      BY <2>1, TypeOfBudget
  <1>3. CASE NamePvc
    BY <1>1, <1>2, <1>3 DEF NamePvc, Child
  <1>4. CASE SaveStatus
    BY <1>1, <1>2, <1>4 DEF SaveStatus
  <1> QED
    BY <1>3, <1>4

\* Users and the garbage collector.
LEMMA TypeOfEnvironment ==
    ASSUME TypeOK, Environment
    PROVE  TypeOK'
  <1> USE DEF TypeOK
  <1>1. CASE EditCR \/ DeleteCR
    <2>1. cr' \in CR
      BY <1>1 DEF EditCR, DeleteCR, CR
    <2>2. budget' \in 0..MaxDisturbances
      BY <1>1, TypeOfBudget DEF EditCR, DeleteCR
    <2> QED
      BY <1>1, <2>1, <2>2 DEF EditCR, DeleteCR
  <1>2. CASE RecreateCR
    <2>1. cr' \in CR
      BY <1>2, BoundsAssumption DEF RecreateCR, CR
    <2> QED
      BY <1>2, <2>1 DEF RecreateCR
  <1>3. NoObject \in Object
    BY BoundsAssumption DEF NoObject, Object, SpecOf
  <1>4. ASSUME NEW k \in Child, TamperChild(k)
        PROVE  TypeOK'
    <2>1. [exists |-> TRUE, owner |-> child[k].owner, spec |-> Foreign] \in Object
      BY DEF Object, SpecOf
    <2>2. child' \in [Child -> Object] /\ events' \in [Child -> SUBSET Event]
      BY <1>3, <1>4, <2>1, TypeOfPut DEF TamperChild
    <2>3. budget' \in 0..MaxDisturbances
      BY <1>4, TypeOfBudget DEF TamperChild
    <2> QED
      BY <1>4, <2>2, <2>3 DEF TamperChild
  <1>5. ASSUME NEW k \in Child, Collect(k)
        PROVE  TypeOK'
    <2>1. child' \in [Child -> Object] /\ events' \in [Child -> SUBSET Event]
      BY <1>3, <1>5, TypeOfPut DEF Collect
    <2> QED
      BY <1>5, <2>1 DEF Collect
  <1> QED
    BY <1>1, <1>2, <1>4, <1>5 DEF Environment

\* Every step keeps the types.
LEMMA TypeStep == TypeOK /\ [Next]_vars => TypeOK'
  <1> SUFFICES ASSUME TypeOK, [Next]_vars
               PROVE  TypeOK'
    OBVIOUS
  <1>1. CASE StartReconcile
    BY <1>1 DEF StartReconcile, TypeOK, Child
  <1>2. CASE NamePvc \/ SaveStatus
    BY <1>2, TypeOfStatusWrites
  <1>3. ASSUME NEW k \in Child, ReconcileChild(k)
        PROVE  TypeOK'
    BY <1>3, TypeOfReconcileChild
  <1>4. CASE Crash
    BY <1>4, TypeOfBudget DEF Crash, Fail, TypeOK
  <1>5. CASE SyncCR \/ Resync
    BY <1>5 DEF SyncCR, Resync, TypeOK
  <1>6. ASSUME NEW k \in Child, SyncChild(k)
        PROVE  TypeOK'
    <2>1. queued' \in BOOLEAN
      BY <1>6 DEF SyncChild, TypeOK, Uses, CR
    <2> QED
      BY <1>6, <2>1 DEF SyncChild, TypeOK
  <1>7. CASE Environment
    BY <1>7, TypeOfEnvironment
  <1>8. CASE UNCHANGED vars
    BY <1>8 DEF vars, TypeOK
  <1> QED
    BY <1>1, <1>2, <1>3, <1>4, <1>5, <1>6, <1>7, <1>8 DEF Next, Worker, Watches

LEMMA TypeInit == Init => TypeOK
  <1> SUFFICES ASSUME Init
               PROVE  TypeOK
    OBVIOUS
  <1>1. cr \in CR
    BY SpecsAssumption, BoundsAssumption DEF Init, CR
  <1>2. child \in [Child -> Object]
    BY BoundsAssumption DEF Init, NoObject, Object, SpecOf
  <1> QED
    BY <1>1, <1>2, BoundsAssumption DEF Init, TypeOK

\* Every variable keeps its type, whatever users, crashes and the garbage
\* collector do.
THEOREM TypeCorrect == Spec => []TypeOK
  BY TypeInit, TypeStep, PTL DEF Spec

-----------------------------------------------------------------------------
(* The claim *)

\* No step of the handler changes a claim that exists (odoofilestore.go:49).
THEOREM ClaimIsKept == Spec => ClaimKept
  <1>1. TypeOK /\ [Next]_vars
        => [Worker /\ child["pvc"].exists => child'["pvc"] = child["pvc"]]_vars
    <2> SUFFICES ASSUME TypeOK, Worker, child["pvc"].exists
                 PROVE  child'["pvc"] = child["pvc"]
      OBVIOUS
    <2>1. ASSUME NEW k \in Child, ReconcileChild(k)
          PROVE  child'["pvc"] = child["pvc"]
      <3>1. k # "pvc" => \A new : Put(k, new) => child'["pvc"] = child["pvc"]
        BY DEF TypeOK, Put, Child
      <3>2. k = "pvc" => ~Create(k) /\ ~Update(k)
        BY DEF Create, Update
      <3>3. Create(k) \/ Update(k) => child'["pvc"] = child["pvc"]
        BY <3>1, <3>2 DEF Create, Update
      <3> QED
        BY <2>1, <3>3 DEF ReconcileChild, Keep, Fail
    <2> QED
      BY <2>1 DEF Worker, StartReconcile, NamePvc, SaveStatus
  <1> QED
    BY <1>1, TypeCorrect, PTL DEF Spec, ClaimKept

-----------------------------------------------------------------------------
(* Settling *)

\* A write that changes a child leaves an event, and no event is taken back.
LEMMA PutTells ==
    ASSUME TypeOK, NEW k \in Child, NEW new \in Object, Put(k, new)
    PROVE  /\ child'[k] = new
           /\ \A j \in Child : j # k => child'[j] = child[j]
           /\ \A j \in Child : events[j] \subseteq events'[j]
           /\ child[k] # new => events'[k] # {}
  <1>1. child'[k] = new /\ \A j \in Child : j # k => child'[j] = child[j]
    BY DEF TypeOK, Put
  <1>2. events'[k] = events[k] \cup Told(child[k], new)
    BY DEF TypeOK, Put
  <1>3. \A j \in Child : j # k => events'[j] = events[j]
    BY DEF TypeOK, Put
  <1>4. child[k] # new => "changed" \in Told(child[k], new)
    BY DEF Told, Event
  <1> QED
    BY <1>1, <1>2, <1>3, <1>4

\* What a write of a child keeps, and what it stirs.
LEMMA PutStirs ==
    ASSUME TypeOK, NEW k \in Child, NEW new \in Object, Put(k, new),
           queued' = queued, crSeen' = crSeen
    PROVE  /\ Stirring => Stirring'
           /\ child'[k] = child[k] \/ Stirring' \/ ~Uses(k)
  <1>1. \A j \in Child : Uses(j)' <=> Uses(j)
    BY DEF Uses
  <1>2. \A j \in Child : events[j] \subseteq events'[j]
    BY PutTells
  <1>3. child'[k] # child[k] => events'[k] # {}
    BY PutTells
  <1> QED
    BY <1>1, <1>2, <1>3 DEF Stirring

\* The caches after a write, or when nothing is written.
LEMMA CachesAfterPut ==
    ASSUME TypeOK, CachesInv, NEW k \in Child, NEW new \in Object, Put(k, new),
           seen' = seen
    PROVE  \A j \in Child : seen'[j] # child'[j] => events'[j] # {}
  BY PutTells DEF CachesInv

\* A step of the handler for one child, by its outcome.
LEMMA Outcome ==
    ASSUME TypeOK, NEW k \in Child, ReconcileChild(k)
    PROVE  \/ queued' = TRUE /\ pc' = "idle" /\ UNCHANGED <<cr, crSeen, child, seen, events>>
           \/ /\ pc = k /\ pc' = After[k]
              /\ UNCHANGED <<cr, crSeen, seen, mem, queued>>
              /\ \/ Keep(k)
                 \/ \E new \in Object : /\ Put(k, new)
                                        /\ new.exists
                                        /\ new.spec = Template(k, mem.version)
  <1>1. mem.uid \in 0..MaxUid /\ mem.version \in Version
    BY DEF TypeOK, CR
  <1>2. seen[k] \in Object
    BY DEF TypeOK
  <1>3. Template(k, mem.version) \in SpecOf
    BY <1>1, TypeOfTemplate
  <1>4. ASSUME Create(k)
        PROVE  \E new \in Object : /\ Put(k, new) /\ new.exists
                                   /\ new.spec = Template(k, mem.version)
    <2> DEFINE new == [exists |-> TRUE,
                       owner |-> IF k \in {"pvc", "deployment"} THEN mem.uid ELSE 0,
                       spec |-> Template(k, mem.version)]
    <2>1. new \in Object
      BY <1>1, <1>3, BoundsAssumption DEF Object
    <2>2. Put(k, new)
      BY <1>4 DEF Create
    <2> QED
      BY <2>1, <2>2
  <1>5. ASSUME Update(k)
        PROVE  \E new \in Object : /\ Put(k, new) /\ new.exists
                                   /\ new.spec = Template(k, mem.version)
    <2> DEFINE new == [seen[k] EXCEPT !.owner = mem.uid,
                                      !.spec = Template(k, mem.version)]
    <2>1. mem.uid \in 0..MaxUid
      BY <1>1
    <2>2. new \in Object
      BY <1>2, <1>3, <2>1 DEF Object
    <2>3. new.exists /\ new.spec = Template(k, mem.version)
      BY <1>2, <1>5 DEF Object, Update
    <2>4. Put(k, new)
      BY <1>5 DEF Update
    <2> QED
      BY <2>2, <2>3, <2>4
  <1> QED
    BY <1>4, <1>5 DEF ReconcileChild, Fail

\* Steps that write a child, users' and the collector's.
LEMMA EnvironmentPuts ==
    ASSUME TypeOK, NEW k \in Child, TamperChild(k) \/ Collect(k)
    PROVE  /\ \E new \in Object : Put(k, new)
           /\ UNCHANGED <<cr, crSeen, seen, pc, mem, queued>>
  <1>1. NoObject \in Object
    BY BoundsAssumption DEF NoObject, Object, SpecOf
  <1>2. [exists |-> TRUE, owner |-> child[k].owner, spec |-> Foreign] \in Object
    BY DEF TypeOK, Object, SpecOf
  <1> QED
    BY <1>1, <1>2 DEF TamperChild, Collect

\* A cached copy of a child that is out of date has an event on its way.
LEMMA CachesStep == TypeOK /\ CachesInv /\ [Next]_vars => CachesInv'
  <1> SUFFICES ASSUME TypeOK, CachesInv, [Next]_vars
               PROVE  CachesInv'
    OBVIOUS
  <1> DEFINE Told1 == \A k \in Child : seen[k] # child[k] => events[k] # {}
             Behind == crSeen.uid <= cr.uid
  <1>1. Told1 /\ Behind
    BY DEF CachesInv
  <1>2. Told1'
    <2>1. ASSUME NEW k \in Child, NEW new \in Object, Put(k, new), seen' = seen
          PROVE  Told1'
      BY <2>1, CachesAfterPut
    <2>2. ASSUME NEW k \in Child, ReconcileChild(k)
          PROVE  Told1'
      <3>1. CASE UNCHANGED <<child, seen, events>>
        BY <1>1, <3>1
      <3>2. CASE \E new \in Object : Put(k, new) /\ seen' = seen
        BY <2>1, <3>2
      <3> QED
        BY <2>2, <3>1, <3>2, Outcome DEF Keep
    <2>3. ASSUME NEW k \in Child, SyncChild(k)
          PROVE  Told1'
      BY <1>1, <2>3 DEF SyncChild, TypeOK
    <2>4. ASSUME NEW k \in Child, TamperChild(k) \/ Collect(k)
          PROVE  Told1'
      BY <2>1, <2>4, EnvironmentPuts
    <2>5. CASE UNCHANGED <<child, seen, events>>
      BY <1>1, <2>5
    <2>6. \/ UNCHANGED <<child, seen, events>>
          \/ \E k \in Child : \/ ReconcileChild(k) \/ SyncChild(k)
                              \/ TamperChild(k) \/ Collect(k)
      BY DEF Next, Worker, StartReconcile, NamePvc, SaveStatus, Crash, Fail, Watches,
             SyncCR, Resync, Environment, EditCR, DeleteCR, RecreateCR, vars
    <2> QED
      BY <2>2, <2>3, <2>4, <2>5, <2>6
  <1>3. Behind'
    <2>1. cr.uid \in Nat /\ crSeen.uid \in Nat
      BY DEF TypeOK, CR
    <2>2. (crSeen' = cr /\ cr' = cr) \/ crSeen' = crSeen
      BY DEF Next, Worker, ReconcileChild, Fail, StartReconcile, NamePvc, SaveStatus, Crash,
             Watches, SyncCR, SyncChild, Resync, Environment, EditCR, DeleteCR, RecreateCR,
             TamperChild, Collect, vars
    <2>3. cr'.uid = cr.uid \/ cr'.uid = cr.uid + 1
      <3>1. \A v : [cr EXCEPT !.version = v].uid = cr.uid
        BY DEF TypeOK, CR
      <3>2. [cr EXCEPT !.named = TRUE].uid = cr.uid
        BY DEF TypeOK, CR
      <3>3. [cr EXCEPT !.exists = FALSE, !.named = FALSE].uid = cr.uid
        BY DEF TypeOK, CR
      <3>4. CASE NamePvc \/ SaveStatus
        BY <3>2, <3>4 DEF NamePvc, SaveStatus
      <3>5. CASE EditCR \/ DeleteCR
        BY <3>1, <3>3, <3>5 DEF EditCR, DeleteCR
      <3>6. CASE RecreateCR
        BY <3>6 DEF RecreateCR
      <3>7. CASE cr' = cr
        BY <3>7
      <3>8. NamePvc \/ SaveStatus \/ EditCR \/ DeleteCR \/ RecreateCR \/ cr' = cr
        BY DEF Next, Worker, ReconcileChild, Fail, StartReconcile, Crash, Watches, SyncCR,
               SyncChild, Resync, Environment, TamperChild, Collect, vars
      <3> QED
        BY <3>4, <3>5, <3>6, <3>7, <3>8
    <2> QED
      BY <1>1, <2>1, <2>2, <2>3
  <1> QED
    BY <1>2, <1>3 DEF CachesInv

\* The run that nothing has overtaken.
LEMMA RunStep == TypeOK /\ CachesInv /\ RunInv /\ [Next]_vars => RunInv'
  <1> SUFFICES ASSUME TypeOK, CachesInv, RunInv, [Next]_vars
               PROVE  RunInv'
    OBVIOUS
  <1> USE DEF RunInv
  <1>1. cr \in CR /\ mem \in CR /\ crSeen \in CR
    BY DEF TypeOK
  <1>2. CASE queued' = TRUE
    BY <1>2
  <1>3. CASE StartReconcile
    BY <1>3 DEF StartReconcile
  <1>4. ASSUME NEW k \in Child, ReconcileChild(k)
        PROVE  RunInv'
    <2>1. After[k] # "idle" /\ k # "idle"
      BY DEF After, Child
    <2> QED
      BY <1>2, <1>4, <2>1, Outcome
  <1>5. CASE NamePvc
    <2>1. mem'.version = mem.version
      BY <1>1, <1>5 DEF NamePvc, CR
    <2> QED
      BY <1>5, <2>1 DEF NamePvc
  <1>6. CASE SaveStatus
    <2>1. [cr EXCEPT !.named = TRUE].named = TRUE
      BY <1>1 DEF CR
    <2>2. queued' = TRUE \/ cr'.named
      BY <1>6, <2>1 DEF SaveStatus
    <2> QED
      BY <1>2, <1>6, <2>2 DEF SaveStatus
  <1>7. CASE EditCR \/ DeleteCR
    <2>1. UNCHANGED <<crSeen, pc, mem, queued>>
      BY <1>7 DEF EditCR, DeleteCR
    <2>2. cr'.exists => cr.exists /\ cr'.uid = cr.uid /\ cr'.named = cr.named
      BY <1>1, <1>7 DEF EditCR, DeleteCR, CR
    <2> QED
      BY <2>1, <2>2
  <1>8. CASE RecreateCR
    <2>1. UNCHANGED <<crSeen, pc, mem, queued>> /\ cr'.uid = cr.uid + 1
      BY <1>8 DEF RecreateCR
    <2>2. crSeen.uid # cr'.uid
      BY <1>1, <2>1 DEF CachesInv, CR
    <2> QED
      BY <2>1, <2>2
  <1>9. ASSUME NEW k \in Child, SyncChild(k)
        PROVE  RunInv'
    <2>1. UNCHANGED <<cr, crSeen, pc, mem>> /\ (~queued' => ~queued)
      BY <1>9 DEF SyncChild
    <2> QED
      BY <2>1
  <1>10. CASE UNCHANGED <<cr, crSeen, pc, mem, queued>>
    BY <1>10
  <1>11. \/ queued' = TRUE \/ UNCHANGED <<cr, crSeen, pc, mem, queued>>
         \/ StartReconcile \/ NamePvc \/ SaveStatus \/ EditCR \/ DeleteCR \/ RecreateCR
         \/ \E k \in Child : ReconcileChild(k) \/ SyncChild(k)
    BY DEF Next, Worker, Crash, Fail, Watches, SyncCR, Resync, Environment, TamperChild,
           Collect, vars
  <1> QED
    BY <1>2, <1>3, <1>4, <1>5, <1>6, <1>7, <1>8, <1>9, <1>10, <1>11

\* What the children the handler is past are to be.
LEMMA PassedStep ==
    TypeOK /\ CachesInv /\ RunInv /\ PassedInv /\ [Next]_vars => PassedInv'
  <1> SUFFICES ASSUME TypeOK, CachesInv, RunInv, PassedInv, [Next]_vars,
                      ~Stirring', crSeen'.exists,
                      NEW k \in Passed'[pc']
               PROVE  /\ k # "pvc" \/ crSeen'.named => child'[k].exists
                      /\ k # "pvc" => child'[k].spec = Template(k, crSeen'.version)
    BY DEF PassedInv
  <1> DEFINE Good == /\ k # "pvc" \/ crSeen.named => child[k].exists
                     /\ k # "pvc" => child[k].spec = Template(k, crSeen.version)
  <1>0. Passed' = Passed /\ k \in Child
    <2>1. pc' \in Child \cup {"idle", "status", "save"}
      BY TypeStep DEF TypeOK
    <2> QED
      BY <2>1 DEF Passed, Child
  <1>1. ~queued' /\ queued' \in BOOLEAN
    BY TypeStep DEF Stirring, TypeOK
  <1>2. crSeen' = crSeen
    BY <1>1 DEF Next, Worker, ReconcileChild, Fail, StartReconcile, NamePvc, SaveStatus,
           Crash, Watches, SyncCR, SyncChild, Resync, Environment, EditCR, DeleteCR,
           RecreateCR, TamperChild, Collect, vars
  <1>3. SUFFICES Good'
    BY <1>2
  <1>4. ~Stirring /\ k \in Passed[pc] => Good
    BY <1>2 DEF PassedInv
  <1>5. ASSUME UNCHANGED <<child, events>>, ~queued, k \in Passed[pc]
        PROVE  Good'
    <2>1. ~Stirring
      BY <1>1, <1>2, <1>5 DEF Stirring, Uses
    <2> QED
      BY <1>2, <1>4, <1>5, <2>1
  <1>6. CASE StartReconcile
    BY <1>0, <1>2, <1>6 DEF StartReconcile, Passed
  <1>7. ASSUME NEW c \in Child, ReconcileChild(c)
        PROVE  Good'
    <2>1. /\ pc = c /\ pc' = After[c]
          /\ UNCHANGED <<cr, crSeen, seen, mem, queued>>
          /\ \/ Keep(c)
             \/ \E new \in Object : /\ Put(c, new)
                                    /\ new.exists
                                    /\ new.spec = Template(c, mem.version)
      BY <1>1, <1>7, Outcome
    <2>2. k \in Passed[c] \cup {c}
      BY <1>0, <2>1 DEF After, Passed, Child
    <2>3. c \in Child \ Passed[c] /\ c # "idle"
      BY DEF Passed, Child
    <2>4. mem.version = crSeen.version
      BY <1>1, <2>1, <2>3 DEF RunInv
    <2>5. ~Stirring
      <3>1. CASE Keep(c)
        BY <1>1, <1>2, <2>1, <3>1 DEF Keep, Stirring, Uses
      <3>2. CASE \E new \in Object : Put(c, new)
        BY <1>2, <2>1, <3>2, PutStirs
      <3> QED
        BY <2>1, <3>1, <3>2
    <2>6. CASE k # c
      <3>1. child'[k] = child[k]
        BY <1>0, <2>1, <2>6, PutTells DEF Keep
      <3> QED
        BY <1>2, <1>4, <2>1, <2>2, <2>5, <2>6, <3>1
    <2>7. CASE k = c
      <3>1. CASE \E new \in Object : /\ Put(c, new)
                                     /\ new.exists
                                     /\ new.spec = Template(c, mem.version)
        BY <1>2, <2>4, <2>7, <3>1, PutTells
      <3>2. CASE Keep(c)
        <4>1. seen[c] # child[c] => ~Uses(c)
          BY <2>5 DEF CachesInv, Stirring
        <4>2. Good
          BY <1>2, <2>4, <2>7, <3>2, <4>1 DEF Keep, Uses
        <4> QED
          BY <1>2, <3>2, <4>2 DEF Keep
      <3> QED
        BY <2>1, <3>1, <3>2
    <2> QED
      BY <2>6, <2>7
  <1>8. CASE NamePvc
    <2>1. Passed[pc'] = Passed[pc] /\ UNCHANGED <<child, events, queued>>
      BY <1>8 DEF NamePvc, Passed
    <2> QED
      BY <1>0, <1>1, <1>5, <2>1
  <1>9. CASE SaveStatus
    <2>1. Passed[pc'] = Passed[pc] /\ UNCHANGED <<child, events>> /\ ~queued
      BY <1>1, <1>9 DEF SaveStatus, Passed
    <2> QED
      BY <1>0, <1>5, <2>1
  <1>10. ASSUME NEW c \in Child, SyncChild(c)
         PROVE  Good'
    <2>1. /\ ~queued /\ "owned" \notin events[c] /\ ~Uses(c)
          /\ UNCHANGED <<child, pc>>
      BY <1>1, <1>10 DEF SyncChild
    <2>2. \A j \in Child : j # c => events'[j] = events[j]
      BY <1>10 DEF SyncChild, TypeOK
    <2>3. ~Stirring
      BY <1>2, <2>1, <2>2 DEF Stirring, Uses
    <2> QED
      BY <1>0, <1>2, <1>4, <2>1, <2>3
  <1>11. ASSUME NEW c \in Child, TamperChild(c) \/ Collect(c)
         PROVE  Good'
    <2>1. PICK new \in Object : Put(c, new)
      BY <1>11, EnvironmentPuts
    <2>2. UNCHANGED <<crSeen, pc, queued>>
      BY <1>11, EnvironmentPuts
    <2>3. ~Stirring /\ (child'[c] = child[c] \/ ~Uses(c))
      BY <2>1, <2>2, PutStirs
    <2>4. Good
      BY <1>0, <1>4, <2>2, <2>3
    <2>5. CASE child'[k] = child[k]
      BY <1>2, <2>4, <2>5
    <2>6. CASE k = c /\ ~Uses(c)
      BY <1>2, <2>6 DEF Uses
    <2> QED
      BY <1>0, <2>1, <2>3, <2>5, <2>6, PutTells
  <1>12. CASE UNCHANGED <<child, events, pc, queued>>
    BY <1>0, <1>1, <1>5, <1>12
  <1>13. \/ StartReconcile \/ NamePvc \/ SaveStatus
         \/ \E c \in Child : \/ ReconcileChild(c) \/ SyncChild(c)
                             \/ TamperChild(c) \/ Collect(c)
         \/ UNCHANGED <<child, events, pc, queued>>
    BY <1>1 DEF Next, Worker, Crash, Fail, Watches, SyncCR, Resync, Environment, EditCR,
           DeleteCR, RecreateCR, vars
  <1> QED
    BY <1>6, <1>7, <1>8, <1>9, <1>10, <1>11, <1>12, <1>13

LEMMA SettleInit == Init => SettleInv
  <1> SUFFICES ASSUME Init
               PROVE  SettleInv
    OBVIOUS
  <1>1. CachesInv
    BY DEF Init, CachesInv
  <1>2. RunInv /\ PassedInv
    BY DEF Init, RunInv, PassedInv, Stirring
  <1> QED
    BY <1>1, <1>2 DEF SettleInv

\* At rest nothing stirs, and the handler is past all children.
LEMMA RestIsRight == SettleInv => Settled
  <1> SUFFICES ASSUME SettleInv, Quiet, cr.exists, NEW k \in Child
               PROVE  /\ child[k].exists
                      /\ k # "pvc" => child[k].spec = Template(k, cr.version)
    BY DEF Settled, Right
  <1>1. ~Stirring /\ crSeen = cr /\ pc = "idle" /\ ~queued
    BY DEF Quiet, Stirring
  <1>2. cr.named
    BY <1>1 DEF SettleInv, RunInv
  <1>3. k \in Passed[pc]
    BY <1>1 DEF Passed
  <1> QED
    BY <1>1, <1>2, <1>3 DEF SettleInv, PassedInv

\* Whenever everything has calmed down, every child of the CR exists and is as
\* the spec says, for any number of edits, deletions, crashes, errors and
\* incarnations.
THEOREM SettlesRight == Spec => []Settled
  <1>1. TypeOK /\ SettleInv /\ [Next]_vars => SettleInv'
    BY CachesStep, RunStep, PassedStep DEF SettleInv
  <1> QED
    BY <1>1, SettleInit, RestIsRight, TypeCorrect, PTL DEF Spec
=============================================================================
