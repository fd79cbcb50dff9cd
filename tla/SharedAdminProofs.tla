------------------------- MODULE SharedAdminProofs -------------------------
(***************************************************************************)
(* Theorems about SharedAdmin, for every set of CRs, names, passwords and   *)
(* workers and every number of disturbances.                                *)
(***************************************************************************)
EXTENDS SharedAdmin, TLAPS

-----------------------------------------------------------------------------
(* Type correctness *)

LEMMA TypeOfPut ==
    ASSUME TypeOK, NEW n \in Name, NEW new \in Secret, Put(n, new)
    PROVE  secret' \in [Name -> Secret] /\ events' \in [Name -> SUBSET Concern]
  <1>1. Told(secret[n], new) \in SUBSET Concern
    BY DEF Told
  <1> QED
    BY <1>1 DEF TypeOK, Put

\* A disturbance is taken from the budget, a calm step leaves it.
LEMMA TypeOfBudget ==
    ASSUME budget \in 0..MaxDisturbances, Calm \/ \E kind : Disturb(kind)
    PROVE  budget' \in 0..MaxDisturbances
  BY BoundsAssumption DEF Calm, Disturb

LEMMA TypeOfAdminName ==
    ASSUME NEW c \in CR, NEW admin \in Specs
    PROVE  AdminName(c, admin) \in Name
  BY NamesAssumption DEF AdminName

LEMMA TypeOfWritten ==
    ASSUME NEW c \in CR, NEW view \in Secret, NEW p \in Password
    PROVE  /\ Written(c, view, p) \in Secret
           /\ Written(c, view, p).password = p
  BY DEF Written, Secret

\* The outcomes of the step that reconciles the admin secret.
LEMMA AdminOutcome ==
    ASSUME NEW c \in CR, ReconcileAdmin(c)
    PROVE  LET n == AdminName(c, mem[c].admin) IN
           /\ pc[c] = "admin"
           /\ UNCHANGED <<cr, crSeen, seen>>
           /\ Calm \/ \E kind : Disturb(kind)
           /\ \/ Fail(c)
              \/ /\ pc' = [pc EXCEPT ![c] = "config"]
                 /\ UNCHANGED <<conf, queued>>
                 /\ \/ /\ seen[n].password # Missing
                       /\ mem' = [mem EXCEPT ![c].password = seen[n].password]
                       /\ UNCHANGED <<secret, events>>
                    \/ /\ seen[n].password = Missing
                       /\ secret[n] = seen[n]
                       /\ \E p \in Password : /\ Put(n, Written(c, seen[n], p))
                                              /\ mem' = [mem EXCEPT ![c].password = p]
  BY DEF ReconcileAdmin, Accepts

LEMMA TypeOfFail ==
    ASSUME TypeOK, NEW c \in CR, Fail(c), UNCHANGED <<cr, crSeen, seen>>,
           Calm \/ \E kind : Disturb(kind)
    PROVE  TypeOK'
  <1>1. budget' \in 0..MaxDisturbances
    BY TypeOfBudget DEF TypeOK
  <1>2. mem' \in [CR -> [admin : Specs, password : Password \cup {Missing}]]
    BY DEF Fail, Idle, TypeOK
  <1> QED
    BY <1>1, <1>2 DEF Fail, Idle, TypeOK

LEMMA TypeOfHandler ==
    ASSUME TypeOK, NEW c \in CR, Handler(c)
    PROVE  TypeOK'
  <1>1. mem[c].admin \in Specs /\ crSeen[c] \in Resource
    BY DEF TypeOK
  <1>2. CASE StartReconcile(c)
    <2>1. \/ mem' = mem /\ pc' = pc
          \/ mem' = [mem EXCEPT ![c].admin = crSeen[c].admin] /\ pc' = [pc EXCEPT ![c] = "admin"]
      BY <1>2 DEF StartReconcile, handler
    <2>2. crSeen[c].admin \in Specs
      BY <1>1 DEF Resource
    <2>3. mem' \in [CR -> [admin : Specs, password : Password \cup {Missing}]]
      BY <2>1, <2>2 DEF TypeOK
    <2>4. pc' \in [CR -> {"idle", "admin", "config"}]
      BY <2>1 DEF TypeOK
    <2> QED
      BY <1>2, <2>3, <2>4 DEF StartReconcile, TypeOK
  <1>3. CASE ReconcileAdmin(c)
    <2> DEFINE n == AdminName(c, mem[c].admin)
    <2>1. n \in Name /\ seen[n] \in Secret
      BY <1>1, TypeOfAdminName DEF TypeOK
    <2>2. CASE Fail(c)
      BY <1>3, <2>2, AdminOutcome, TypeOfFail
    <2>3. CASE ~Fail(c)
      <3>1. /\ pc' = [pc EXCEPT ![c] = "config"]
            /\ UNCHANGED <<cr, crSeen, seen, conf, queued>>
            /\ \/ /\ mem' = [mem EXCEPT ![c].password = seen[n].password]
                  /\ UNCHANGED <<secret, events>>
               \/ \E p \in Password : /\ Put(n, Written(c, seen[n], p))
                                      /\ mem' = [mem EXCEPT ![c].password = p]
        BY <1>3, <2>3, AdminOutcome
      <3>2. budget' \in 0..MaxDisturbances
        BY <1>3, AdminOutcome, TypeOfBudget DEF TypeOK
      <3>3. seen[n].password \in Password \cup {Missing}
        BY <2>1 DEF Secret
      <3>4. mem' \in [CR -> [admin : Specs, password : Password \cup {Missing}]]
        BY <3>1, <3>3 DEF TypeOK
      <3>5. secret' \in [Name -> Secret] /\ events' \in [Name -> SUBSET Concern]
        BY <2>1, <3>1, TypeOfPut, TypeOfWritten DEF TypeOK
      <3> QED
        BY <3>1, <3>2, <3>4, <3>5 DEF TypeOK
    <2> QED
      BY <2>2, <2>3
  <1>4. CASE ReconcileConfig(c)
    <2>1. budget' \in 0..MaxDisturbances
      BY <1>4, TypeOfBudget DEF ReconcileConfig, TypeOK
    <2>2. CASE Fail(c)
      BY <1>4, <2>2, TypeOfFail DEF ReconcileConfig
    <2>3. CASE ~Fail(c)
      <3>1. mem' \in [CR -> [admin : Specs, password : Password \cup {Missing}]]
        BY <1>4, <2>3 DEF ReconcileConfig, Idle, TypeOK
      <3> QED
        BY <1>4, <2>1, <2>3, <3>1 DEF ReconcileConfig, Idle, TypeOK
    <2> QED
      BY <2>2, <2>3
  <1> QED
    BY <1>2, <1>3, <1>4 DEF Handler

\* Users, the garbage collector and a crash.
LEMMA TypeOfEnvironment ==
    ASSUME TypeOK,
           \/ \E c \in CR : RenameAdmin(c) \/ DeleteCR(c)
           \/ \E n \in Name : Collect(n)
           \/ \E n \in Touched : WriteSecret(n)
           \/ Crash
    PROVE  TypeOK'
  <1>1. budget' \in 0..MaxDisturbances
    BY TypeOfBudget DEF RenameAdmin, DeleteCR, Collect, WriteSecret, Crash, TypeOK
  <1>2. ASSUME NEW c \in CR, RenameAdmin(c) \/ DeleteCR(c)
        PROVE  TypeOK'
    <2>1. cr[c] \in Resource /\ DOMAIN cr = CR
      BY DEF TypeOK
    <2>2. \A a \in Specs : [cr[c] EXCEPT !.admin = a] \in Resource
      BY <2>1 DEF Resource
    <2>3. [cr[c] EXCEPT !.exists = FALSE] \in Resource
      BY <2>1 DEF Resource
    <2>4. \E r \in Resource : cr' = [cr EXCEPT ![c] = r]
      <3>1. RenameAdmin(c) => \E a \in Specs : cr' = [cr EXCEPT ![c] = [cr[c] EXCEPT !.admin = a]]
        BY DEF RenameAdmin
      <3>2. DeleteCR(c) => cr' = [cr EXCEPT ![c] = [cr[c] EXCEPT !.exists = FALSE]]
        BY DEF DeleteCR
      <3> QED
        BY <1>2, <2>2, <2>3, <3>1, <3>2
    <2>5. cr' \in [CR -> Resource]
      BY <2>4 DEF TypeOK
    <2> QED
      BY <1>1, <1>2, <2>5 DEF RenameAdmin, DeleteCR, handler, TypeOK
  <1>3. NoSecret \in Secret
    BY DEF NoSecret, Secret
  <1>4. ASSUME NEW n \in Name, Collect(n)
        PROVE  TypeOK'
    <2>1. secret' \in [Name -> Secret] /\ events' \in [Name -> SUBSET Concern]
      BY <1>3, <1>4, TypeOfPut DEF Collect
    <2> QED
      BY <1>1, <1>4, <2>1 DEF Collect, handler, TypeOK
  <1>5. ASSUME NEW n \in Touched, WriteSecret(n)
        PROVE  TypeOK'
    <2>1. n \in Name
      BY NamesAssumption
    <2>2. \A p \in Password \cup {Missing} :
             [exists |-> TRUE, owner |-> secret[n].owner, password |-> p] \in Secret
      BY <2>1 DEF TypeOK, Secret
    <2>3. secret' \in [Name -> Secret] /\ events' \in [Name -> SUBSET Concern]
      BY <1>3, <1>5, <2>1, <2>2, TypeOfPut DEF WriteSecret
    <2> QED
      BY <1>1, <1>5, <2>3 DEF WriteSecret, handler, TypeOK
  <1>6. CASE Crash
    <2>1. mem' \in [CR -> [admin : Specs, password : Password \cup {Missing}]]
      BY <1>6 DEF Crash, TypeOK
    <2> QED
      BY <1>1, <1>6, <2>1 DEF Crash, TypeOK
  <1> QED
    BY <1>2, <1>4, <1>5, <1>6

\* Every step keeps the types.
LEMMA TypeStep == TypeOK /\ [Next]_vars => TypeOK'
  <1> SUFFICES ASSUME TypeOK, [Next]_vars
               PROVE  TypeOK'
    OBVIOUS
  <1>1. ASSUME NEW c \in CR, Handler(c)
        PROVE  TypeOK'
    BY <1>1, TypeOfHandler
  <1>2. ASSUME NEW c \in CR, SyncCR(c) \/ Resync(c)
        PROVE  TypeOK'
    BY <1>2 DEF SyncCR, Resync, handler, TypeOK
  <1>3. ASSUME NEW n \in Name, SyncSecret(n)
        PROVE  TypeOK'
    <2>1. queued' \subseteq CR
      BY <1>3 DEF SyncSecret, UsingSecret, TypeOK
    <2> QED
      BY <1>3, <2>1 DEF SyncSecret, handler, TypeOK
  <1>4. CASE UNCHANGED vars
    BY <1>4 DEF vars, handler, TypeOK
  <1> QED
    BY <1>1, <1>2, <1>3, <1>4, TypeOfEnvironment DEF Next

LEMMA TypeInit == Init => TypeOK
  <1> SUFFICES ASSUME Init
               PROVE  TypeOK
    OBVIOUS
  <1>1. cr \in [CR -> Resource]
    BY DEF Init, Resource
  <1>2. secret \in [Name -> Secret]
    BY DEF Init
  <1>3. mem \in [CR -> [admin : Specs, password : Password \cup {Missing}]]
    BY <1>1 DEF Init, Resource
  <1> QED
    BY <1>1, <1>2, <1>3, BoundsAssumption DEF Init, TypeOK

\* Every variable keeps its type, whatever users, crashes and the garbage
\* collector do.
THEOREM TypeCorrect == Spec => []TypeOK
  BY TypeInit, TypeStep, PTL DEF Spec

-----------------------------------------------------------------------------
(* The first password wins *)

\* No worker replaces a password that exists: of two that found none, the second
\* is refused by the version it read (adminpassword.go:61, 71).
THEOREM PasswordIsKept == Spec => FirstWins
  <1>1. TypeOK /\ [Next]_vars
        => [\A c \in CR : Handler(c) =>
               \A n \in Name : secret[n].password # Missing => secret'[n] = secret[n]]_vars
    <2> SUFFICES ASSUME TypeOK, NEW c \in CR, Handler(c), NEW n \in Name,
                        secret[n].password # Missing
                 PROVE  secret'[n] = secret[n]
      OBVIOUS
    <2>1. CASE ReconcileAdmin(c)
      <3> DEFINE a == AdminName(c, mem[c].admin)
      <3>1. CASE secret' = secret
        BY <3>1
      <3>2. ASSUME NEW new, Put(a, new), secret[a].password = Missing
            PROVE  secret'[n] = secret[n]
        BY <3>2 DEF Put, TypeOK
      <3> QED
        BY <2>1, <3>1, <3>2, AdminOutcome DEF Fail
    <2> QED
      BY <2>1 DEF Handler, StartReconcile, ReconcileConfig, Fail
  <1> QED
    BY <1>1, TypeCorrect, PTL DEF Spec, FirstWins

-----------------------------------------------------------------------------
(* Settling                                                                 *)
(*                                                                          *)
(* Users leave the generated secrets alone: the mapping of secrets to CRs   *)
(* does not know their names.                                               *)

GeneratedLeftAlone == \A c \in CR : DefaultName[c] \notin Touched

\* A write that changes a password says so, and no event is taken back.
LEMMA PutTells ==
    ASSUME TypeOK, NEW n \in Name, NEW new, Put(n, new)
    PROVE  /\ secret'[n] = new
           /\ \A m \in Name : m # n => secret'[m] = secret[m]
           /\ \A m \in Name : events[m] \subseteq events'[m]
           /\ secret[n].password # new.password => Useful \in events'[n]
  <1>1. secret'[n] = new /\ \A m \in Name : m # n => secret'[m] = secret[m]
    BY DEF TypeOK, Put
  <1>2. events'[n] = events[n] \cup Told(secret[n], new)
    BY DEF TypeOK, Put
  <1>3. \A m \in Name : m # n => events'[m] = events[m]
    BY DEF TypeOK, Put
  <1>4. secret[n].password # new.password => Useful \in Told(secret[n], new)
    BY DEF Told, Concern
  <1> QED
    BY <1>1, <1>2, <1>3, <1>4

\* A worker writes a secret only if it has no password, and gives it one.
LEMMA AdminPuts ==
    ASSUME TypeOK, NEW c \in CR, ReconcileAdmin(c)
    PROVE  \/ UNCHANGED <<secret, seen, events>>
           \/ \E n \in Name, p \in Password :
                 /\ Put(n, Written(c, seen[n], p))
                 /\ seen[n].password = Missing
                 /\ secret[n] = seen[n]
                 /\ UNCHANGED seen
  <1>1. AdminName(c, mem[c].admin) \in Name
    BY TypeOfAdminName DEF TypeOK
  <1>2. CASE Fail(c)
    BY <1>2, AdminOutcome DEF Fail
  <1>3. CASE ~Fail(c)
    BY <1>1, <1>3, AdminOutcome
  <1> QED
    BY <1>2, <1>3

\* Who writes a secret.
LEMMA WhoWrites ==
    ASSUME TypeOK, [Next]_vars
    PROVE  \/ UNCHANGED <<secret, seen, events>>
           \/ \E c \in CR : ReconcileAdmin(c)
           \/ \E n \in Name : SyncSecret(n)
           \/ \E n \in Name : Collect(n)
           \/ \E n \in Touched : WriteSecret(n)
  BY DEF Next, Handler, StartReconcile, ReconcileConfig, Fail, SyncCR, Resync, RenameAdmin,
         DeleteCR, Crash, vars

\* A secret no user touches is written once and stays.
LEMMA UntouchedStep == TypeOK /\ UntouchedInv /\ [Next]_vars => UntouchedInv'
  <1> SUFFICES ASSUME TypeOK, UntouchedInv, [Next]_vars, NEW n \in Name \ Touched
               PROVE  /\ \/ secret'[n] = NoSecret
                         \/ secret'[n].owner = NoOwner /\ secret'[n].password # Missing
                      /\ seen'[n] \in {NoSecret, secret'[n]}
    BY DEF UntouchedInv
  <1> DEFINE Was == /\ \/ secret[n] = NoSecret
                       \/ secret[n].owner = NoOwner /\ secret[n].password # Missing
                    /\ seen[n] \in {NoSecret, secret[n]}
  <1>1. Was
    BY DEF UntouchedInv
  <1>2. CASE secret'[n] = secret[n] /\ seen'[n] \in {seen[n], secret[n]}
    BY <1>1, <1>2
  <1>3. ASSUME NEW c \in CR, ReconcileAdmin(c)
        PROVE  Was'
    <2>1. CASE UNCHANGED <<secret, seen>>
      BY <1>2, <2>1
    <2>2. ASSUME NEW m \in Name, NEW p \in Password, Put(m, Written(c, seen[m], p)),
                 seen[m].password = Missing, secret[m] = seen[m], seen' = seen
          PROVE  Was'
      <3>1. CASE m # n
        BY <1>2, <2>2, <3>1, PutTells
      <3>2. CASE m = n
        <4>1. seen[n] = NoSecret
          BY <1>1, <2>2, <3>2
        <4>2. secret'[n] = Written(c, NoSecret, p)
          BY <2>2, <3>2, <4>1, PutTells
        <4>3. secret'[n].owner = NoOwner /\ secret'[n].password = p /\ p # Missing
          BY <4>2, ValuesAssumption DEF Written, NoSecret
        <4> QED
          BY <2>2, <4>1, <4>3
      <3> QED
        BY <3>1, <3>2
    <2> QED
      BY <1>3, <2>1, <2>2, AdminPuts
  <1>4. ASSUME NEW m \in Name, SyncSecret(m)
        PROVE  Was'
    <2>1. secret' = secret /\ seen'[n] \in {seen[n], secret[n]}
      BY <1>4 DEF SyncSecret, TypeOK
    <2> QED
      BY <1>2, <2>1
  <1>5. ASSUME NEW m \in Name, Collect(m)
        PROVE  Was'
    <2>1. m # n
      BY <1>1, <1>5 DEF Collect, Dangling, NoSecret
    <2>2. seen' = seen /\ \E new : Put(m, new)
      BY <1>5 DEF Collect
    <2> QED
      BY <1>2, <2>1, <2>2, PutTells
  <1>6. ASSUME NEW m \in Touched, WriteSecret(m)
        PROVE  Was'
    <2>1. m # n /\ m \in Name
      BY NamesAssumption
    <2>2. seen' = seen /\ \E new : Put(m, new)
      BY <1>6 DEF WriteSecret
    <2> QED
      BY <1>2, <2>1, <2>2, PutTells
  <1> QED
    BY <1>2, <1>3, <1>4, <1>5, <1>6, WhoWrites

\* A cached password that is out of date has an event on its way.
LEMMA CachesStep == TypeOK /\ CachesInv /\ [Next]_vars => CachesInv'
  <1> SUFFICES ASSUME TypeOK, CachesInv, [Next]_vars
               PROVE  CachesInv'
    OBVIOUS
  <1>1. ASSUME NEW n \in Name, NEW new, Put(n, new), seen' = seen
        PROVE  CachesInv'
    <2>1. \A m \in Name : m # n => secret'[m] = secret[m]
      BY <1>1, PutTells
    <2>2. \A m \in Name : events[m] \subseteq events'[m]
      BY <1>1, PutTells
    <2>3. secret[n].password # secret'[n].password => Useful \in events'[n]
      BY <1>1, PutTells
    <2> QED
      BY <1>1, <2>1, <2>2, <2>3 DEF CachesInv
  <1>2. CASE UNCHANGED <<secret, seen, events>>
    BY <1>2 DEF CachesInv
  <1>3. ASSUME NEW c \in CR, ReconcileAdmin(c)
        PROVE  CachesInv'
    BY <1>1, <1>2, <1>3, AdminPuts
  <1>4. ASSUME NEW n \in Name, SyncSecret(n)
        PROVE  CachesInv'
    <2>1. secret' = secret /\ seen'[n] = secret[n]
      BY <1>4 DEF SyncSecret, TypeOK
    <2>2. \A m \in Name : m # n => seen'[m] = seen[m] /\ events'[m] = events[m]
      BY <1>4 DEF SyncSecret, TypeOK
    <2> QED
      BY <2>1, <2>2 DEF CachesInv
  <1>5. ASSUME NEW n \in Name, Collect(n) \/ (n \in Touched /\ WriteSecret(n))
        PROVE  CachesInv'
    <2>1. seen' = seen /\ \E new : Put(n, new)
      BY <1>5 DEF Collect, WriteSecret
    <2> QED
      BY <1>1, <2>1
  <1> QED
    BY <1>2, <1>3, <1>4, <1>5, WhoWrites, NamesAssumption

\* A handler that nothing will call after a step was not to be called before it,
\* but for the one that starts.
LEMMA CalmBefore ==
    ASSUME TypeOK, [Next]_vars, NEW c \in CR, ~Stirring(c)', ~StartReconcile(c)
    PROVE  ~Stirring(c) /\ c \notin queued' /\ crSeen'[c] = crSeen[c]
  <1>1. c \notin queued'
    BY DEF Stirring
  <1>2. crSeen'[c] = crSeen[c]
    <2>1. ~SyncCR(c)
      BY <1>1 DEF SyncCR
    <2>2. ASSUME NEW d \in CR, SyncCR(d)
          PROVE  crSeen'[c] = crSeen[c]
      BY <2>1, <2>2 DEF SyncCR, TypeOK
    <2> QED
      BY <2>2 DEF Next, Handler, StartReconcile, ReconcileAdmin, ReconcileConfig, SyncSecret,
             Resync, RenameAdmin, DeleteCR, Crash, Collect, WriteSecret, vars
  <1>3. c \notin queued
    <2>1. ASSUME NEW d \in CR, StartReconcile(d)
          PROVE  c \notin queued
      BY <1>1, <2>1 DEF StartReconcile
    <2>2. ASSUME NEW d \in CR, ReconcileAdmin(d)
          PROVE  queued \subseteq queued'
      <3>1. Fail(d) \/ queued' = queued
        BY <2>2, AdminOutcome
      <3> QED
        BY <3>1 DEF Fail
    <2>3. queued \subseteq queued' \/ \E d \in CR : StartReconcile(d) \/ ReconcileAdmin(d)
      BY DEF Next, Handler, ReconcileConfig, Fail, SyncCR, SyncSecret, Resync, RenameAdmin,
             DeleteCR, Crash, Collect, WriteSecret, vars, TypeOK
    <2> QED
      BY <1>1, <2>1, <2>2, <2>3
  <1>4. \A n \in Name : c \in UsingSecret(n)' <=> c \in UsingSecret(n)
    BY <1>2 DEF UsingSecret
  <1>5. ASSUME \A n \in Name : events[n] \subseteq events'[n]
        PROVE  ~Stirring(c)
    BY <1>3, <1>4, <1>5 DEF Stirring
  <1>6. ASSUME NEW n \in Name, NEW new, Put(n, new)
        PROVE  ~Stirring(c)
    BY <1>5, <1>6, PutTells
  <1>7. ASSUME NEW n \in Name, SyncSecret(n)
        PROVE  ~Stirring(c)
    <2>1. c \notin events[n] /\ ~(Useful \in events[n] /\ c \in UsingSecret(n))
      BY <1>1, <1>7 DEF SyncSecret
    <2>2. \A m \in Name : m # n => events'[m] = events[m]
      BY <1>7 DEF SyncSecret, TypeOK
    <2> QED
      BY <1>3, <1>4, <2>1, <2>2 DEF Stirring
  <1>8. ASSUME NEW d \in CR, ReconcileAdmin(d)
        PROVE  ~Stirring(c)
    BY <1>5, <1>6, <1>8, AdminPuts
  <1>9. ASSUME NEW n \in Name, Collect(n) \/ (n \in Touched /\ WriteSecret(n))
        PROVE  ~Stirring(c)
    <2>1. \E new : Put(n, new)
      BY <1>9 DEF Collect, WriteSecret
    <2> QED
      BY <1>6, <2>1
  <1>10. ASSUME events' = events
         PROVE  ~Stirring(c)
    <2>1. \A n \in Name : events[n] \subseteq events'[n]
      BY <1>10
    <2> QED
      BY <1>5, <2>1
  <1>11. ~Stirring(c)
    BY <1>7, <1>8, <1>9, <1>10, WhoWrites, NamesAssumption
  <1> QED
    BY <1>1, <1>2, <1>11

\* A secret that changes under a handler nobody will call is not the one it uses.
LEMMA AdminKept ==
    ASSUME GeneratedLeftAlone, TypeOK, NEW c \in CR, ~Stirring(c)',
           crSeen[c].exists, crSeen'[c] = crSeen[c],
           NEW n \in Name, NEW new, Put(n, new),
           n \in Touched \/ n # AdminName(c, crSeen[c].admin)
    PROVE  Admin(c)' = Admin(c)
  <1> DEFINE a == AdminName(c, crSeen[c].admin)
  <1>1. a \in Name /\ Admin(c) = secret[a].password /\ Admin(c)' = secret'[a].password
    BY TypeOfAdminName DEF TypeOK, Resource, Admin, AdminName
  <1>2. CASE n # a
    BY <1>1, <1>2, PutTells
  <1>3. CASE n = a /\ n \in Touched
    <2>1. crSeen[c].admin = n
      BY <1>3 DEF GeneratedLeftAlone, AdminName
    <2>2. c \in UsingSecret(n)'
      BY <2>1 DEF UsingSecret
    <2>3. Useful \notin events'[n]
      BY <2>2 DEF Stirring
    <2> QED
      BY <1>1, <1>3, <2>3, PutTells
  <1> QED
    BY <1>2, <1>3

\* What a handler finds in the cache when nobody will call it again is so.
LEMMA ReadsRight ==
    ASSUME GeneratedLeftAlone, TypeOK, UntouchedInv, CachesInv, NEW c \in CR, ~Stirring(c),
           crSeen[c].exists, seen[AdminName(c, crSeen[c].admin)].password # Missing
    PROVE  seen[AdminName(c, crSeen[c].admin)].password = Admin(c)
  <1> DEFINE a == AdminName(c, crSeen[c].admin)
  <1>1. a \in Name
    BY TypeOfAdminName DEF TypeOK, Resource
  <1>2. CASE a \in Touched
    <2>1. c \in UsingSecret(a)
      BY <1>2 DEF GeneratedLeftAlone, AdminName, UsingSecret
    <2>2. Useful \notin events[a]
      BY <1>1, <2>1 DEF Stirring
    <2> QED
      BY <1>1, <2>2 DEF CachesInv, Admin
  <1>3. CASE a \notin Touched
    <2>1. seen[a] \in {NoSecret, secret[a]}
      BY <1>1, <1>3 DEF UntouchedInv
    <2>2. seen[a] # NoSecret
      BY DEF NoSecret
    <2> QED
      BY <2>1, <2>2 DEF Admin
  <1> QED
    BY <1>2, <1>3

\* One step of a handler after the other holds what it has read.
LEMMA HandlerStep ==
    ASSUME GeneratedLeftAlone, TypeOK, SettleInv, NEW c \in CR,
           ReconcileAdmin(c) \/ ReconcileConfig(c),
           ~Stirring(c), c \notin queued', crSeen[c].exists, crSeen'[c] = crSeen[c]
    PROVE  /\ pc'[c] # "idle" => mem'[c].admin = crSeen[c].admin
           /\ pc'[c] = "config" => mem'[c].password = Admin(c)' /\ mem'[c].password # Missing
           /\ pc'[c] = "idle" => conf'[c] = Admin(c)' /\ conf'[c] # Missing
  <1>1. /\ pc[c] # "idle" => mem[c].admin = crSeen[c].admin
        /\ pc[c] = "config" => mem[c].password = Admin(c) /\ mem[c].password # Missing
    BY DEF SettleInv, HeldInv
  <1>2. ~Fail(c)
    BY DEF Fail
  <1> DEFINE a == AdminName(c, crSeen[c].admin)
  <1>3. a \in Name /\ Admin(c) = secret[a].password /\ Admin(c)' = secret'[a].password
    BY TypeOfAdminName DEF TypeOK, Resource, Admin, AdminName
  <1>4. DOMAIN mem = CR /\ DOMAIN pc = CR /\ DOMAIN conf = CR
        /\ mem[c] \in [admin : Specs, password : Password \cup {Missing}]
    BY DEF TypeOK
  <1>5. CASE ReconcileAdmin(c)
    <2>1. pc[c] = "admin"
      BY <1>5, AdminOutcome
    <2>2. mem[c].admin = crSeen[c].admin
      BY <1>1, <2>1
    <2>3. /\ pc' = [pc EXCEPT ![c] = "config"]
          /\ \/ /\ seen[a].password # Missing
                /\ mem' = [mem EXCEPT ![c].password = seen[a].password]
                /\ UNCHANGED <<secret, events>>
             \/ \E p \in Password : /\ Put(a, Written(c, seen[a], p))
                                    /\ mem' = [mem EXCEPT ![c].password = p]
      BY <1>2, <1>5, <2>2, AdminOutcome
    <2>4. pc'[c] = "config"
      BY <1>4, <2>3
    <2>5. ASSUME NEW p, mem' = [mem EXCEPT ![c].password = p]
          PROVE  mem'[c].admin = crSeen[c].admin /\ mem'[c].password = p
      BY <1>4, <2>2, <2>5
    <2>6. CASE /\ seen[a].password # Missing
               /\ mem' = [mem EXCEPT ![c].password = seen[a].password]
               /\ UNCHANGED <<secret, events>>
      <3>1. seen[a].password = Admin(c)
        BY <2>6, ReadsRight DEF SettleInv
      <3> QED
        BY <1>3, <2>4, <2>5, <2>6, <3>1
    <2>7. ASSUME NEW p \in Password, Put(a, Written(c, seen[a], p)),
                 mem' = [mem EXCEPT ![c].password = p]
          PROVE  mem'[c].admin = crSeen[c].admin /\ mem'[c].password = Admin(c)'
                 /\ mem'[c].password # Missing
      <3>1. secret'[a] = Written(c, seen[a], p)
        BY <1>3, <2>7, PutTells
      <3>2. secret'[a].password = p /\ p # Missing
        BY <3>1, ValuesAssumption DEF Written
      <3> QED
        BY <1>3, <2>5, <2>7, <3>2
    <2> QED
      BY <2>3, <2>4, <2>6, <2>7
  <1>6. CASE ReconcileConfig(c)
    <2>1. /\ pc[c] = "config" /\ conf' = [conf EXCEPT ![c] = mem[c].password]
          /\ pc' = [pc EXCEPT ![c] = "idle"] /\ secret' = secret
      BY <1>2, <1>6 DEF ReconcileConfig, Idle
    <2> QED
      BY <1>1, <1>3, <1>4, <2>1
  <1> QED
    BY <1>5, <1>6

\* A step of anybody else leaves a handler alone.
LEMMA OthersStep ==
    ASSUME TypeOK, [Next]_vars, NEW c \in CR, c \notin queued', ~Handler(c)
    PROVE  pc'[c] = pc[c] /\ mem'[c] = mem[c] /\ conf'[c] = conf[c]
  <1>1. ASSUME NEW d \in CR, d # c, Handler(d)
        PROVE  pc'[c] = pc[c] /\ mem'[c] = mem[c] /\ conf'[c] = conf[c]
    <2>1. CASE StartReconcile(d)
      BY <1>1, <2>1 DEF StartReconcile, handler, TypeOK
    <2>2. CASE Fail(d)
      BY <1>1, <2>2 DEF Fail, Idle, TypeOK
    <2>3. CASE ReconcileAdmin(d) /\ ~Fail(d)
      <3>1. /\ pc' = [pc EXCEPT ![d] = "config"] /\ conf' = conf
            /\ \E p : mem' = [mem EXCEPT ![d].password = p]
        BY <2>3, AdminOutcome
      <3> QED
        BY <1>1, <3>1 DEF TypeOK
    <2>4. CASE ReconcileConfig(d) /\ ~Fail(d)
      BY <1>1, <2>4 DEF ReconcileConfig, Idle, TypeOK
    <2> QED
      BY <1>1, <2>1, <2>2, <2>3, <2>4 DEF Handler
  <1>2. ~Crash
    BY DEF Crash
  <1>3. (UNCHANGED handler /\ UNCHANGED conf) \/ \E d \in CR : d # c /\ Handler(d)
    BY <1>2 DEF Next, SyncCR, SyncSecret, Resync, RenameAdmin, DeleteCR, Collect, WriteSecret,
                vars
  <1> QED
    BY <1>1, <1>3 DEF handler

LEMMA HeldStep ==
    GeneratedLeftAlone /\ TypeOK /\ SettleInv /\ [Next]_vars => HeldInv'
  <1> SUFFICES ASSUME GeneratedLeftAlone, TypeOK, SettleInv, [Next]_vars,
                      NEW c \in CR, crSeen'[c].exists, ~Stirring(c)'
               PROVE  /\ pc'[c] # "idle" => mem'[c].admin = crSeen'[c].admin
                      /\ pc'[c] = "config"
                         => mem'[c].password = Admin(c)' /\ mem'[c].password # Missing
                      /\ pc'[c] = "idle" => conf'[c] = Admin(c)' /\ conf'[c] # Missing
    BY DEF HeldInv
  <1>1. CASE StartReconcile(c)
    <2>1. crSeen' = crSeen
      BY <1>1 DEF StartReconcile
    <2>2. /\ pc' = [pc EXCEPT ![c] = "admin"]
          /\ mem' = [mem EXCEPT ![c].admin = crSeen[c].admin]
      BY <1>1, <2>1 DEF StartReconcile
    <2>3. pc'[c] = "admin" /\ mem'[c].admin = crSeen[c].admin
      BY <2>2 DEF TypeOK
    <2> QED
      BY <2>1, <2>3
  <1>2. CASE ~StartReconcile(c)
    <2>1. ~Stirring(c) /\ c \notin queued' /\ crSeen'[c] = crSeen[c]
      BY <1>2, CalmBefore
    <2>2. CASE ReconcileAdmin(c) \/ ReconcileConfig(c)
      BY <2>1, <2>2, HandlerStep
    <2>3. CASE ~Handler(c)
      <3>1. pc'[c] = pc[c] /\ mem'[c] = mem[c] /\ conf'[c] = conf[c]
        BY <2>1, <2>3, OthersStep
      <3>2. /\ pc[c] # "idle" => mem[c].admin = crSeen[c].admin
            /\ pc[c] = "config" => mem[c].password = Admin(c) /\ mem[c].password # Missing
            /\ pc[c] = "idle" => conf[c] = Admin(c) /\ conf[c] # Missing
        BY <2>1 DEF SettleInv, HeldInv
      <3>3. pc[c] = "admin" \/ Admin(c)' = Admin(c)
        <4> DEFINE a == AdminName(c, crSeen[c].admin)
        <4>1. pc[c] # "admin" => secret[a].password # Missing
          BY <3>2 DEF TypeOK, Admin
        <4>2. CASE secret' = secret
          BY <2>1, <4>2 DEF Admin, AdminName
        <4>3. ASSUME NEW d \in CR, ReconcileAdmin(d)
              PROVE  pc[c] = "admin" \/ Admin(c)' = Admin(c)
          <5>1. ASSUME NEW n \in Name, NEW p \in Password,
                       Put(n, Written(d, seen[n], p)), seen[n].password = Missing,
                       secret[n] = seen[n], pc[c] # "admin"
                PROVE  Admin(c)' = Admin(c)
            <6>1. n # a
              BY <4>1, <5>1
            <6> QED
              BY <2>1, <5>1, <6>1, AdminKept
          <5> QED
            BY <4>2, <4>3, <5>1, AdminPuts
        <4>4. ASSUME NEW n \in Name, Collect(n)
              PROVE  Admin(c)' = Admin(c)
          <5>1. secret[n].owner # NoOwner
            BY <4>4 DEF Collect, Dangling
          <5>2. n \in Touched
            BY <5>1 DEF SettleInv, UntouchedInv, NoSecret
          <5>3. \E new : Put(n, new)
            BY <4>4 DEF Collect
          <5> QED
            BY <2>1, <5>2, <5>3, AdminKept
        <4>5. ASSUME NEW n \in Touched, WriteSecret(n)
              PROVE  Admin(c)' = Admin(c)
          <5>1. n \in Name /\ \E new : Put(n, new)
            BY <4>5, NamesAssumption DEF WriteSecret
          <5> QED
            BY <2>1, <5>1, AdminKept
        <4>6. ASSUME NEW n \in Name, SyncSecret(n)
              PROVE  pc[c] = "admin" \/ Admin(c)' = Admin(c)
          BY <4>2, <4>6 DEF SyncSecret
        <4> QED
          BY <4>2, <4>3, <4>4, <4>5, <4>6, WhoWrites
      <3> QED
        BY <2>1, <3>1, <3>2, <3>3
    <2> QED
      BY <1>2, <2>2, <2>3 DEF Handler
  <1> QED
    BY <1>1, <1>2

LEMMA SettleInit == Init => SettleInv
  <1> SUFFICES ASSUME Init
               PROVE  SettleInv
    OBVIOUS
  <1>1. UntouchedInv
    BY DEF Init, UntouchedInv
  <1>2. CachesInv
    BY DEF Init, CachesInv
  <1>3. HeldInv
    BY DEF Init, HeldInv, Stirring
  <1> QED
    BY <1>1, <1>2, <1>3 DEF SettleInv

LEMMA RestIsRight == TypeOK /\ SettleInv => Agreed
  <1> SUFFICES ASSUME TypeOK, SettleInv, Quiet, NEW c \in CR, cr[c].exists
               PROVE  Right(c)
    BY DEF Agreed
  <1>1. ~Stirring(c) /\ crSeen = cr /\ pc[c] = "idle"
    BY DEF Quiet, Stirring, Busy
  <1> QED
    BY <1>1 DEF SettleInv, HeldInv, Right, Admin

\* Whenever everything has calmed down, every CR has the password of the secret it
\* names, for any number of CRs that share secrets, of workers, edits, deletions,
\* errors and crashes, as long as users leave the generated secrets alone: no watch
\* maps these to their CRs (UsesSecret).
THEOREM AllAgree == GeneratedLeftAlone => (Spec => []Agreed)
  <1> SUFFICES ASSUME GeneratedLeftAlone
               PROVE  Spec => []Agreed
    OBVIOUS
  <1>1. TypeOK /\ SettleInv /\ [Next]_vars => SettleInv'
    BY UntouchedStep, CachesStep, HeldStep DEF SettleInv
  <1> QED
    BY <1>1, SettleInit, RestIsRight, TypeCorrect, PTL DEF Spec
=============================================================================
