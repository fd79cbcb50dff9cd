---------------------------- MODULE SharedAdmin ----------------------------
(***************************************************************************)
(* Several OdooDeployments (CRs) of one namespace that name the same admin  *)
(* secret, and the workers that serve them at the same time                 *)
(*   (odoodeployment_controller.go:223-285, 319-339, 398-416; adminpassword *)
(*    .go; UsesSecret and CreateOdooAdminPasswordSecretNamespacedName of    *)
(*    api/v1/odoodeployment_funcs.go).                                      *)
(*                                                                          *)
(* Every worker may find the secret missing or without a password and       *)
(* write one of its own; the first CR that updates it becomes its owner, so *)
(* that the garbage collector takes it away with that CR, from under the    *)
(* others.  ConfigSecrets.tla has one CR and everything else that goes into *)
(* odoo.conf; here odoo.conf is its line admin_passwd.                      *)
(***************************************************************************)
EXTENDS Naturals, FiniteSets

CONSTANTS
    CR,               \* the OdooDeployments
    Name,             \* names of admin secrets
    DefaultName,      \* for each CR "<name>-admin-password"
    NoName,           \* no AdminPasswordSecretName in the spec
    Specs,            \* the names that specs give, NoName among them
    Password,         \* what the key "password" holds
    Missing,          \* nothing
    NoOwner,          \* no controller among the owner references
    Touched,          \* the secrets the users write
    Workers,          \* MaxConcurrentReconciles
    Kinds,            \* the disturbances that may happen
    MaxDisturbances   \* how many of them

ASSUME NamesAssumption == /\ NoName \notin Name
                          /\ DefaultName \in [CR -> Name]
                          /\ Specs \subseteq Name \cup {NoName}
                          /\ Touched \subseteq Name
ASSUME ValuesAssumption == Missing \notin Password /\ NoOwner \notin CR
ASSUME BoundsAssumption == Workers \in Nat /\ MaxDisturbances \in Nat

VARIABLES
    cr,       \* the CRs in the API server
    crSeen,   \* the informer's copies
    secret,   \* the admin secrets
    seen,     \* the informer's copies
    events,   \* whom the undelivered changes of each secret concern
    conf,     \* admin_passwd in the odoo.conf of each CR
    pc,       \* where the handler of each CR is
    mem,      \* what it holds: the name in the spec, and the password
    queued,   \* the work queue
    budget    \* disturbances still allowed

handler == <<pc, mem>>
vars == <<cr, crSeen, secret, seen, events, conf, handler, queued, budget>>

-----------------------------------------------------------------------------
(* Data *)

Resource == [exists : BOOLEAN, admin : Specs]
Secret == [exists : BOOLEAN, owner : CR \cup {NoOwner}, password : Password \cup {Missing}]
NoSecret == [exists |-> FALSE, owner |-> NoOwner, password |-> Missing]

\* A change concerns the owners, and as "useful" the CRs that use the name.
Useful == "useful"
Concern == CR \cup {Useful}

\* Mutants: an object without owner is taken to have one; only an update of the
\* content counts, not that the secret comes or goes.
ToldNobody(old, new) ==
    {e \in Concern \cup {NoOwner} :
        /\ old # new
        /\ e \in {old.owner, new.owner} \/ (e = Useful /\ old.password # new.password)}
ToldUpdates(old, new) ==
    {e \in Concern : /\ old # new
                     /\ \/ e \in {old.owner, new.owner}
                        \/ e = Useful /\ old.exists /\ new.exists}

Told(old, new) ==
    {e \in Concern : /\ old # new
                     /\ \/ e \in {old.owner, new.owner}
                        \/ /\ e = Useful
                           /\ \/ old.exists # new.exists
                              \/ old.password # new.password}

Put(n, new) ==
    /\ secret' = [secret EXCEPT ![n] = new]
    /\ events' = [events EXCEPT ![n] = @ \cup Told(secret[n], new)]

Busy == {c \in CR : pc[c] # "idle"}

Calm == UNCHANGED budget
Disturb(kind) == /\ kind \in Kinds
                 /\ budget > 0
                 /\ budget' = budget - 1

\* CreateOdooAdminPasswordSecretNamespacedName
AdminName(c, admin) == IF admin = NoName THEN DefaultName[c] ELSE admin

\* Mutant: of several CRs only one is told.
UsersOf(n) == LET users == {c \in CR : crSeen[c].exists /\ crSeen[c].admin = n}
              IN IF users = {} THEN {} ELSE {CHOOSE c \in users : TRUE}

\* filterOdooDeploymentsUsingSecret: the CRs in the cache whose spec has the name.
UsingSecret(n) == {c \in CR : crSeen[c].exists /\ crSeen[c].admin = n}

-----------------------------------------------------------------------------
(* The handler of a CR *)

Idle(c) == /\ pc' = [pc EXCEPT ![c] = "idle"]
           /\ mem' = [mem EXCEPT ![c].password = Missing]

\* Errors are returned, and the CR is queued again.
Fail(c) == /\ Idle(c)
           /\ queued' = queued \cup {c}
           /\ UNCHANGED <<secret, events, conf>>

\* A worker takes a CR that no other worker has; one that is gone ends the run.
StartReconcile(c) ==
    /\ pc[c] = "idle"
    /\ c \in queued
    /\ Cardinality(Busy) < Workers
    /\ queued' = queued \ {c}
    /\ IF crSeen[c].exists
       THEN /\ pc' = [pc EXCEPT ![c] = "admin"]
            /\ mem' = [mem EXCEPT ![c].admin = crSeen[c].admin]
       ELSE UNCHANGED handler
    /\ UNCHANGED <<cr, crSeen, secret, seen, events, conf, budget>>

\* What is written.  The owner reference is refused if the object has no
\* namespace yet, or another owner (adminpassword.go:56).
Written(c, view, p) ==
    [exists |-> TRUE, owner |-> IF view.exists /\ view.owner = NoOwner THEN c ELSE view.owner,
     password |-> p]

\* Mutant: the version that was read is not compared.
AcceptsAny(n, view) == TRUE

\* The server creates what does not exist, and updates what has not changed.
Accepts(n, view) == secret[n] = view

ReconcileAdmin(c) ==
    /\ pc[c] = "admin"
    /\ LET n == AdminName(c, mem[c].admin)
           view == seen[n]
           GoOn(p) == /\ mem' = [mem EXCEPT ![c].password = p]
                      /\ pc' = [pc EXCEPT ![c] = "config"]
                      /\ UNCHANGED <<conf, queued>>
       IN
       \/ /\ view.password # Missing
          /\ GoOn(view.password)
          /\ Calm
          /\ UNCHANGED <<secret, events>>
       \/ /\ view.password = Missing
          /\ Accepts(n, view)
          /\ \E p \in Password : Put(n, Written(c, view, p)) /\ GoOn(p)
          /\ Calm
       \/ view.password = Missing /\ ~Accepts(n, view) /\ Fail(c) /\ Calm
       \/ Fail(c) /\ Disturb("apiError")
    /\ UNCHANGED <<cr, crSeen, seen>>

\* The config secret follows.
ReconcileConfig(c) ==
    /\ pc[c] = "config"
    /\ \/ /\ conf' = [conf EXCEPT ![c] = mem[c].password]
          /\ Idle(c)
          /\ Calm
          /\ UNCHANGED <<secret, events, queued>>
       \/ Fail(c) /\ Disturb("apiError")
    /\ UNCHANGED <<cr, crSeen, seen>>

Handler(c) == StartReconcile(c) \/ ReconcileAdmin(c) \/ ReconcileConfig(c)

Crash ==
    /\ Disturb("crash")
    /\ pc' = [c \in CR |-> "idle"]
    /\ mem' = [c \in CR |-> [mem[c] EXCEPT !.password = Missing]]
    /\ queued' = CR
    /\ UNCHANGED <<cr, crSeen, secret, seen, events, conf>>

-----------------------------------------------------------------------------
(* Watches *)

SyncCR(c) ==
    /\ crSeen[c] # cr[c]
    /\ crSeen' = [crSeen EXCEPT ![c] = cr[c]]
    /\ queued' = queued \cup {c}
    /\ UNCHANGED <<cr, secret, seen, events, conf, handler, budget>>

\* The owner is queued, and so is every CR that uses the name.
SyncSecret(n) ==
    /\ events[n] # {}
    /\ seen' = [seen EXCEPT ![n] = secret[n]]
    /\ events' = [events EXCEPT ![n] = {}]
    /\ queued' = queued \cup (events[n] \cap CR)
                        \cup (IF Useful \in events[n] THEN UsingSecret(n) ELSE {})
    /\ UNCHANGED <<cr, crSeen, secret, conf, handler, budget>>

\* The periodic resync, an event of another object of the CR, or a requeue that
\* the rest of the handler asks for.
Resync(c) ==
    /\ c \notin queued
    /\ queued' = queued \cup {c}
    /\ UNCHANGED <<cr, crSeen, secret, seen, events, conf, handler, budget>>

-----------------------------------------------------------------------------
(* Users and the garbage collector *)

RenameAdmin(c) ==
    /\ Disturb("edit")
    /\ cr[c].exists
    /\ \E a \in Specs : cr' = [cr EXCEPT ![c].admin = a]
    /\ UNCHANGED <<crSeen, secret, seen, events, conf, handler, queued>>

DeleteCR(c) ==
    /\ Disturb("delete")
    /\ cr[c].exists
    /\ cr' = [cr EXCEPT ![c].exists = FALSE]
    /\ UNCHANGED <<crSeen, secret, seen, events, conf, handler, queued>>

\* With or without a password; or the secret is deleted.
WriteSecret(n) ==
    /\ Disturb("secret")
    /\ \/ \E p \in Password \cup {Missing} :
             Put(n, [exists |-> TRUE, owner |-> secret[n].owner, password |-> p])
       \/ secret[n].exists /\ Put(n, NoSecret)
    /\ UNCHANGED <<cr, crSeen, seen, conf, handler, queued>>

Dangling(n) == secret[n].owner # NoOwner /\ ~cr[secret[n].owner].exists

Collect(n) ==
    /\ Dangling(n)
    /\ Put(n, NoSecret)
    /\ UNCHANGED <<cr, crSeen, seen, conf, handler, queued, budget>>

-----------------------------------------------------------------------------
\* The users' secrets exist or not, with or without a password.
Init ==
    /\ cr \in [CR -> [exists : {TRUE}, admin : Specs]]
    /\ crSeen = cr
    /\ secret \in {s \in [Name -> Secret] :
                     \A n \in Name : /\ s[n].owner = NoOwner
                                     /\ ~s[n].exists => s[n] = NoSecret
                                     /\ n \notin Touched => ~s[n].exists}
    /\ seen = secret
    /\ events = [n \in Name |-> {}]
    /\ conf = [c \in CR |-> Missing]
    /\ pc = [c \in CR |-> "idle"]
    /\ mem = [c \in CR |-> [admin |-> cr[c].admin, password |-> Missing]]
    /\ queued = CR
    /\ budget = MaxDisturbances

Next ==
    \/ \E c \in CR : Handler(c) \/ SyncCR(c) \/ Resync(c) \/ RenameAdmin(c) \/ DeleteCR(c)
    \/ \E n \in Name : SyncSecret(n) \/ Collect(n)
    \/ \E n \in Touched : WriteSecret(n)
    \/ Crash

Spec == Init /\ [][Next]_vars

\* The queue is first come, first served; the watches deliver; the collector works.
Fairness == /\ \A c \in CR : WF_vars(Handler(c)) /\ WF_vars(SyncCR(c))
            /\ \A n \in Name : WF_vars(SyncSecret(n)) /\ WF_vars(Collect(n))

FairSpec == Spec /\ Fairness

-----------------------------------------------------------------------------
(* Properties *)

TypeOK ==
    /\ {cr, crSeen} \subseteq [CR -> Resource]
    /\ {secret, seen} \subseteq [Name -> Secret]
    /\ events \in [Name -> SUBSET Concern]
    /\ conf \in [CR -> Password \cup {Missing}]
    /\ pc \in [CR -> {"idle", "admin", "config"}]
    /\ mem \in [CR -> [admin : Specs, password : Password \cup {Missing}]]
    /\ queued \subseteq CR
    /\ budget \in 0..MaxDisturbances

Quiet == /\ Busy = {}
         /\ queued = {}
         /\ crSeen = cr
         /\ \A n \in Name : events[n] = {} /\ ~Dangling(n)

Right(c) == /\ conf[c] # Missing
            /\ conf[c] = secret[AdminName(c, cr[c].admin)].password

\* When everything has calmed down, every CR has the password of the secret it
\* names, so that all that share one agree, whoever of their workers wrote it,
\* and although the deletion of its owner may have taken the secret away from
\* the others (filterOdooDeploymentsUsingSecret, adminpassword.go:57-78).
Agreed == Quiet => \A c \in CR : cr[c].exists => Right(c)

\* A password that exists is never replaced by a worker: of two that found none,
\* with caches of any age, one gives in (adminpassword.go:61, 71).
FirstWins ==
    [][\A c \in CR : Handler(c) =>
          \A n \in Name : secret[n].password # Missing => secret'[n] = secret[n]]_vars

\* Every CR that stays ends up with the password of its secret.
Converges == \A c \in CR : <>[]cr[c].exists => <>[]Right(c)

-----------------------------------------------------------------------------
(* Inductive invariant (proved in SharedAdminProofs)                        *)

\* The handler of c is going to run: it is queued, or a change is on its way that
\* will queue it.
Stirring(c) == \/ c \in queued
               \/ \E n \in Name : \/ c \in events[n]
                                  \/ Useful \in events[n] /\ c \in UsingSecret(n)

\* A secret no user touches is there with a password or not at all, and nobody's;
\* its cached copy is that or older.
UntouchedInv ==
    \A n \in Name \ Touched :
        /\ \/ secret[n] = NoSecret
           \/ secret[n].owner = NoOwner /\ secret[n].password # Missing
        /\ seen[n] \in {NoSecret, secret[n]}

\* A cached password is out of date only as long as an event says so.
CachesInv == \A n \in Name : seen[n].password # secret[n].password => Useful \in events[n]

\* What a handler holds and has written is right unless it is going to run again.
Admin(c) == secret[AdminName(c, crSeen[c].admin)].password
HeldInv ==
    \A c \in CR : crSeen[c].exists /\ ~Stirring(c) =>
        /\ pc[c] # "idle" => mem[c].admin = crSeen[c].admin
        /\ pc[c] = "config" => mem[c].password = Admin(c) /\ mem[c].password # Missing
        /\ pc[c] = "idle" => conf[c] = Admin(c) /\ conf[c] # Missing

SettleInv == UntouchedInv /\ CachesInv /\ HeldInv
=============================================================================
