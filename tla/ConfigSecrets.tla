--------------------------- MODULE ConfigSecrets ---------------------------
(***************************************************************************)
(* How odoo.conf follows the secrets it is rendered from: the first two     *)
(* reconcile loops (adminpassword.go, configsecret.go), the resolution of   *)
(* the database settings (api/v1/odoodeployment_funcs.go:21-139), and the   *)
(* watches that bring the handler back when a secret changes                *)
(* (odoodeployment_controller.go:224-271, odoodeployment_predicates.go).    *)
(*                                                                          *)
(* Every read goes to the informer caches, which lag; every setting is read *)
(* by a call of its own, so a secret may change between two of them.  The   *)
(* question is whether odoo.conf is right once everything has calmed down.  *)
(*                                                                          *)
(* The settings stand for: a text with a default, a number with a default,  *)
(* the required password, and a flag that odoo.conf does not hold.          *)
(***************************************************************************)
EXTENDS Naturals, FiniteSets

CONSTANTS
    Name,             \* names of the secrets the user may refer to
    DefaultAdmin,     \* "<name>-admin-password", in Name as well
    NoName,           \* an empty name in the spec
    Value,            \* what a key of a secret holds
    Junk,             \* a value that is neither a number nor a flag
    Generated,        \* the passwords the generator may return
    Default,          \* the value of a setting given in the spec itself
    Missing,          \* no value
    Specs,            \* the specs users write
    UserData,         \* the data users put into secrets
    Touched,          \* the secrets the user changes
    Kinds,            \* the disturbances that may happen
    MaxDisturbances   \* how many of them

Field == {"host", "port", "password", "ssl"}
Data == [Field -> Value \cup {Missing}]

\* A reference to a secret counts only if it names both secret and key; the
\* key of a field is called as the field.
Ref == [name : Name \cup {NoName}, keyed : BOOLEAN]
SpecType == [refs : [Field -> Ref], admin : Name \cup {NoName}]

ASSUME NamesAssumption == /\ DefaultAdmin \in Name
                          /\ NoName \notin Name
                          /\ Touched \subseteq Name
ASSUME ValuesAssumption == /\ Missing \notin Value
                           /\ Generated \subseteq Value
                           /\ Default # Missing
ASSUME InputsAssumption == Specs \subseteq SpecType /\ UserData \subseteq Data
ASSUME BoundAssumption == MaxDisturbances \in Nat

VARIABLES
    cr,          \* the spec in the API server
    crSeen,      \* the informer's copy of it
    secrets,     \* the user's secrets and the admin secrets
    seen,        \* the informer's copy of them
    config,      \* the secret "<name>-config" with odoo.conf
    configSeen,  \* the informer's copy of it
    events,      \* what the undelivered changes of each secret will say
    configEvents,  \* and those of the config secret
    pc,          \* the next call of the handler
    mem,         \* what the handler has read so far
    queued,      \* the request is in the work queue
    budget       \* disturbances still allowed

server == <<cr, secrets, config>>
feeds == <<events, configEvents>>
caches == <<crSeen, seen, configSeen>>
vars == <<server, caches, feeds, pc, mem, queued, budget>>

-----------------------------------------------------------------------------
(* Data *)

Secret == [exists : BOOLEAN, owned : BOOLEAN, data : Data]
NoData == [f \in Field |-> Missing]
NoSecret == [exists |-> FALSE, owned |-> FALSE, data |-> NoData]

Line == {"admin", "host", "port", "password"}
Setting == Value \cup {Default, Missing}
Conf == [Line -> Setting]
NoConf == [l \in Line |-> Missing]
Config == [exists : BOOLEAN, owned : BOOLEAN, conf : Conf]
NoConfig == [exists |-> FALSE, owned |-> FALSE, conf |-> NoConf]

Memory == [spec : SpecType, admin : Setting, config : Config,
           got : [Field -> Setting]]

\* A change is told to the handlers of owned objects if the object was or is
\* owned, and passes secretsPredicate if it is a creation, a deletion or another
\* content.  Changes that pile up may be delivered together.
Event == {"owned", "useful"}
Told(old, new, content, newContent) ==
    {e \in Event : \/ e = "owned" /\ old # new /\ (old.owned \/ new.owned)
                   \/ e = "useful" /\ (old.exists # new.exists \/ content # newContent)}

Put(n, new) ==
    /\ secrets' = [secrets EXCEPT ![n] = new]
    /\ events' = [events EXCEPT ![n] =
                      @ \cup Told(secrets[n], new, secrets[n].data, new.data)]

PutConfig(new) ==
    /\ config' = new
    /\ configEvents' = configEvents \cup Told(config, new, config.conf, new.conf)

Steps == {"idle", "admin", "config", "write"} \cup Field
After == [host |-> "port", port |-> "password", password |-> "ssl", ssl |-> "write"]

Calm == UNCHANGED budget
Disturb(kind) == /\ kind \in Kinds
                 /\ budget > 0
                 /\ budget' = budget - 1

-----------------------------------------------------------------------------
(* What the code computes *)

\* CreateOdooAdminPasswordSecretNamespacedName
AdminName(spec) == IF spec.admin = NoName THEN DefaultAdmin ELSE spec.admin

\* GetHost, GetPort, ...: a complete reference wins over the spec's own value;
\* the password has none.  A value that cannot be converted is an error.
Parses(f, v) == f \in {"port", "ssl"} => v # Junk

\* The value of a field, or Missing for an error.
Resolve(spec, view, f) ==
    LET ref == spec.refs[f] IN
    IF ref.name # NoName /\ ref.keyed
    THEN IF Parses(f, view[ref.name].data[f]) THEN view[ref.name].data[f] ELSE Missing
    ELSE IF f = "password" THEN Missing ELSE Default

\* Mutant: the flag is rendered as well.
RenderedAll(admin, got) ==
    [l \in Line \cup Field |-> IF l = "admin" THEN admin ELSE got[l]]

\* GetSerializedOdooConfig: the flag is not among the lines.
Rendered(admin, got) ==
    [l \in Line |-> IF l = "admin" THEN admin ELSE got[l]]

\* Mutant: the user's own admin secret is forgotten.
UsesDbSecret(spec, n) == \E f \in Field : spec.refs[f].name = n

\* UsesSecret: any reference counts, but the default admin secret has no name.
UsesSecret(spec, n) ==
    \/ \E f \in Field : spec.refs[f].name = n
    \/ spec.admin = n

-----------------------------------------------------------------------------
(* The handler *)

NoMemory == [spec |-> mem.spec, admin |-> Missing, config |-> NoConfig,
             got |-> [f \in Field |-> Missing]]

\* An error of a loop is returned, which requeues the request.
Fail == /\ pc' = "idle"
        /\ mem' = NoMemory
        /\ queued' = TRUE
        /\ UNCHANGED <<server, feeds>>

StartReconcile ==
    /\ pc = "idle"
    /\ queued
    /\ queued' = FALSE
    /\ mem' = [NoMemory EXCEPT !.spec = crSeen]
    /\ pc' = "admin"
    /\ UNCHANGED <<server, caches, feeds, budget>>

\* The admin secret.  When it is created, the owner reference is refused since
\* the object has no namespace yet (adminpassword.go:56); an update sets it.
AdminKept(view) ==
    /\ view.data["password"] # Missing
    /\ mem' = [mem EXCEPT !.admin = view.data["password"]]
    /\ UNCHANGED <<secrets, events>>

NewAdmin(owned, password) == [exists |-> TRUE, owned |-> owned,
                              data |-> [NoData EXCEPT !["password"] = password]]

\* Mutant: the write does not compare the version that was read.
AdminForced(n, view, password) ==
    /\ view.data["password"] = Missing
    /\ Put(n, NewAdmin(view.exists, password))
    /\ mem' = [mem EXCEPT !.admin = password]

AdminWritten(n, view, password) ==
    /\ view.data["password"] = Missing
    /\ secrets[n] = view
    /\ Put(n, NewAdmin(view.exists, password))
    /\ mem' = [mem EXCEPT !.admin = password]

ReconcileAdmin ==
    /\ pc = "admin"
    /\ LET n == AdminName(mem.spec) IN
       \/ /\ \/ AdminKept(seen[n])
             \/ \E password \in Generated : AdminWritten(n, seen[n], password)
          /\ pc' = "config"
          /\ Calm
          /\ UNCHANGED <<cr, config, configEvents, queued>>
       \/ /\ seen[n].data["password"] = Missing
          /\ secrets[n] # seen[n]
          /\ Fail
          /\ Calm
       \/ Fail /\ Disturb("apiError")
    /\ UNCHANGED caches

\* The config secret is read first, then every setting.
ReadConfig ==
    /\ pc = "config"
    /\ \/ /\ mem' = [mem EXCEPT !.config = configSeen]
          /\ pc' = "host"
          /\ Calm
          /\ UNCHANGED <<server, feeds, queued>>
       \/ Fail /\ Disturb("apiError")
    /\ UNCHANGED caches

ReadField(f) ==
    /\ pc = f
    /\ LET v == Resolve(mem.spec, seen, f) IN
       \/ /\ v # Missing
          /\ mem' = [mem EXCEPT !.got[f] = v]
          /\ pc' = After[f]
          /\ Calm
          /\ UNCHANGED <<server, feeds, queued>>
       \/ v = Missing /\ Fail /\ Calm
       \/ Fail /\ Disturb("apiError")
    /\ UNCHANGED caches

\* Mutant: an update does not set the owner reference either.
NewConfigUnowned == [exists |-> TRUE, owned |-> FALSE,
                     conf |-> Rendered(mem.admin, mem.got)]

\* Create or update the config secret.  The object that is created carries no
\* owner reference (configsecret.go:62,68), the one that is updated does.
NewConfig == [exists |-> TRUE, owned |-> mem.config.exists,
              conf |-> Rendered(mem.admin, mem.got)]
ConfigDiffers == ~mem.config.exists \/ mem.config.conf # NewConfig.conf

\* The rest of the handler may ask for a requeue.
WriteConfig ==
    /\ pc = "write"
    /\ \/ /\ IF ConfigDiffers THEN config = mem.config /\ PutConfig(NewConfig)
                              ELSE UNCHANGED <<config, configEvents>>
          /\ queued' \in {queued, TRUE}
          /\ pc' = "idle"
          /\ mem' = NoMemory
          /\ Calm
          /\ UNCHANGED <<cr, secrets, events>>
       \/ ConfigDiffers /\ config # mem.config /\ Fail /\ Calm
       \/ Fail /\ Disturb("apiError")
    /\ UNCHANGED caches

Worker == \/ StartReconcile \/ ReconcileAdmin \/ ReadConfig
          \/ \E f \in Field : ReadField(f)
          \/ WriteConfig

\* The operator restarts; the initial lists queue every CR.
Crash == Fail /\ Disturb("crash") /\ UNCHANGED caches

-----------------------------------------------------------------------------
(* Watches *)

SyncCR ==
    /\ crSeen # cr
    /\ crSeen' = cr
    /\ queued' = TRUE
    /\ UNCHANGED <<server, seen, configSeen, feeds, pc, mem, budget>>

\* An owned object queues its owner; a secret that a CR in the cache uses queues
\* that CR if the change is useful.
SyncSecret(n) ==
    /\ events[n] # {}
    /\ seen' = [seen EXCEPT ![n] = secrets[n]]
    /\ events' = [events EXCEPT ![n] = {}]
    /\ queued' = \/ queued
                 \/ "owned" \in events[n]
                 \/ "useful" \in events[n] /\ UsesSecret(crSeen, n)
    /\ UNCHANGED <<server, crSeen, configSeen, configEvents, pc, mem, budget>>

SyncConfig ==
    /\ configEvents # {}
    /\ configSeen' = config
    /\ configEvents' = {}
    /\ queued' = (queued \/ "owned" \in configEvents)
    /\ UNCHANGED <<server, crSeen, seen, events, pc, mem, budget>>

\* The periodic resync, or an event of another object of the CR.
Resync ==
    /\ ~queued
    /\ queued' = TRUE
    /\ UNCHANGED <<server, caches, feeds, pc, mem, budget>>

-----------------------------------------------------------------------------
(* The user *)

EditSpec ==
    /\ Disturb("edit")
    /\ cr' \in Specs
    /\ UNCHANGED <<secrets, config, caches, feeds, pc, mem, queued>>

WriteSecret(n) ==
    /\ Disturb("secret")
    /\ \E d \in UserData :
          Put(n, [exists |-> TRUE, owned |-> secrets[n].owned, data |-> d])
    /\ UNCHANGED <<cr, config, configEvents, caches, pc, mem, queued>>

DeleteSecret(n) ==
    /\ Disturb("secret")
    /\ secrets[n].exists
    /\ Put(n, NoSecret)
    /\ UNCHANGED <<cr, config, configEvents, caches, pc, mem, queued>>

User == EditSpec \/ \E n \in Touched : WriteSecret(n) \/ DeleteSecret(n)

-----------------------------------------------------------------------------
\* The user's secrets are there or not when the operator meets the CR.
Init ==
    /\ cr \in Specs
    /\ crSeen = cr
    /\ \E d \in UserData :
          secrets = [n \in Name |-> IF n \in Touched \ {DefaultAdmin}
                        THEN [exists |-> TRUE, owned |-> FALSE, data |-> d]
                        ELSE NoSecret]
    /\ seen = secrets
    /\ config = NoConfig
    /\ configSeen = NoConfig
    /\ events = [n \in Name |-> {}]
    /\ configEvents = {}
    /\ pc = "idle"
    /\ mem = [spec |-> cr, admin |-> Missing, config |-> NoConfig,
              got |-> [f \in Field |-> Missing]]
    /\ queued = TRUE
    /\ budget = MaxDisturbances

Watches == SyncCR \/ SyncConfig \/ \E n \in Name : SyncSecret(n)

Next == Worker \/ Crash \/ Watches \/ Resync \/ User

Spec == Init /\ [][Next]_vars

\* A queued request is worked on until the handler returns, and as long as changes
\* are undelivered the watches deliver some.  Nothing is assumed of the periodic
\* resync, hours apart.
Fairness == /\ WF_vars(Worker)
            /\ WF_vars(Watches)

FairSpec == Spec /\ Fairness

-----------------------------------------------------------------------------
(* Properties *)

TypeOK ==
    /\ {cr, crSeen} \subseteq SpecType
    /\ {secrets, seen} \subseteq [Name -> Secret]
    /\ {config, configSeen} \subseteq Config
    /\ events \in [Name -> SUBSET Event]
    /\ configEvents \subseteq Event
    /\ pc \in Steps
    /\ mem \in Memory
    /\ queued \in BOOLEAN
    /\ budget \in 0..MaxDisturbances

\* Nothing is queued, under way or undelivered.
Quiet == /\ pc = "idle"
         /\ ~queued
         /\ crSeen = cr
         /\ \A n \in Name : events[n] = {}
         /\ configEvents = {}

Resolvable == \A f \in Field : Resolve(cr, secrets, f) # Missing
Follows == /\ config.exists
           /\ config.conf = Rendered(secrets[AdminName(cr)].data["password"],
                                     [f \in Field |-> Resolve(cr, secrets, f)])

\* When everything has calmed down, odoo.conf is what the spec and the secrets
\* say, all of them: no order of reads, writes, conflicts, lagging events and
\* restarts leaves a stale or a mixed configuration behind (configsecret.go:30-87,
\* UsesSecret, secretsPredicate).
Settled == Quiet => Resolvable /\ Follows

\* The operator never replaces an admin password that exists, whatever its cache
\* says (adminpassword.go:57-78).
PasswordKept ==
    [][ReconcileAdmin => \A n \in Name :
          secrets[n].data["password"] # Missing => secrets'[n] = secrets[n]]_vars

\* Once the user leaves it alone in a state that can be resolved, odoo.conf
\* becomes right and stays so.
Converges == <>[]Resolvable => <>[]Follows

-----------------------------------------------------------------------------
(* Inductive invariant (proved in ConfigSecretsProofs)                      *)

\* The handler is going to run: the request is queued, or a change is on its way
\* that will queue it.
Concerns(n) == \/ "owned" \in events[n]
               \/ "useful" \in events[n] /\ UsesSecret(crSeen, n)
Stirring == queued \/ (\E n \in Name : Concerns(n)) \/ "owned" \in configEvents

\* A cached secret differs in content only as long as an event says so; that of
\* the generated admin secret is final once it has a password.
SecretsInv ==
    /\ \A n \in Name : seen[n].data # secrets[n].data => "useful" \in events[n]
    /\ seen[DefaultAdmin].data["password"] # Missing
       => seen[DefaultAdmin].data = secrets[DefaultAdmin].data

\* The cached config secret is the one there is, or none, or its owner is about to
\* be told.
ConfigInv == /\ \/ configSeen = config
                \/ ~configSeen.exists
                \/ "owned" \in configEvents
             /\ configSeen.exists => config.exists

\* What the handler has read by its place, and what it holds then unless it is
\* going to run anyway.
Read == [idle |-> {}, admin |-> {}, config |-> {}, host |-> {}, port |-> {"host"},
         password |-> {"host", "port"}, ssl |-> {"host", "port", "password"},
         write |-> Field]
Admin(spec) == secrets[AdminName(spec)].data["password"]

HeldInv ==
    /\ pc # "idle" => mem.spec = crSeen
    /\ pc \notin {"idle", "admin"} => mem.admin = Admin(crSeen) /\ mem.admin # Missing
    /\ pc \notin {"idle", "admin", "config"}
       => mem.config = config \/ ~mem.config.exists
    /\ \A f \in Read[pc] : /\ mem.got[f] = Resolve(crSeen, secrets, f)
                           /\ mem.got[f] # Missing

\* The end of a run.
DoneInv ==
    pc = "idle" =>
        /\ \A f \in Field : Resolve(crSeen, secrets, f) # Missing
        /\ config.exists
        /\ config.conf = Rendered(Admin(crSeen),
                                  [f \in Field |-> Resolve(crSeen, secrets, f)])

SettleInv == /\ SecretsInv
             /\ ConfigInv
             /\ ~Stirring => HeldInv /\ DoneInv
=============================================================================
