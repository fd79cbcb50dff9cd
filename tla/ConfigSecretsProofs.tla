------------------------ MODULE ConfigSecretsProofs ------------------------
(***************************************************************************)
(* Theorems about ConfigSecrets, for every set of names, values, specs and  *)
(* contents of secrets and every number of disturbances.                    *)
(***************************************************************************)
EXTENDS ConfigSecrets, TLAPS

-----------------------------------------------------------------------------
(* Type correctness *)

LEMMA TypeOfPut ==
    ASSUME TypeOK, NEW n \in Name, NEW new \in Secret, Put(n, new)
    PROVE  secrets' \in [Name -> Secret] /\ events' \in [Name -> SUBSET Event]
  <1>1. Told(secrets[n], new, secrets[n].data, new.data) \in SUBSET Event
    BY DEF Told
  <1> QED
    BY <1>1 DEF TypeOK, Put

\* A disturbance is taken from the budget, a calm step leaves it.
LEMMA TypeOfBudget ==
    ASSUME budget \in 0..MaxDisturbances, Calm \/ \E kind : Disturb(kind)
    PROVE  budget' \in 0..MaxDisturbances
  BY BoundAssumption DEF Calm, Disturb

\* What a field resolves to is a setting, and the admin secret has a name.
LEMMA TypeOfResolve ==
    ASSUME NEW spec \in SpecType, NEW view \in [Name -> Secret], NEW f \in Field
    PROVE  Resolve(spec, view, f) \in Setting
  <1>1. spec.refs[f] \in Ref
    BY DEF SpecType
  <1>2. ASSUME spec.refs[f].name # NoName
        PROVE  view[spec.refs[f].name].data[f] \in Setting
    <2>1. spec.refs[f].name \in Name
      BY <1>1, <1>2 DEF Ref
    <2>2. view[spec.refs[f].name].data \in Data
      BY <2>1 DEF Secret
    <2> QED
      BY <2>2 DEF Data, Setting
  <1> QED
    BY <1>2 DEF Resolve, Setting

LEMMA TypeOfAdminName ==
    ASSUME NEW spec \in SpecType
    PROVE  AdminName(spec) \in Name
  BY NamesAssumption DEF AdminName, SpecType

LEMMA TypeOfNewAdmin ==
    ASSUME NEW owned \in BOOLEAN, NEW password \in Value
    PROVE  /\ NewAdmin(owned, password) \in Secret
           /\ NewAdmin(owned, password).data["password"] = password
  BY DEF NewAdmin, NoData, Secret, Data, Field

LEMMA TypeOfRendered ==
    ASSUME NEW admin \in Setting, NEW got \in [Field -> Setting]
    PROVE  Rendered(admin, got) \in Conf
  BY DEF Rendered, Conf, Line, Field

LEMMA TypeOfNoMemory ==
    ASSUME TypeOK
    PROVE  NoMemory \in Memory
  <1>1. NoConfig \in Config
    BY DEF NoConfig, NoConf, Config, Conf, Setting
  <1> QED
    BY <1>1 DEF NoMemory, Memory, TypeOK, Setting

\* A failed run changes nothing but the handler and the queue.
LEMMA TypeOfFail ==
    ASSUME TypeOK, Fail, UNCHANGED caches, Calm \/ \E kind : Disturb(kind)
    PROVE  TypeOK'
  <1>1. budget' \in 0..MaxDisturbances
    BY TypeOfBudget DEF TypeOK
  <1> QED
    BY <1>1, TypeOfNoMemory DEF TypeOK, Fail, Steps, server, feeds, caches

LEMMA TypeOfReconcileAdmin ==
    ASSUME TypeOK, ReconcileAdmin
    PROVE  TypeOK'
  <1> DEFINE n == AdminName(mem.spec)
  <1>1. CASE Fail
    BY <1>1, TypeOfFail DEF ReconcileAdmin
  <1>2. CASE ~Fail
    <2>1. mem \in Memory /\ mem.spec \in SpecType
      BY DEF TypeOK, Memory
    <2>2. n \in Name /\ seen[n] \in Secret
      BY <2>1, TypeOfAdminName DEF TypeOK
    <2>3. /\ AdminKept(seen[n])
             \/ \E password \in Generated : AdminWritten(n, seen[n], password)
          /\ pc' = "config"
          /\ Calm
          /\ UNCHANGED <<cr, config, configEvents, queued, crSeen, seen, configSeen>>
      BY <1>2 DEF ReconcileAdmin, caches
    <2>4. CASE AdminKept(seen[n])
      <3>1. seen[n].data["password"] \in Setting
        BY <2>2 DEF Secret, Data, Field, Setting
      <3>2. mem' \in Memory
        BY <2>1, <2>4, <3>1 DEF AdminKept, Memory
      <3> QED
        BY <2>3, <2>4, <3>2 DEF AdminKept, TypeOK, Steps, Calm
    <2>5. ASSUME NEW password \in Generated, AdminWritten(n, seen[n], password)
          PROVE  TypeOK'
      <3>1. password \in Value /\ seen[n].exists \in BOOLEAN
        BY <2>2, ValuesAssumption DEF Secret
      <3>2. secrets' \in [Name -> Secret] /\ events' \in [Name -> SUBSET Event]
        BY <2>2, <2>5, <3>1, TypeOfNewAdmin, TypeOfPut DEF AdminWritten
      <3>3. mem' \in Memory
        BY <2>1, <2>5, <3>1 DEF AdminWritten, Memory, Setting
      <3> QED
        BY <2>3, <3>2, <3>3 DEF TypeOK, Steps, Calm
    <2> QED
      BY <2>3, <2>4, <2>5
  <1> QED
    BY <1>1, <1>2

LEMMA TypeOfReads ==
    ASSUME TypeOK, ReadConfig \/ \E f \in Field : ReadField(f)
    PROVE  TypeOK'
  <1>0. mem \in Memory /\ mem.spec \in SpecType
    BY DEF TypeOK, Memory
  <1>1. CASE Fail
    BY <1>1, TypeOfFail DEF ReadConfig, ReadField
  <1>2. CASE ~Fail /\ ReadConfig
    <2>1. mem' \in Memory
      BY <1>0, <1>2 DEF ReadConfig, TypeOK, Memory
    <2> QED
      BY <1>2, <2>1 DEF ReadConfig, TypeOK, Steps, Field, Calm, server, feeds, caches
  <1>3. ASSUME NEW f \in Field, ReadField(f), ~Fail
        PROVE  TypeOK'
    <2>1. Resolve(mem.spec, seen, f) \in Setting
      BY <1>0, TypeOfResolve DEF TypeOK
    <2>2. mem' = [mem EXCEPT !.got[f] = Resolve(mem.spec, seen, f)]
      BY <1>3 DEF ReadField
    <2>3. mem' \in Memory
      BY <1>0, <2>1, <2>2 DEF Memory
    <2>4. pc' \in Steps
      BY <1>3 DEF ReadField, After, Steps, Field
    <2> QED
      BY <1>3, <2>3, <2>4 DEF ReadField, TypeOK, Calm, server, feeds, caches
  <1> QED
    BY <1>1, <1>2, <1>3

LEMMA TypeOfWriteConfig ==
    ASSUME TypeOK, WriteConfig
    PROVE  TypeOK'
  <1>1. CASE Fail
    BY <1>1, TypeOfFail DEF WriteConfig
  <1>2. CASE ~Fail
    <2>1. mem \in Memory
      BY DEF TypeOK
    <2>2. NewConfig \in Config
      <3>1. mem.config.exists \in BOOLEAN /\ mem.admin \in Setting
            /\ mem.got \in [Field -> Setting]
        BY <2>1 DEF Memory, Config
      <3> QED
        BY <3>1, TypeOfRendered DEF NewConfig, Config
    <2>3. PutConfig(NewConfig) => config' \in Config /\ configEvents' \subseteq Event
      BY <2>2 DEF PutConfig, Told, TypeOK
    <2>4. config' \in Config /\ configEvents' \subseteq Event /\ queued' \in BOOLEAN
      BY <1>2, <2>3 DEF WriteConfig, TypeOK
    <2> QED
      BY <1>2, <2>4, TypeOfNoMemory DEF WriteConfig, TypeOK, Steps, Calm, caches
  <1> QED
    BY <1>1, <1>2

LEMMA TypeOfUser ==
    ASSUME TypeOK, User
    PROVE  TypeOK'
  <1>1. budget' \in 0..MaxDisturbances
    BY TypeOfBudget DEF User, EditSpec, WriteSecret, DeleteSecret, TypeOK
  <1>2. CASE EditSpec
    BY <1>1, <1>2, InputsAssumption DEF EditSpec, TypeOK, caches, feeds
  <1>3. ASSUME NEW n \in Touched, WriteSecret(n) \/ DeleteSecret(n)
        PROVE  TypeOK'
    <2>1. n \in Name
      BY NamesAssumption
    <2>2. NoSecret \in Secret
      BY DEF NoSecret, NoData, Secret, Data
    <2>3. \A d \in UserData :
             [exists |-> TRUE, owned |-> secrets[n].owned, data |-> d] \in Secret
      BY <2>1, InputsAssumption DEF TypeOK, Secret
    <2>4. secrets' \in [Name -> Secret] /\ events' \in [Name -> SUBSET Event]
      BY <1>3, <2>1, <2>2, <2>3, TypeOfPut DEF WriteSecret, DeleteSecret
    <2> QED
      BY <1>1, <1>3, <2>4 DEF WriteSecret, DeleteSecret, TypeOK, caches
  <1> QED
    BY <1>2, <1>3 DEF User

\* Every step keeps the types.
LEMMA TypeStep == TypeOK /\ [Next]_vars => TypeOK'
  <1> SUFFICES ASSUME TypeOK, [Next]_vars
               PROVE  TypeOK'
    OBVIOUS
  <1>1. CASE StartReconcile
    <2>1. mem' \in Memory
      BY <1>1, TypeOfNoMemory DEF StartReconcile, TypeOK, Memory
    <2> QED
      BY <1>1, <2>1 DEF StartReconcile, TypeOK, Steps, server, caches, feeds
  <1>2. CASE ReconcileAdmin
    BY <1>2, TypeOfReconcileAdmin
  <1>3. CASE ReadConfig \/ \E f \in Field : ReadField(f)
    BY <1>3, TypeOfReads
  <1>4. CASE WriteConfig
    BY <1>4, TypeOfWriteConfig
  <1>5. CASE Crash
    BY <1>5, TypeOfFail DEF Crash
  <1>6. CASE SyncCR \/ SyncConfig \/ Resync
    BY <1>6 DEF SyncCR, SyncConfig, Resync, TypeOK, server, caches, feeds
  <1>7. ASSUME NEW n \in Name, SyncSecret(n)
        PROVE  TypeOK'
    <2>1. queued' \in BOOLEAN
      BY <1>7 DEF SyncSecret
    <2> QED
      BY <1>7, <2>1 DEF SyncSecret, TypeOK, server
  <1>8. CASE User
    BY <1>8, TypeOfUser
  <1>9. CASE UNCHANGED vars
    BY <1>9 DEF vars, TypeOK, server, caches, feeds
  <1> QED
    BY <1>1, <1>2, <1>3, <1>4, <1>5, <1>6, <1>7, <1>8, <1>9 DEF Next, Worker, Watches

LEMMA TypeInit == Init => TypeOK
  <1> SUFFICES ASSUME Init
               PROVE  TypeOK
    OBVIOUS
  <1>1. cr \in SpecType
    BY InputsAssumption DEF Init
  <1>2. NoSecret \in Secret /\ NoConfig \in Config
    BY DEF NoSecret, NoData, Secret, Data, NoConfig, NoConf, Config, Conf, Setting
  <1>3. secrets \in [Name -> Secret]
    <2>1. \A d \in UserData : [exists |-> TRUE, owned |-> FALSE, data |-> d] \in Secret
      BY InputsAssumption DEF Secret
    <2> QED
      BY <1>2, <2>1 DEF Init
  <1>4. mem \in Memory
    BY <1>1, <1>2 DEF Init, Memory, Setting
  <1>5. /\ crSeen = cr /\ seen = secrets /\ config = NoConfig /\ configSeen = NoConfig
        /\ events \in [Name -> SUBSET Event] /\ configEvents \subseteq Event
        /\ pc = "idle" /\ queued = TRUE /\ budget = MaxDisturbances
    BY DEF Init
  <1> QED
    BY <1>1, <1>2, <1>3, <1>4, <1>5, BoundAssumption DEF TypeOK, Steps

\* Every variable keeps its type, whatever users, errors and crashes do.
THEOREM TypeCorrect == Spec => []TypeOK
  BY TypeInit, TypeStep, PTL DEF Spec

-----------------------------------------------------------------------------
(* The admin password *)

\* No step of the handler changes a secret that has a password, however far its
\* cache lags: the write compares the version that was read (adminpassword.go:57).
THEOREM PasswordIsKept == Spec => PasswordKept
  <1>1. TypeOK /\ [Next]_vars
        => [ReconcileAdmin => \A n \in Name :
               secrets[n].data["password"] # Missing => secrets'[n] = secrets[n]]_vars
    <2> SUFFICES ASSUME TypeOK, ReconcileAdmin, NEW n \in Name,
                        secrets[n].data["password"] # Missing
                 PROVE  secrets'[n] = secrets[n]
      OBVIOUS
    <2>1. ASSUME NEW password, AdminWritten(AdminName(mem.spec),
                                            seen[AdminName(mem.spec)], password)
          PROVE  secrets'[n] = secrets[n]
      <3>1. n # AdminName(mem.spec)
        BY <2>1 DEF AdminWritten
      <3> QED
        BY <2>1, <3>1 DEF AdminWritten, Put, TypeOK
    <2> QED
      BY <2>1 DEF ReconcileAdmin, AdminKept, Fail, server
  <1> QED
    BY <1>1, TypeCorrect, PTL DEF Spec, PasswordKept

-----------------------------------------------------------------------------
(* Settling                                                                 *)
(*                                                                          *)
(* Users do not touch the secret with the generated admin password: the     *)
(* mapping of secrets to CRs does not know its name.                        *)

\* A write that changes the content of a secret says so, and no event is taken
\* back.
LEMMA PutTells ==
    ASSUME TypeOK, NEW n \in Name, NEW new, Put(n, new)
    PROVE  /\ secrets'[n] = new
           /\ \A m \in Name : m # n => secrets'[m] = secrets[m]
           /\ \A m \in Name : events[m] \subseteq events'[m]
           /\ secrets[n].data # new.data => "useful" \in events'[n]
  <1>1. secrets'[n] = new /\ \A m \in Name : m # n => secrets'[m] = secrets[m]
    BY DEF TypeOK, Put
  <1>2. events'[n] = events[n] \cup Told(secrets[n], new, secrets[n].data, new.data)
    BY DEF TypeOK, Put
  <1>3. \A m \in Name : m # n => events'[m] = events[m]
    BY DEF TypeOK, Put
  <1>4. secrets[n].data # new.data
        => "useful" \in Told(secrets[n], new, secrets[n].data, new.data)
    BY DEF Told, Event
  <1> QED
    BY <1>1, <1>2, <1>3, <1>4

\* A secret nobody refers to does not matter.
LEMMA SameRead ==
    ASSUME NEW spec \in SpecType, NEW u, NEW v,
           \A n \in Name : UsesSecret(spec, n) => u[n].data = v[n].data
    PROVE  \A f \in Field : Resolve(spec, u, f) = Resolve(spec, v, f)
  <1> SUFFICES ASSUME NEW f \in Field
               PROVE  Resolve(spec, u, f) = Resolve(spec, v, f)
    OBVIOUS
  <1>1. spec.refs[f] \in Ref
    BY DEF SpecType
  <1>2. ASSUME spec.refs[f].name # NoName
        PROVE  u[spec.refs[f].name].data = v[spec.refs[f].name].data
    BY <1>1, <1>2 DEF Ref, UsesSecret
  <1> QED
    BY <1>2 DEF Resolve

\* What is not stirring after a step was not stirring before it, but for a run
\* that starts.
LEMMA CalmBefore ==
    ASSUME TypeOK, [Next]_vars, ~Stirring', ~StartReconcile
    PROVE  ~Stirring /\ ~queued' /\ crSeen' = crSeen
  <1>1. ~queued' /\ queued' \in BOOLEAN /\ queued \in BOOLEAN
    BY TypeStep DEF Stirring, TypeOK
  <1>2. crSeen' = crSeen
    BY <1>1 DEF Next, Worker, StartReconcile, ReconcileAdmin, ReadConfig, ReadField,
           WriteConfig, Crash, Fail, Watches, SyncCR, SyncSecret, SyncConfig, Resync, User,
           EditSpec, WriteSecret, DeleteSecret, vars, caches
  <1>3. ASSUME queued' = queued, \A m \in Name : events[m] \subseteq events'[m],
               configEvents \subseteq configEvents'
        PROVE  ~Stirring
    BY <1>1, <1>2, <1>3 DEF Stirring, Concerns, UsesSecret
  <1>4. ASSUME UNCHANGED <<queued, events, configEvents>>
        PROVE  ~Stirring
    <2>1. \A m \in Name : events[m] \subseteq events'[m]
      BY <1>4
    <2> QED
      BY <1>3, <1>4, <2>1
  <1>5. ASSUME ReconcileAdmin, ~Fail
        PROVE  ~Stirring
    <2> DEFINE n == AdminName(mem.spec)
    <2>1. n \in Name
      BY TypeOfAdminName DEF TypeOK, Memory
    <2>2. queued' = queued /\ configEvents' = configEvents
      BY <1>1, <1>5 DEF ReconcileAdmin, Fail
    <2>3. CASE events' = events
      BY <1>4, <2>2, <2>3
    <2>4. CASE \E new : Put(n, new)
      BY <1>3, <2>1, <2>2, <2>4, PutTells
    <2> QED
      BY <1>5, <2>3, <2>4 DEF ReconcileAdmin, AdminKept, AdminWritten
  <1>6. ASSUME WriteConfig, ~Fail
        PROVE  ~Stirring
    <2>1. queued' = queued /\ events' = events /\ configEvents \subseteq configEvents'
      BY <1>1, <1>6 DEF WriteConfig, PutConfig
    <2> QED
      BY <1>3, <2>1
  <1>7. ASSUME NEW n \in Name, SyncSecret(n)
        PROVE  ~Stirring
    <2>1. /\ ~queued /\ "owned" \notin events[n]
          /\ ~("useful" \in events[n] /\ UsesSecret(crSeen, n))
          /\ configEvents' = configEvents
      BY <1>1, <1>7 DEF SyncSecret
    <2>2. \A m \in Name : m # n => events'[m] = events[m]
      BY <1>7 DEF SyncSecret, TypeOK
    <2> QED
      BY <1>2, <2>1, <2>2 DEF Stirring, Concerns, UsesSecret
  <1>8. CASE SyncConfig
    <2>1. ~queued /\ "owned" \notin configEvents /\ events' = events
      BY <1>1, <1>8 DEF SyncConfig
    <2> QED
      BY <1>2, <2>1 DEF Stirring, Concerns, UsesSecret
  <1>9. ASSUME NEW n \in Touched, WriteSecret(n) \/ DeleteSecret(n)
        PROVE  ~Stirring
    <2>1. n \in Name /\ queued' = queued /\ configEvents' = configEvents
      BY <1>9, NamesAssumption DEF WriteSecret, DeleteSecret
    <2>2. \E new : Put(n, new)
      BY <1>9 DEF WriteSecret, DeleteSecret
    <2> QED
      BY <1>3, <2>1, <2>2, PutTells
  <1>10. ~Fail
    BY <1>1 DEF Fail
  <1> QED
    BY <1>1, <1>2, <1>4, <1>5, <1>6, <1>7, <1>8, <1>9, <1>10
       DEF Next, Worker, ReadConfig, ReadField, Crash, Watches, SyncCR, Resync, User,
           EditSpec, vars, feeds

\* The admin secret is written only when the cached one has no password.
LEMMA AdminPuts ==
    ASSUME TypeOK, ReconcileAdmin
    PROVE  \/ UNCHANGED <<secrets, seen, events>>
           \/ \E new : /\ Put(AdminName(mem.spec), new)
                       /\ seen[AdminName(mem.spec)].data["password"] = Missing
                       /\ seen' = seen
  BY DEF ReconcileAdmin, AdminKept, AdminWritten, Fail, server, feeds, caches

\* A cached secret that is out of date has an event on its way.
LEMMA SecretsStep ==
    DefaultAdmin \notin Touched /\ TypeOK /\ SecretsInv /\ [Next]_vars => SecretsInv'
  <1> SUFFICES ASSUME DefaultAdmin \notin Touched, TypeOK, SecretsInv, [Next]_vars
               PROVE  SecretsInv'
    OBVIOUS
  <1>1. ASSUME NEW n \in Name, NEW new, Put(n, new), seen' = seen,
               n # DefaultAdmin \/ seen[n].data["password"] = Missing
        PROVE  SecretsInv'
    <2>1. \A m \in Name : m # n => secrets'[m] = secrets[m]
      BY <1>1, PutTells
    <2>2. \A m \in Name : events[m] \subseteq events'[m]
      BY <1>1, PutTells
    <2>3. secrets[n].data # secrets'[n].data => "useful" \in events'[n]
      BY <1>1, PutTells
    <2> QED
      BY <1>1, <2>1, <2>2, <2>3, NamesAssumption DEF SecretsInv
  <1>2. CASE UNCHANGED <<secrets, seen, events>>
    BY <1>2 DEF SecretsInv
  <1>3. CASE ReconcileAdmin
    <2>1. AdminName(mem.spec) \in Name
      BY TypeOfAdminName DEF TypeOK, Memory
    <2> QED
      BY <1>1, <1>2, <1>3, <2>1, AdminPuts
  <1>4. ASSUME NEW n \in Name, SyncSecret(n)
        PROVE  SecretsInv'
    <2>1. secrets' = secrets /\ seen'[n] = secrets[n]
      BY <1>4 DEF SyncSecret, server, TypeOK
    <2>2. \A m \in Name : m # n => seen'[m] = seen[m] /\ events'[m] = events[m]
      BY <1>4 DEF SyncSecret, TypeOK
    <2> QED
      BY <2>1, <2>2, NamesAssumption DEF SecretsInv
  <1>5. ASSUME NEW n \in Touched, WriteSecret(n) \/ DeleteSecret(n)
        PROVE  SecretsInv'
    <2>1. n \in Name /\ n # DefaultAdmin
      BY NamesAssumption
    <2>2. (\E new : Put(n, new)) /\ seen' = seen
      BY <1>5 DEF WriteSecret, DeleteSecret, caches
    <2> QED
      BY <1>1, <2>1, <2>2
  <1>6. \/ UNCHANGED <<secrets, seen, events>>
        \/ ReconcileAdmin
        \/ \E n \in Name : SyncSecret(n)
        \/ \E n \in Touched : WriteSecret(n) \/ DeleteSecret(n)
    BY DEF Next, Worker, StartReconcile, ReadConfig, ReadField, WriteConfig, Crash, Fail,
           Watches, SyncCR, SyncConfig, Resync, User, EditSpec, vars, server, feeds, caches
  <1> QED
    BY <1>2, <1>3, <1>4, <1>5, <1>6

\* The cached config secret: once it exists the config secret exists, and what is
\* written over it carries the owner.
LEMMA ConfigStep == TypeOK /\ ConfigInv /\ [Next]_vars => ConfigInv'
  <1> SUFFICES ASSUME TypeOK, ConfigInv, [Next]_vars
               PROVE  ConfigInv'
    OBVIOUS
  <1>1. CASE UNCHANGED <<config, configSeen, configEvents>>
    BY <1>1 DEF ConfigInv
  <1>2. ASSUME ConfigDiffers, config = mem.config, PutConfig(NewConfig),
               configSeen' = configSeen
        PROVE  ConfigInv'
    <2>1. config' = NewConfig /\ config'.exists
      BY <1>2 DEF PutConfig, NewConfig
    <2>2. CASE ~config.exists
      BY <1>2, <2>1, <2>2 DEF ConfigInv
    <2>3. CASE config.exists
      <3>1. NewConfig.owned /\ config # NewConfig
        BY <1>2, <2>3 DEF ConfigDiffers, NewConfig
      <3>2. "owned" \in configEvents'
        BY <1>2, <3>1 DEF PutConfig, Told, Event
      <3> QED
        BY <1>2, <2>1, <3>2 DEF ConfigInv
    <2> QED
      BY <2>2, <2>3
  <1>3. CASE WriteConfig
    BY <1>1, <1>2, <1>3 DEF WriteConfig, Fail, server, feeds, caches
  <1>4. CASE SyncConfig
    BY <1>4 DEF SyncConfig, server, ConfigInv
  <1>5. \/ UNCHANGED <<config, configSeen, configEvents>>
        \/ WriteConfig
        \/ SyncConfig
    BY DEF Next, Worker, StartReconcile, ReconcileAdmin, ReadConfig, ReadField, Crash, Fail,
           Watches, SyncCR, SyncSecret, Resync, User, EditSpec, WriteSecret, DeleteSecret,
           vars, server, feeds, caches
  <1> QED
    BY <1>1, <1>3, <1>4, <1>5

\* A change of a user that does not stir changes nothing the handler reads.
LEMMA UserKeeps ==
    ASSUME DefaultAdmin \notin Touched, TypeOK, ~Stirring', crSeen' = crSeen,
           NEW n \in Touched, WriteSecret(n) \/ DeleteSecret(n)
    PROVE  /\ Admin(crSeen)' = Admin(crSeen)
           /\ \A f \in Field : Resolve(crSeen, secrets, f)' = Resolve(crSeen, secrets, f)
  <1>1. n \in Name /\ n # DefaultAdmin
    BY NamesAssumption
  <1>2. PICK new : Put(n, new)
    BY DEF WriteSecret, DeleteSecret
  <1>3. \A m \in Name : UsesSecret(crSeen, m) => secrets'[m].data = secrets[m].data
    <2>1. UsesSecret(crSeen, n) => "useful" \notin events'[n]
      BY <1>1 DEF Stirring, Concerns, UsesSecret
    <2>2. UsesSecret(crSeen, n) => secrets'[n].data = secrets[n].data
      BY <1>1, <1>2, <2>1, PutTells
    <2> QED
      BY <1>1, <1>2, <2>2, PutTells
  <1>4. crSeen \in SpecType
    BY DEF TypeOK
  <1>5. \A f \in Field : Resolve(crSeen, secrets', f) = Resolve(crSeen, secrets, f)
    BY <1>3, <1>4, SameRead
  <1>6. \A f \in Field : Resolve(crSeen, secrets, f)' = Resolve(crSeen, secrets', f)
    BY DEF Resolve
  <1>7. secrets'[AdminName(crSeen)].data["password"] = secrets[AdminName(crSeen)].data["password"]
    <2>1. CASE crSeen.admin = NoName
      <3>1. AdminName(crSeen) # n /\ AdminName(crSeen) \in Name
        BY <1>1, <2>1, NamesAssumption DEF AdminName
      <3> QED
        BY <1>1, <1>2, <3>1, PutTells
    <2>2. CASE crSeen.admin # NoName
      <3>1. AdminName(crSeen) \in Name /\ UsesSecret(crSeen, AdminName(crSeen))
        BY <1>4, <2>2 DEF AdminName, SpecType, UsesSecret
      <3> QED
        BY <1>3, <3>1
    <2> QED
      BY <2>1, <2>2
  <1> QED
    BY <1>5, <1>6, <1>7 DEF Admin, AdminName

\* What the handler reads when nothing stirs is what there is.
LEMMA ReadsRight ==
    ASSUME TypeOK, SecretsInv, ~Stirring
    PROVE  /\ \A f \in Field : Resolve(crSeen, seen, f) = Resolve(crSeen, secrets, f)
           /\ seen[AdminName(crSeen)].data["password"] # Missing
              => seen[AdminName(crSeen)].data["password"] = Admin(crSeen)
  <1>1. crSeen \in SpecType
    BY DEF TypeOK
  <1>2. \A n \in Name : UsesSecret(crSeen, n) => seen[n].data = secrets[n].data
    BY DEF Stirring, Concerns, SecretsInv
  <1>3. CASE crSeen.admin = NoName
    BY <1>1, <1>2, <1>3, SameRead DEF AdminName, Admin, SecretsInv
  <1>4. CASE crSeen.admin # NoName
    <2>1. AdminName(crSeen) \in Name /\ UsesSecret(crSeen, AdminName(crSeen))
      BY <1>1, <1>4 DEF AdminName, SpecType, UsesSecret
    <2> QED
      BY <1>1, <1>2, <2>1, SameRead DEF Admin
  <1> QED
    BY <1>3, <1>4

\* One step of the handler after the other holds what it has read, and the last
\* one writes it.
LEMMA HandlerStep ==
    ASSUME TypeOK, SettleInv, Worker, ~StartReconcile, ~Stirring, crSeen' = crSeen, ~queued'
    PROVE  HeldInv' /\ DoneInv'
  <1>1. SecretsInv /\ ConfigInv /\ HeldInv /\ DoneInv /\ ~Fail
    BY DEF SettleInv, Fail
  <1>2. mem \in Memory /\ crSeen \in SpecType
    BY DEF TypeOK
  <1>3. \A f \in Field : Resolve(crSeen, seen, f) = Resolve(crSeen, secrets, f)
    BY <1>1, ReadsRight
  <1>4. CASE ReconcileAdmin
    <2> DEFINE n == AdminName(mem.spec)
    <2>1. mem.spec = crSeen /\ pc = "admin" /\ pc' = "config" /\ n \in Name
      BY <1>1, <1>2, <1>4, TypeOfAdminName DEF ReconcileAdmin, HeldInv
    <2>2. mem'.spec = crSeen /\ mem'.admin = secrets'[n].data["password"] /\ mem'.admin # Missing
      <3>1. CASE AdminKept(seen[n])
        <4>1. seen[n].data["password"] = Admin(crSeen)
          BY <1>1, <2>1, <3>1, ReadsRight DEF AdminKept
        <4> QED
          BY <1>2, <2>1, <3>1, <4>1 DEF AdminKept, Memory, Admin
      <3>2. ASSUME NEW password \in Generated, AdminWritten(n, seen[n], password)
            PROVE  mem'.spec = crSeen /\ mem'.admin = secrets'[n].data["password"]
                   /\ mem'.admin # Missing
        <4>1. password \in Value /\ password # Missing /\ seen[n].exists \in BOOLEAN
          BY <2>1, ValuesAssumption DEF TypeOK, Secret
        <4>2. secrets'[n].data["password"] = password
          BY <2>1, <3>2, <4>1, TypeOfNewAdmin, PutTells DEF AdminWritten
        <4>3. mem' = [mem EXCEPT !.admin = password]
          BY <3>2 DEF AdminWritten
        <4>4. mem'.spec = mem.spec /\ mem'.admin = password
          BY <1>2, <4>3 DEF Memory
        <4> QED
          BY <2>1, <4>1, <4>2, <4>4
      <3> QED
        BY <1>1, <1>4, <3>1, <3>2 DEF ReconcileAdmin
    <2>3. mem'.admin = Admin(crSeen)'
      BY <2>1, <2>2 DEF Admin, AdminName
    <2> QED
      BY <2>1, <2>2, <2>3 DEF HeldInv, DoneInv, Read
  <1>5. CASE ReadConfig
    <2>1. /\ pc = "config" /\ pc' = "host" /\ mem' = [mem EXCEPT !.config = configSeen]
          /\ UNCHANGED <<secrets, config, configSeen>>
      BY <1>1, <1>5 DEF ReadConfig, server, caches
    <2>2. /\ mem'.spec = mem.spec /\ mem'.admin = mem.admin /\ mem'.config = configSeen
      BY <1>2, <2>1 DEF Memory
    <2>3. configSeen = config \/ ~configSeen.exists
      BY <1>1 DEF ConfigInv, Stirring
    <2>4. Admin(crSeen)' = Admin(crSeen)
      BY <2>1 DEF Admin, AdminName
    <2> QED
      BY <1>1, <2>1, <2>2, <2>3, <2>4 DEF HeldInv, DoneInv, Read
  <1>6. ASSUME NEW f \in Field, ReadField(f)
        PROVE  HeldInv' /\ DoneInv'
    <2>1. /\ pc = f /\ pc' = After[f]
          /\ Resolve(mem.spec, seen, f) # Missing
          /\ mem' = [mem EXCEPT !.got[f] = Resolve(mem.spec, seen, f)]
          /\ UNCHANGED <<secrets, config, seen>>
      BY <1>1, <1>6 DEF ReadField, server, caches
    <2>2. /\ mem'.spec = mem.spec /\ mem'.admin = mem.admin /\ mem'.config = mem.config
          /\ mem'.got = [mem.got EXCEPT ![f] = Resolve(mem.spec, seen, f)]
      BY <1>2, <2>1 DEF Memory
    <2>3. f \notin {"idle", "admin", "config"}
      BY DEF Field
    <2>4. mem.spec = crSeen
      BY <1>1, <2>1, <2>3 DEF HeldInv
    <2>5. Read[After[f]] = Read[f] \cup {f} /\ Read[f] \subseteq Field /\ After[f] # "idle"
      BY DEF Read, After, Field
    <2>6. \A g \in Field : Resolve(crSeen, secrets, g)' = Resolve(crSeen, secrets, g)
      BY <2>1 DEF Resolve
    <2>7. \A g \in Read[After[f]] : /\ mem'.got[g] = Resolve(crSeen, secrets, g)
                                    /\ mem'.got[g] # Missing
      BY <1>1, <1>2, <1>3, <2>1, <2>2, <2>4, <2>5 DEF HeldInv, Memory
    <2>8. Admin(crSeen)' = Admin(crSeen)
      BY <2>1 DEF Admin, AdminName
    <2>9. (mem.spec = crSeen /\ mem.admin = Admin(crSeen) /\ mem.admin # Missing)
          /\ (mem.config = config \/ ~mem.config.exists)
      BY <1>1, <2>1, <2>3 DEF HeldInv
    <2>10. Read' = Read
      BY DEF Read
    <2>11. HeldInv'
      BY <2>1, <2>2, <2>5, <2>6, <2>7, <2>8, <2>9, <2>10 DEF HeldInv
    <2> QED
      BY <2>1, <2>5, <2>11 DEF DoneInv
  <1>7. CASE WriteConfig
    <2>1. /\ pc = "write" /\ pc' = "idle" /\ secrets' = secrets
          /\ IF ConfigDiffers THEN config = mem.config /\ PutConfig(NewConfig)
                              ELSE UNCHANGED <<config, configEvents>>
      BY <1>1, <1>7 DEF WriteConfig
    <2>2. /\ mem.admin = Admin(crSeen)
          /\ mem.config = config \/ ~mem.config.exists
          /\ \A f \in Field : mem.got[f] = Resolve(crSeen, secrets, f) /\ mem.got[f] # Missing
      BY <1>1, <2>1 DEF HeldInv, Read
    <2>3. mem.got = [f \in Field |-> Resolve(crSeen, secrets, f)]
      BY <1>2, <2>2 DEF Memory
    <2>4. NewConfig.exists /\ NewConfig.conf = Rendered(mem.admin, mem.got)
      BY DEF NewConfig
    <2>5. config'.exists /\ config'.conf = NewConfig.conf
      BY <2>1, <2>2, <2>4 DEF ConfigDiffers, PutConfig
    <2>6. \A f \in Field : Resolve(crSeen, secrets, f)' = Resolve(crSeen, secrets, f)
      BY <2>1 DEF Resolve
    <2>7. Admin(crSeen)' = Admin(crSeen)
      BY <2>1 DEF Admin, AdminName
    <2>8. [f \in Field |-> Resolve(crSeen, secrets, f)]'
          = [f \in Field |-> Resolve(crSeen, secrets, f)]
      BY <2>6
    <2>9. Rendered(Admin(crSeen), [f \in Field |-> Resolve(crSeen, secrets, f)])'
          = Rendered(Admin(crSeen), [f \in Field |-> Resolve(crSeen, secrets, f)])
      BY <2>7, <2>8 DEF Rendered
    <2>10. DoneInv'
      BY <2>2, <2>3, <2>4, <2>5, <2>6, <2>9 DEF DoneInv
    <2>11. HeldInv'
      BY <2>1 DEF HeldInv, Read
    <2> QED
      BY <2>10, <2>11
  <1> QED
    BY <1>4, <1>5, <1>6, <1>7 DEF Worker

\* The invariant is inductive.
LEMMA SettleStep ==
    DefaultAdmin \notin Touched /\ TypeOK /\ SettleInv /\ [Next]_vars => SettleInv'
  <1> SUFFICES ASSUME DefaultAdmin \notin Touched, TypeOK, SettleInv, [Next]_vars, ~Stirring'
               PROVE  HeldInv' /\ DoneInv'
    BY SecretsStep, ConfigStep DEF SettleInv
  <1>1. CASE StartReconcile
    <2>1. pc' = "admin" /\ mem'.spec = crSeen /\ crSeen' = crSeen
      BY <1>1 DEF StartReconcile, NoMemory, caches
    <2> QED
      BY <2>1 DEF HeldInv, DoneInv, Read
  <1>2. CASE ~StartReconcile
    <2>1. ~Stirring /\ ~queued' /\ crSeen' = crSeen
      BY <1>2, CalmBefore
    <2>2. HeldInv /\ DoneInv
      BY <2>1 DEF SettleInv
    <2>3. CASE Worker
      BY <1>2, <2>1, <2>3, HandlerStep
    <2>4. ASSUME UNCHANGED <<config, pc, mem>>, Admin(crSeen)' = Admin(crSeen),
                 \A f \in Field : Resolve(crSeen, secrets, f)' = Resolve(crSeen, secrets, f)
          PROVE  HeldInv' /\ DoneInv'
      <3>1. \A f \in Read[pc] : f \in Field
        BY DEF Read, Field, TypeOK, Steps
      <3>2. Read' = Read
        BY DEF Read
      <3>3. HeldInv'
        BY <2>1, <2>2, <2>4, <3>1, <3>2 DEF HeldInv
      <3>4. [f \in Field |-> Resolve(crSeen, secrets, f)]'
            = [f \in Field |-> Resolve(crSeen, secrets, f)]
        BY <2>4
      <3>5. Rendered(Admin(crSeen), [f \in Field |-> Resolve(crSeen, secrets, f)])'
            = Rendered(Admin(crSeen), [f \in Field |-> Resolve(crSeen, secrets, f)])
        BY <2>4, <3>4 DEF Rendered
      <3>6. DoneInv'
        BY <2>2, <2>4, <3>5 DEF DoneInv
      <3> QED
        BY <3>3, <3>6
    <2>5. CASE UNCHANGED <<secrets, config, pc, mem>>
      BY <2>1, <2>4, <2>5 DEF Admin, AdminName, Resolve
    <2>6. ASSUME NEW n \in Touched, WriteSecret(n) \/ DeleteSecret(n)
          PROVE  HeldInv' /\ DoneInv'
      <3>1. UNCHANGED <<config, pc, mem>>
        BY <2>6 DEF WriteSecret, DeleteSecret
      <3> QED
        BY <2>1, <2>4, <2>6, <3>1, UserKeeps
    <2>7. \/ Worker
          \/ UNCHANGED <<secrets, config, pc, mem>>
          \/ \E n \in Touched : WriteSecret(n) \/ DeleteSecret(n)
      BY <2>1 DEF Next, Crash, Fail, Watches, SyncCR, SyncSecret, SyncConfig, Resync, User,
             EditSpec, vars, server
    <2> QED
      BY <2>3, <2>5, <2>6, <2>7
  <1> QED
    BY <1>1, <1>2

LEMMA SettleInit == Init => SettleInv
  <1> SUFFICES ASSUME Init
               PROVE  SettleInv
    OBVIOUS
  <1>1. SecretsInv /\ ConfigInv
    BY DEF Init, SecretsInv, ConfigInv
  <1>2. Stirring
    BY DEF Init, Stirring
  <1> QED
    BY <1>1, <1>2 DEF SettleInv

LEMMA RestIsRight == SettleInv => Settled
  <1> SUFFICES ASSUME SettleInv, Quiet
               PROVE  Resolvable /\ Follows
    BY DEF Settled
  <1>1. ~Stirring /\ crSeen = cr /\ pc = "idle"
    BY DEF Quiet, Stirring, Concerns
  <1> QED
    BY <1>1 DEF SettleInv, DoneInv, Resolvable, Follows, Admin

\* Whenever everything has calmed down, odoo.conf is what the spec and the secrets
\* say, as long as users leave the generated admin secret alone: without that the
\* theorem would be false, since no watch maps this secret to its CR before it is
\* owned (UsesSecret, adminpassword.go:56).
THEOREM SettlesRight == DefaultAdmin \notin Touched => (Spec => []Settled)
  <1> SUFFICES ASSUME DefaultAdmin \notin Touched
               PROVE  Spec => []Settled
    OBVIOUS
  <1>1. TypeOK /\ SettleInv /\ [Next]_vars => SettleInv'
    BY SettleStep
  <1> QED
    BY <1>1, SettleInit, RestIsRight, TypeCorrect, PTL DEF Spec
=============================================================================
