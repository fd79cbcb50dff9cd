----------------------------- MODULE ModuleList -----------------------------
(***************************************************************************)
(* The lists of modules behind InitJob's sets: their order and duplicates.  *)
(* The handler deduplicates Spec.Modules in memory, writes its status       *)
(* (which replaces the object in memory by the server's answer), computes   *)
(* the difference with the installed list and hands it to the init Job;     *)
(* the batch is appended to the installed list when the Job succeeds.       *)
(*   (odoodeployment_controller.go:112-163, databaseinitjob.go:54-133,      *)
(*    odoodeployment_funcs.go:230-277, pkg/utils/generic.go)                *)
(* The Job always succeeds here, and in one step with its deletion; InitJob *)
(* has its failures and the other races.                                    *)
(***************************************************************************)
EXTENDS Naturals, FiniteSets, Sequences, SequencesExt

CONSTANTS
    Module,   \* names of Odoo modules
    Lists,    \* the module lists users write
    MaxEdits  \* bound on the user's edits

ASSUME ListsAssumption == Lists \subseteq Seq(Module) \ {<<>>}
ASSUME MaxEditsAssumption == MaxEdits \in Nat

VARIABLES
    spec,       \* Spec.Modules in the API server
    installed,  \* Status.InitModulesInstalled in the API server
    batch,      \* Status.CurrentInitJob.Modules; <<>> when no Job is current
    job,        \* the list the init Job installs; <<>> when there is no Job
    pc,         \* where the handler is
    mem,        \* the handler's copy of the three
    edited,     \* the user has edited the spec since the handler read it
    edits       \* edits made so far

vars == <<spec, installed, batch, job, pc, mem, edited, edits>>

-----------------------------------------------------------------------------
(* The list functions *)

\* A loop over a list that appends the elements at some of its places to a new one.
KeepUpTo(list, places) ==
    LET kept[n \in 0..Len(list)] ==
            IF n = 0 THEN <<>>
            ELSE IF n \in places THEN Append(kept[n - 1], list[n])
            ELSE kept[n - 1]
    IN  kept
Keep(list, places) == KeepUpTo(list, places)[Len(list)]

\* DeduplicateModules: what has been seen before a place is left out.
DeduplicateModules(list) ==
    LET seen(n) == {list[i] : i \in 1..(n - 1)}
    IN  Keep(list, {n \in DOMAIN list : list[n] \notin seen(n)})

\* Mutant: the operands are swapped.
DifferenceSwapped(a, b) == Keep(b, {n \in DOMAIN b : b[n] \notin ToSet(a)})

\* utils.Difference: what of a is not in b, duplicates of a included.
Difference(a, b) == Keep(a, {n \in DOMAIN a : a[n] \notin ToSet(b)})

Server == [spec |-> spec, installed |-> installed, batch |-> batch]
NoObject == [spec |-> <<>>, installed |-> <<>>, batch |-> <<>>]

-----------------------------------------------------------------------------
(* The handler *)

Read ==
    /\ pc = "idle"
    /\ mem' = [Server EXCEPT !.spec = DeduplicateModules(spec)]
    /\ edited' = FALSE
    /\ pc' = "children"
    /\ UNCHANGED <<spec, installed, batch, job, edits>>

\* The three status writes on the way.  One that is accepted decodes the stored
\* object into memory; if the user has edited the CR none is, and errors are dropped.
WriteStatus ==
    /\ pc = "children"
    /\ pc' = "job"
    /\ \/ mem' = Server /\ ~edited
       \/ UNCHANGED mem
    /\ UNCHANGED <<spec, installed, batch, job, edited, edits>>

\* The status write that ends the handler: refused if the user has edited the CR.
Finish(newInstalled, newBatch) ==
    /\ pc = "job"
    /\ pc' = "idle"
    /\ mem' = NoObject
    /\ IF edited THEN UNCHANGED <<installed, batch>>
       ELSE installed' = newInstalled /\ batch' = newBatch
    /\ UNCHANGED <<spec, edited, edits>>

\* Mutants: the batch is appended as one element; it is not cleared.
RecordBatchWhole ==
    /\ mem.batch # <<>>
    /\ job # <<>>
    /\ job' = <<>>
    /\ Finish(Append(mem.installed, mem.batch), <<>>)
RecordBatchKept ==
    /\ mem.batch # <<>>
    /\ job # <<>>
    /\ job' = <<>>
    /\ Finish(mem.installed \o mem.batch, mem.batch)

\* The current Job has succeeded: its batch is appended, the Job is deleted.
RecordBatch ==
    /\ mem.batch # <<>>
    /\ job # <<>>
    /\ job' = <<>>
    /\ Finish(mem.installed \o mem.batch, <<>>)

\* No current Job, or it is gone: what is missing becomes the next batch, unless
\* a Job of that name is left.
MissingModules == Difference(mem.spec, mem.installed)
NoCurrentJob == mem.batch = <<>> \/ job = <<>>

CreateJob ==
    /\ NoCurrentJob
    /\ MissingModules # <<>>
    /\ job = <<>>
    /\ job' = MissingModules
    /\ Finish(mem.installed, MissingModules)

NoJobCreated ==
    /\ NoCurrentJob
    /\ MissingModules = <<>> \/ job # <<>>
    /\ Finish(mem.installed, mem.batch)
    /\ UNCHANGED job

EditSpec ==
    /\ edits < MaxEdits
    /\ edits' = edits + 1
    /\ spec' \in Lists
    /\ edited' = TRUE
    /\ UNCHANGED <<installed, batch, job, pc, mem>>

Init ==
    /\ spec \in Lists
    /\ installed = <<>>
    /\ batch = <<>>
    /\ job = <<>>
    /\ pc = "idle"
    /\ mem = NoObject
    /\ edited = FALSE
    /\ edits = 0

Next == Read \/ WriteStatus \/ RecordBatch \/ CreateJob \/ NoJobCreated \/ EditSpec

Spec == Init /\ [][Next]_vars

-----------------------------------------------------------------------------
(* Properties *)

\* Every variable is a list of modules, or a record of three.
TypeOK ==
    /\ {spec, installed, batch, job} \cup {mem.spec, mem.installed, mem.batch}
          \subseteq Seq(Module)
    /\ pc \in {"idle", "children", "job"}
    /\ edited \in BOOLEAN
    /\ edits \in 0..MaxEdits

Unique(list) == \A i, j \in DOMAIN list : list[i] = list[j] => i = j

\* What stands at some places of a list, in order.
Selected(d, list, places) ==
    /\ Len(d) = Cardinality(places)
    /\ \A i \in places : d[Cardinality(places \cap 1..i)] = list[i]

\* Each element of the list once, in the order of their first places.
IsDeduplicated(d, list) ==
    /\ Unique(d)
    /\ ToSet(d) = ToSet(list)
    /\ \A i, j \in DOMAIN list :
          (i < j /\ list[i] # list[j] /\ \A k \in 1..(j - 1) : list[k] # list[j])
          => \E p, q \in DOMAIN d : p < q /\ d[p] = list[i] /\ d[q] = list[j]

\* What of the first list is not in the second, in order.
IsDifference(d, a, b) ==
    /\ ToSet(d) = ToSet(a) \ ToSet(b)
    /\ Selected(d, a, {i \in DOMAIN a : a[i] \notin ToSet(b)})

\* The two list functions compute what they are meant to, for every list a user
\* may write: each module once, in the order of their first places
\* (odoodeployment_funcs.go:230), and what stands at the places of modules outside
\* the other list (pkg/utils/generic.go:3).
ListFunctionsMeetReference ==
    /\ IsDeduplicated(DeduplicateModules(spec), spec)
    /\ IsDifference(Difference(spec, installed), spec, installed)

\* A batch never repeats a recorded module: it was computed against the very
\* list it will be appended to (databaseinitjob.go:109, odoodeployment_funcs.go:246).
BatchIsNew == ToSet(batch) \cap ToSet(installed) = {}

\* What is recorded is never lost or reordered: the list only grows by the whole
\* current batch, which by that ceases to be current, whatever the user edits and
\* whichever status writes are refused (odoodeployment_funcs.go:246).
BatchAppendedOnce ==
    [][installed' # installed =>
          installed' = installed \o batch /\ batch' = <<>>]_vars
=============================================================================
