--------------------------- MODULE ModuleInstall ---------------------------
(***************************************************************************)
(* What the operator promises about the modules of one OdooDeployment,      *)
(* without saying how: modules are installed into the database, recorded    *)
(* in the status once they are, and an Odoo is served for a set of modules  *)
(* once all of them are recorded.  Nothing recorded is ever taken back.     *)
(* InitJob.tla implements it as long as Jobs are read fresh and kept.       *)
(***************************************************************************)
CONSTANT Module    \* names of Odoo modules

VARIABLES
    wanted,    \* Spec.Modules
    recorded,  \* Status.InitModulesInstalled
    db,        \* modules installed in the database
    served     \* modules an Odoo was rolled out for

vars == <<wanted, recorded, db, served>>

Init == /\ wanted \in SUBSET Module
        /\ recorded = {}
        /\ db = {}
        /\ served = {}

\* The user asks for another set of modules.
Want == /\ wanted' \in SUBSET Module
        /\ UNCHANGED <<recorded, db, served>>

\* A batch of modules is installed into the database.
Install == /\ \E batch \in SUBSET Module : db' = db \cup batch
           /\ UNCHANGED <<wanted, recorded, served>>

\* Modules of the database are recorded.
Record == /\ \E batch \in SUBSET db : recorded' = recorded \cup batch
          /\ UNCHANGED <<wanted, db, served>>

\* An Odoo is rolled out for what is wanted, or was when it was last looked at.
Serve == /\ \E batch \in SUBSET recorded : served' = served \cup batch
         /\ UNCHANGED <<wanted, recorded, db>>

Next == Want \/ Install \/ Record \/ Serve

Spec == Init /\ [][Next]_vars
=============================================================================
