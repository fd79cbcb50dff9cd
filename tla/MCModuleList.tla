---------------------------- MODULE MCModuleList ----------------------------
(***************************************************************************)
(* Small instances of ModuleList for TLC.                                   *)
(***************************************************************************)
EXTENDS ModuleList

CONSTANTS base, web, crm

MCModule == {base, web, crm}

\* Every list of up to three modules, duplicates included.
AllLists == BoundedSeq(MCModule, 3) \ {<<>>}
=============================================================================
