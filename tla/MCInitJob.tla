----------------------------- MODULE MCInitJob -----------------------------
(***************************************************************************)
(* Small instances of InitJob for TLC.                                      *)
(***************************************************************************)
EXTENDS InitJob, TLC

CONSTANTS base, crm    \* two modules: one wanted now, one wanted later

MCModule == {base, crm}
ModuleSymmetry == Permutations(MCModule)

\* Everything that may happen.
AllKinds == Kinds

\* Nobody deletes a Job behind the operator, and Jobs are read fresh: what the
\* guarantees about installed modules need.
KeptJobs == Kinds \ {"jobDeleted", "staleJob"}

\* Stale Jobs, failing calls and failing Jobs, but every status write is taken.
Undisturbed == {"staleJob", "apiError", "jobFails"}

OneEdit == {"edit"}
=============================================================================
