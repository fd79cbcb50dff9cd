---------------------------- MODULE MCChildren ----------------------------
(***************************************************************************)
(* Small instances of Children for TLC.                                     *)
(***************************************************************************)
EXTENDS Children

CONSTANTS v1, v2

MCVersion == {v1, v2}
\* The versions are alike: without loss the CR starts with v1.  (TLC's symmetry
\* reduction is not sound for liveness.)
OneVersion == {v1}
AllKinds == {"edit", "delete", "tamper", "crash", "apiError", "writeError"}
DeletionOnly == {"delete"}
=============================================================================
