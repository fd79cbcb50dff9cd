--------------------------- MODULE MCSharedAdmin ---------------------------
(***************************************************************************)
(* Small instances of SharedAdmin for TLC: two CRs, one secret they may     *)
(* share, and the one that is generated for each.                           *)
(***************************************************************************)
EXTENDS SharedAdmin, TLC

CONSTANTS shop, blog, shared, shopAdm, blogAdm

MCCR == {shop, blog}
MCName == {shared, shopAdm, blogAdm}
Generated == (shop :> shopAdm) @@ (blog :> blogAdm)
SharedOrNot == {shared, NoName}
AllKinds == {"edit", "delete", "secret", "apiError", "crash"}
=============================================================================
