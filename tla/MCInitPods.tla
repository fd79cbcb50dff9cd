---------------------------- MODULE MCInitPods ----------------------------
(***************************************************************************)
(* Small instances of InitPods for TLC: two CRs of the same name in two     *)
(* namespaces.                                                              *)
(***************************************************************************)
EXTENDS InitPods, TLC

CONSTANTS shop, shop2, init

MCCR == {shop, shop2}
SameName == [c \in MCCR |-> init]
AllKinds == {"podLag", "podFails", "podDeleted", "apiError", "writeError", "crash"}
NoKinds == {}

TwoAndOne == (shop :> 2) @@ (shop2 :> 1)
FourAndTwo == (shop :> 4) @@ (shop2 :> 2)
=============================================================================
