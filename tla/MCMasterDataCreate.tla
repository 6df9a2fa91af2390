------------------------- MODULE MCMasterDataCreate -------------------------
(* Three declared rows, two of them under one name. *)
EXTENDS MasterDataCreate, TLC

CONSTANTS r1, r2, r3, n1, n2

MCNameOf == (r1 :> n1) @@ (r2 :> n1) @@ (r3 :> n2)

Twins == Permutations({r1, r2})

=============================================================================
