------------------------------- MODULE MCGroup -------------------------------
(* Two group types: one role is called alike in both, one only in the first, and  *)
(* the second type's default role has no counterpart.                             *)
EXTENDS Group, TLC

CONSTANTS t1, t2, leader1, helper1, leader2, guest2, p, name, visibility, inform, v1, v2

MCRoleType == (leader1 :> t1) @@ (helper1 :> t1) @@ (leader2 :> t2) @@ (guest2 :> t2)
MCSlug == (leader1 :> "leader") @@ (helper1 :> "helper") @@ (leader2 :> "leader")
          @@ (guest2 :> "guest")
MCKind == (leader1 :> "leader") @@ (helper1 :> "participant") @@ (leader2 :> "leader")
          @@ (guest2 :> "participant")

=============================================================================
