------------------------------ MODULE MCSession ------------------------------
(* Session on small instances. *)
EXTENDS Session, TLC

AllFaults == FaultKinds
LiveFaults == {"cancel"}

Symmetry == Permutations(Requests)

=============================================================================
