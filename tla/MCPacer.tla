------------------------------- MODULE MCPacer -------------------------------
(* Pacer on a small instance. *)
EXTENDS Pacer

=============================================================================
