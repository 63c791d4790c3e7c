------------------------------ MODULE MCClient ------------------------------
(* Instances of the client core for TLC. *)
EXTENDS Client
=============================================================================
