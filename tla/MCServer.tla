------------------------------ MODULE MCServer ------------------------------
(* Instances of ServerSessions for TLC. *)
EXTENDS ServerSessions, TLC

\* Connections are interchangeable.
ServerSymmetry == Permutations(ConnIds)
=============================================================================
