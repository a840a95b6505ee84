------------------------------ MODULE MCClient -------------------------------
(* Small instances of a client environment for TLC. *)
EXTENDS Client
=============================================================================
