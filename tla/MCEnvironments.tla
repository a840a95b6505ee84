--------------------------- MODULE MCEnvironments ---------------------------
(* Small instances of Environments. *)
EXTENDS Environments

=============================================================================
