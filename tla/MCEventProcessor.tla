--------------------------- MODULE MCEventProcessor ---------------------------
(* Small instances of the event processor for TLC. *)
EXTENDS EventProcessor
=============================================================================
