------------------------- MODULE MCOrchestrationTools -------------------------
(* Small instances of OrchestrationTools for TLC. *)
EXTENDS OrchestrationTools
=============================================================================
