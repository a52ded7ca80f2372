--------------------------- MODULE MCOrchestrator ---------------------------
(* Instances of Orchestrator for TLC. *)
EXTENDS Orchestrator

MCProcs == 1..2
MCObjs  == 1..2
=============================================================================
