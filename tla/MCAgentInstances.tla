--------------------------- MODULE MCAgentInstances ---------------------------
(* Instances of AgentInstances for TLC. *)
EXTENDS AgentInstances

\* Two instances: the second can get the pid of the first.
MCInstances == 1..2
=============================================================================
