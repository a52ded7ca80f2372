------------------------- MODULE MCProcessCommands -------------------------
(* Instances of ProcessCommands for TLC: an old and a new instance of the    *)
(* cron process, as after a takeover, and one of an agent process.           *)
EXTENDS ProcessCommands

CONSTANTS old, new, agent

MCCronInstances  == {old, new}
MCAgentInstances == {agent}
============================================================================
