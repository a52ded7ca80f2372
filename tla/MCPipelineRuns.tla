--------------------------- MODULE MCPipelineRuns ---------------------------
(* Instances of PipelineRuns for TLC: one run, whose two steps may be executed *)
(* by two executors.                                                           *)
EXTENDS PipelineRuns

MCRuns == {"run"}
=============================================================================
