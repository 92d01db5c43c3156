---------------------------- MODULE MCPipelineRun ----------------------------
(* TLC instances of PipelineRun. *)
EXTENDS PipelineRun

CONSTANTS c1, c2
==============================================================================
