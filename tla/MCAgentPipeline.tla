--------------------------- MODULE MCAgentPipeline ---------------------------
(* Small instances of AgentPipeline for TLC. *)
EXTENDS AgentPipeline

=============================================================================
