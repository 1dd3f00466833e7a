--------------------------- MODULE MCAgentWorkflow ---------------------------
(* Every message the coordinator tells apart; the bounds are in the cfg. *)
EXTENDS AgentWorkflow
=============================================================================
