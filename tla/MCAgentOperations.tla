------------------------- MODULE MCAgentOperations -------------------------
(* Instances of AgentOperations for TLC. *)
EXTENDS AgentOperations
=============================================================================
