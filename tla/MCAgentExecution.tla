--------------------------- MODULE MCAgentExecution ---------------------------
(* AgentExecution on small instances.                                       *)
EXTENDS AgentExecution

CONSTANT rent

OneAction == {rent}
=============================================================================
