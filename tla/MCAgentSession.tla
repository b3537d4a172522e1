--------------------------- MODULE MCAgentSession ---------------------------
(***************************************************************************)
(* Model-checking instance of AgentSession.                                *)
(***************************************************************************)
EXTENDS AgentSession
=============================================================================
