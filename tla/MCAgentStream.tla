--------------------------- MODULE MCAgentStream ---------------------------
(* Small instances of AgentStream. *)
EXTENDS AgentStream
=============================================================================
