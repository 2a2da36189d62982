----------------------------- MODULE MCAgentRun -----------------------------
(* Small instances of AgentRun. *)
EXTENDS AgentRun

CONSTANTS t1, t2, ghost

MCTools == {t1, t2}
MCMiddlewares == <<"m1", "m2">>
MCCalls == {[tool |-> t, args |-> "x"] : t \in {t1, t2, ghost}}

(* Each override alone, and all of them together. *)
MCOptions ==
  {[PlainRun EXCEPT !.mode = "none"],
   [PlainRun EXCEPT !.mode = "specific", !.only = {t1}, !.skip = {"m1"}],
   [PlainRun EXCEPT !.memory = FALSE],
   [mode |-> "specific", only |-> {t1}, memory |-> FALSE, hot |-> TRUE,
    skip |-> {"m1", "m2"}]}

(* What a streaming run takes from the agent it does not give back. *)
MCStreamOptions ==
  {[PlainRun EXCEPT !.mode = "none"],
   [PlainRun EXCEPT !.mode = "specific", !.only = {t1}]}
=============================================================================
