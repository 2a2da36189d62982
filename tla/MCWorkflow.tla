----------------------------- MODULE MCWorkflow -----------------------------
(* Small instances of Workflow. *)
EXTENDS Workflow

CONSTANTS a, b, c

(* Free steps, a chain and a self-loop on a, a join, a forward edge to c.  *)
MCDepChoices == {{}, {a}, {a, b}, {c}}
MCModes == {"sequential", "parallel", "dag", "loop"}
MCMaxSteps == [m \in MCModes |-> IF m = "loop" THEN 2 ELSE 3]
=============================================================================
