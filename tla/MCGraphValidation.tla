------------------------- MODULE MCGraphValidation -------------------------
(* Small instances of GraphValidation. *)
EXTENDS GraphValidation
=============================================================================
