----------------------------- MODULE MCEnsemble -----------------------------
(* Small instances of Ensemble. *)
EXTENDS Ensemble

MCMembers == {"a", "b", "c"}
MCOrder == <<"a", "b", "c">>
MCCollaborative == {"a", "b"}
=============================================================================
