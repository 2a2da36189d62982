------------------------------ MODULE MCStream ------------------------------
(* Small instances of Stream. *)
EXTENDS Stream
=============================================================================
