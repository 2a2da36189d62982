--------------------------- MODULE MCRetryingCall ---------------------------
(* Small instances of RetryingCall. *)
EXTENDS RetryingCall
=============================================================================
