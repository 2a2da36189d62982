--------------------------- MODULE MCSubWorkflow ---------------------------
(* Small instances of SubWorkflow. *)
EXTENDS SubWorkflow
=============================================================================
