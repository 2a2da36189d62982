--------------------------- MODULE MCConfigReload ---------------------------
(* Small instances of ConfigReload. *)
EXTENDS ConfigReload

AllContents == [Names -> Says]

(* All agents on; all off; the one that takes configurations on, and the *)
(* other one not in the file.                                            *)
MCContents ==
  {[n \in Names |-> "on"], [n \in Names |-> "off"],
   [n \in Names |-> IF n \in Aware THEN "on" ELSE "absent"]}
=============================================================================
