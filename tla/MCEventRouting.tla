--------------------------- MODULE MCEventRouting ---------------------------
(* Small instances of EventRouting. *)
EXTENDS EventRouting

MCErrorHandlers == {"error-handler", "high-priority-error-handler"}
MCNames == MCErrorHandlers \cup {"worker"}
MCTeam == {"error-handler", "worker"}
MCCodes == {"VALIDATION", "TIMEOUT", "UNKNOWN"}
MCSeverityHandlers == [high |-> "high-priority-error-handler"]
MCCategoryHandlers == [VALIDATION |-> "high-priority-error-handler"]
MCRegistrations == {[hook |-> "BeforeAgentRun", name |-> "a"],
                    [hook |-> "AllHooks", name |-> "b"]}
=============================================================================
