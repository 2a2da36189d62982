SPECIFICATION RoutingFairSpec
CONSTANTS
  Names <- MCNames
  Team <- MCTeam
  ErrorHandlers <- MCErrorHandlers
  Codes <- MCCodes
  ErrorHandlerName = "error-handler"
  SeverityHandlers <- MCSeverityHandlers
  CategoryHandlers <- MCCategoryHandlers
  MaxRetries = 2
  Registrations <- MCRegistrations
  MaxEmits = 1
  MaxRoutes = 1
  MaxFaults = 1
  MaxChanges = 1
INVARIANTS RoutingInv HookInv
PROPERTIES NoLateCallback Answered Drains
CHECK_DEADLOCK FALSE
