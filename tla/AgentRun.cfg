SPECIFICATION FairSpec
CONSTANTS
  t1 = t1
  t2 = t2
  ghost = ghost
  Callers = {c1}
  Tools <- MCTools
  Middlewares <- MCMiddlewares
  Calls <- MCCalls
  MaxCalls = 2
  MaxIterations = 2
  OptionSet <- MCOptions
  StreamOptions <- MCStreamOptions
  MaxRuns = 2
INVARIANTS OptionsScoped MiddlewareNesting ToolInv HistoryPaired
PROPERTIES RunReturns
CHECK_DEADLOCK FALSE
