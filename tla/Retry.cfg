SPECIFICATION FairSpec
CONSTANTS
  Callers = {c1, c2}
  FailureThreshold = 2
  SuccessThreshold = 2
  MaxConcurrentCalls = 1
  FailureCap = 3
  MaxRetries = 1
  Retriers = {c2}
INVARIANTS BreakerInv SlotsReturn RetryInv
PROPERTIES ReopenOrder Progress
