SPECIFICATION FairSpec
CONSTANTS
  a = a
  b = b
  c = c
  Steps = {a, b, c}
  DepChoices <- MCDepChoices
  Modes <- MCModes
  MaxSteps <- MCMaxSteps
  MaxIterations = 2
  MaxRuns = 2
INVARIANTS WorkflowInv DagInputs Chained ParallelVerdict
PROPERTIES RunReturns
CHECK_DEADLOCK FALSE
