SPECIFICATION FairSpec
CONSTANTS
  Writers = {w1, w2}
  Outcomes = {result, failure}
  MaxChunks = 2
  OutSize = 1
  MaxDepth = 2
INVARIANTS SpanInv
PROPERTIES KeepsContract Finishes
CHECK_DEADLOCK FALSE
