SPECIFICATION FairSpec
CONSTANTS
  Writers = {w1, w2}
  Kinds = {"delta"}
  MaxChunks = 2
  BufferSize = 1
  HasHandler = TRUE
  HasTimeout = TRUE
  Consumer = "ranges"
  MayCancel = TRUE
  TextOnly = FALSE
  IncludeThoughts = TRUE
  IncludeToolCalls = TRUE
  IncludeMetadata = FALSE
INVARIANTS Complete
PROPERTIES KeepsContract WaitEnds
