SPECIFICATION AgentFairSpec
CONSTANTS
  Agent = agent
  Writers = {agent}
  Kinds = {"delta", "done", "thought", "tool", "error"}
  MaxTokens = 2
  MaxTools = 1
  RunTimeouts = {TRUE, FALSE}
  MaxChunks = 6
  BufferSize = 2
  HasHandler = TRUE
  HasTimeout = TRUE
  Consumer = "ranges"
  MayCancel = TRUE
  TextOnly = FALSE
  IncludeThoughts = TRUE
  IncludeToolCalls = TRUE
  IncludeMetadata = FALSE
INVARIANTS AgentInv DoneMeansResult
PROPERTIES StreamEnds
