SPECIFICATION Spec
CONSTANTS
  Names = {a, b, c}
  MaxEdges = 3
INVARIANTS GraphInv ReachabilityInv
