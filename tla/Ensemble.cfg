SPECIFICATION EnsembleFairSpec
CONSTANTS
  Members <- MCMembers
  Order <- MCOrder
  Collaborative <- MCCollaborative
  MaxIterations = 2
  MaxDispatches = 1
INVARIANTS EnsembleInv StateReturned
PROPERTIES Completes
CHECK_DEADLOCK FALSE
