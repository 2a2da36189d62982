SPECIFICATION FairSpec
CONSTANTS
  Emitters = {e1, e2, e3}
  Controllers = {c1}
  QueueSize = 2
  MaxEvents = 1
  MaxHops = 1
  MaxStarts = 2
INVARIANTS LoopInv HandledInOrder
PROPERTIES StopEnds AcceptedIsHandled
CHECK_DEADLOCK FALSE
