SPECIFICATION FairSpec
CONSTANTS
  Names = {a, b}
  Aware = {a}
  TimerRuns = {t1}
  Callers = {c1}
  MaxVer = 2
  MaxWatches = 1
  Contents <- MCContents
INVARIANTS ConfigInv
PROPERTIES ChangeLoaded
CHECK_DEADLOCK FALSE
