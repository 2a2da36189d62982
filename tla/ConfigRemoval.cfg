SPECIFICATION FairSpec
CONSTANTS
  Names = {a}
  Aware = {a}
  TimerRuns = {t1}
  Callers = {c1}
  MaxVer = 2
  MaxWatches = 1
  Contents <- AllContents
PROPERTIES RemovedDisabled
CHECK_DEADLOCK FALSE
