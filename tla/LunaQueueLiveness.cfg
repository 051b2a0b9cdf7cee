\* One process that may die once, two operations that compete for it.
CONSTANTS
  w1 = w1
  w2 = w2
  NoWorker = NoWorker
  Worker <- OneWorker
  MaxOps = 2
  FastRetries = 1
  MaxRecoveries = 1
  MaxCrashes = 1
  MaxOverruns = 0
  MaxManual = 0
SPECIFICATION FairSpec
PROPERTIES EveryOperationSettles
CHECK_DEADLOCK FALSE
