\* One process, room for the two halves of a split operation, one explicit retry.
CONSTANTS
  w1 = w1
  w2 = w2
  NoWorker = NoWorker
  Worker <- OneWorker
  MaxOps = 3
  FastRetries = 0
  MaxRecoveries = 0
  MaxCrashes = 0
  MaxOverruns = 0
  MaxManual = 1
SPECIFICATION Spec
PROPERTIES ImplementsLeaseQueue
CHECK_DEADLOCK FALSE
