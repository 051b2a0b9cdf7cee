\* One Worker, one database error.
CONSTANTS
  w1 = w1
  w2 = w2
  NoWorker = NoWorker
  Worker <- OneWorker
  Turn <- OneTurn
  MaxEvents = 2
  FastRetries = 1
  MaxCrashes = 0
  MaxFaults = 1
  MaxSplits = 0
  MaxOverruns = 0
  MaxHelp = 0
SPECIFICATION Spec
INVARIANTS NoBatchSkipped
