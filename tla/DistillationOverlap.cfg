\* Two Workers, a lease runs out under its holder once.
CONSTANTS
  w1 = w1
  w2 = w2
  NoWorker = NoWorker
  Worker <- TwoWorkers
  Turn <- OneTurn
  MaxEvents = 2
  FastRetries = 1
  MaxCrashes = 0
  MaxFaults = 0
  MaxSplits = 0
  MaxOverruns = 1
  MaxHelp = 0
SPECIFICATION Spec
SYMMETRY WorkerSymmetry
PROPERTIES EventsAssignedOnce
