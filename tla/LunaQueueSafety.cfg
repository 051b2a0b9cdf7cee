\* Two overlapping processes; a lease may run out under its holder.
CONSTANTS
  w1 = w1
  w2 = w2
  NoWorker = NoWorker
  Worker <- TwoWorkers
  MaxOps = 2
  FastRetries = 1
  MaxRecoveries = 1
  MaxCrashes = 0
  MaxOverruns = 1
  MaxManual = 0
SPECIFICATION Spec
SYMMETRY WorkerSymmetry
INVARIANTS TypeOK OneOwner AttemptBudget
PROPERTIES ImplementsLeaseQueue
CHECK_DEADLOCK FALSE
