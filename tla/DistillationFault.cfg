\* One Worker, one database error inside the try block, one split, one explicit
\* retry, three events in two turns.
CONSTANTS
  w1 = w1
  w2 = w2
  NoWorker = NoWorker
  Worker <- OneWorker
  Turn <- TwoTurns
  MaxEvents = 3
  FastRetries = 0
  MaxCrashes = 0
  MaxFaults = 1
  MaxSplits = 1
  MaxOverruns = 0
  MaxHelp = 1
SPECIFICATION Spec
INVARIANTS NoEventStranded ConsolidationBound
PROPERTIES CursorAdvances ImplementsLeaseQueue
