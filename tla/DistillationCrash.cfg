\* One Worker that may die once, three events.
CONSTANTS
  w1 = w1
  w2 = w2
  NoWorker = NoWorker
  Worker <- OneWorker
  Turn <- OneTurn
  MaxEvents = 3
  FastRetries = 1
  MaxCrashes = 1
  MaxFaults = 0
  MaxSplits = 0
  MaxOverruns = 0
  MaxHelp = 0
SPECIFICATION FairSpec
INVARIANTS TypeOK NoBatchSkipped SessionEndCovered CompletedIsDone RangesDisjoint CheckpointReusable
PROPERTIES EndedSessionIsHeard
