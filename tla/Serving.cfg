\* Two indexes of two batches; one start and one prompt in two epochs, two
\* receipts; two digests of two items and two dispatchers; an edit, a fault and two cutovers.
CONSTANTS
  IndexWorkers = {x1}
  MaxIndexes = 2
  LastBatch = 2
  MaxGeneration = 2
  MaxWorkingSet = 1
  StartEvents = {s1}
  PromptEvents = {p1}
  Memories = {m1}
  PackLimit = 1
  EpochLimit = 1
  MaxEpochs = 2
  MaxReceipts = 2
  NoEvent = NoEvent
  Digests = {r1, r2}
  Items = {i1, i2}
  Dispatchers = {q1, q2}
  NoReminder = NoReminder
  MaxEdits = 1
  MaxCutovers = 2
  MaxFaults = 1
SPECIFICATION AllSpec
INVARIANTS ServingTypeOK IndexSafe InjectionAccounted
PROPERTIES RemindersKept IntegrationKept
CHECK_DEADLOCK FALSE
