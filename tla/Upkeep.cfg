\* One session dreamed about; two governance runs; outages of the model; two Workers over
\* two revisions of a Memory.
CONSTANTS
  DreamSessions = {d1}
  Claims = {c1, c2}
  Known = {k0, c1}
  MaxActivity = 1
  MaxDreams = 1
  MaxDreamed = 2
  SelectDies = FALSE
  StepDies = TRUE
  Governors = {g1}
  LastMemory = 2
  MaxClock = 2
  MaxRuns = 2
  MaxGoverned = 3
  GovernorsOverlap = FALSE
  NoGovernor = NoGovernor
  DegradeFailures = 2
  DegradeSpan = 1
  UnavailableSpan = 2
  SchemaLimit = 3
  MaxTime = 3
  MaxFailures = 3
  MaxIncidents = 2
  MaxTransitions = 2
  QualityWorkers = {w1, w2}
  MaxSource = 2
  RewriteLimit = 0
  OwnerEdits = TRUE
SPECIFICATION AllSpec
INVARIANTS UpkeepTypeOK OneOpenIncident
PROPERTIES DreamingKept GovernanceKept IncidentsKept CompactKept
CHECK_DEADLOCK FALSE
