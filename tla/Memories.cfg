\* Two Memories and two writers at a limit of one active Memory; two archives; three
\* identifiers of human knowledge.
CONSTANTS
  Memories = {m1, m2}
  Writers = {w1, w2}
  ActiveLimit = 1
  MaxRevision = 3
  MaxEdits = 1
  Dead = Dead
  None = None
  Archives = {a1, a2}
  MaxVersion = 3
  DeadlineLimit = 1
  LateProtection = FALSE
  NoArchive = NoArchive
  Humans = {h1}
  LastKnowledge = 3
  MaxText = 4
  MaxCalls = 2
  HumansOverlap = FALSE
SPECIFICATION AllSpec
SYMMETRY MemoriesSymmetry
INVARIANTS MemoriesTypeOK VaultSafe
PROPERTIES AuthorityKept PurgeKept HumanKept
CHECK_DEADLOCK FALSE
