\* Three hooks before an inbox for one file; two captured events; two candidates; four
\* windows; a corpus of three over a target of one; two members of a space.
CONSTANTS
  Hooks = {h1, h2, h3}
  Events = {e1, e2}
  Sensitive = {e2}
  Stamps = {1}
  Capacity = 1
  SlowHooks = FALSE
  NoHook = NoHook
  Captured = {o1, o2}
  Claimers = {p1, p2}
  MaxClaims = 3
  ClaimLimit = 2
  NoClaimer = NoClaimer
  Evaluators = {v1}
  Sources = {s1, s2}
  MaxCandidates = 2
  Overlap = FALSE
  AnomalyKeys = {k1, k2}
  LastWindow = 4
  Corpus = {m1, m2, m3}
  CorpusLimit = 3
  CorpusTarget = 1
  MaxCorpusRevision = 2
  MaxPlans = 1
  OwnerBetween = FALSE
  Members = {n1, n2}
  SpaceTarget = 1
  SpaceLowWater = 1
  MaxMemberRevision = 1
SPECIFICATION AllSpec
INVARIANTS IntakeTypeOK InboxSafe CandidatesSound
PROPERTIES OutboxKept CapacityKept
CHECK_DEADLOCK FALSE
