----------------------------- MODULE RetrievalProofs -----------------------------
(***************************************************************************)
(* Theorems about IndexPublication and ForegroundRetrieval, for any number  *)
(* of indexes, batches, catalog and working set changes, and of events,     *)
(* memories and epochs.                                                     *)
(***************************************************************************)
EXTENDS IndexPublication, ForegroundRetrieval, FiniteSetTheorems,
        FunctionTheorems, WellFoundedInduction, TLAPS

(***************************************************************************)
(* One Worker process at a time: it is the LaunchAgent of one label, of     *)
(* which launchd runs one process (integration/setup.ts:28).  A process     *)
(* that dies and its successor are one element; its death is WorkerDies.    *)
(***************************************************************************)
OneIndexWorker == \A v, w \in IndexWorkers : v = w

Targets == 0..(IF MaxGeneration > MaxWorkingSet THEN MaxGeneration ELSE MaxWorkingSet)

Pcs == {"idle", "loaded", "served", "set_read", "set_loaded", "set_served",
        "selected", "emptied", "removed"} \cup Building

Builders == [pc: Pcs, target: Targets, of: Generations, rev: Revisions \cup {0},
             done: SUBSET Batches, loaded: Snapshots]

Indexes == [state: {"none", "failed", "complete"}, of: Generations,
            docs: SUBSET Batches, stored: BOOLEAN, pruned: BOOLEAN]

Threads == [state: {"up", "exited", "starting"}, serving: Snapshots]

ActivityTyped == activity \in [state: {"none", "building", "complete", "failed"},
                               by: IndexWorkers, recent: BOOLEAN]

Catalogs == [dirty: Generations, published: Generations, building: Generations \cup {NotBuilding}]

WorkingSets == [dirty: 0..MaxWorkingSet, published: 0..MaxWorkingSet]

IndexTyped ==
  /\ catalog \in Catalogs /\ ActivityTyped
  /\ index \in [Revisions -> Indexes] /\ active \in Revisions \cup {0}
  /\ working \in WorkingSets
  /\ builder \in [IndexWorkers -> Builders]
  /\ thread \in [IndexWorkers -> Threads]

LEMMA IndexTypes == IndexTypeOK <=> IndexTyped
  BY DEF IndexTypeOK, IndexTyped, ActivityTyped, Catalogs, WorkingSets, Builders, Indexes,
         Threads, Targets, Pcs

(***************************************************************************)
(* Nothing is marked published that has not happened.                       *)
(***************************************************************************)
MarksBehind == catalog.published <= catalog.dirty /\ working.published <= working.dirty

(***************************************************************************)
(* What the published mark promises is in the active index.                 *)
(***************************************************************************)
ActiveAsNew == catalog.published > 0 => active # 0 /\ index[active].of >= catalog.published

AsNew(s) == s.of >= catalog.published /\ s.set >= working.published

ThreadAsNew(w) == thread[w].serving # NoSnapshot => AsNew(thread[w].serving)

(***************************************************************************)
(* The build of w: its lease is the one in the row; what it indexes is not  *)
(* active and is at least as new as what is published and as its target;    *)
(* once complete it is the active index, and what is loaded or served is    *)
(* not older than the target.                                               *)
(***************************************************************************)
BuildOf(w, b) ==
  /\ b.pc \in Building \cup {"loaded", "served"} =>
       catalog.building = b.target /\ b.target <= catalog.dirty
  /\ b.pc \in {"begun", "recorded", "read"} => b.done = {}
  /\ b.pc \in {"read", "staged", "indexed"} =>
       b.of >= catalog.published /\ b.of >= b.target
  /\ b.pc \in {"staged", "indexed"} =>
       /\ b.rev \in Revisions /\ b.rev # active
       /\ index[b.rev].state = "failed" /\ index[b.rev].of = b.of
       /\ index[b.rev].docs = b.done /\ index[b.rev].stored /\ ~index[b.rev].pruned
  /\ b.pc = "indexed" => b.done = Batches
  /\ b.pc \in {"completed", "acknowledged", "loaded", "served"} =>
       active # 0 /\ index[active].of >= b.target
  /\ b.pc = "served" => thread[w].serving = NoSnapshot \/ thread[w].serving.of >= b.target

(***************************************************************************)
(* What w has loaded but not yet handed over is as new as what is marked.   *)
(***************************************************************************)
LoadedOf(w, b) ==
  /\ b.pc = "loaded" => AsNew(b.loaded) /\ b.loaded.of >= b.target
  /\ b.pc = "set_loaded" => AsNew(b.loaded) /\ b.loaded.set >= b.target
  /\ b.pc \in {"set_read", "set_loaded", "set_served"} => b.target <= working.dirty
  /\ b.pc = "set_served" => thread[w].serving = NoSnapshot \/ thread[w].serving.set >= b.target

(***************************************************************************)
(* Only an index that is not active is pruned.                              *)
(***************************************************************************)
PrunesRetired(b) ==
  b.pc \in {"selected", "emptied", "removed"} => b.rev \in Revisions /\ b.rev # active

GoodBuilder(w, b) == BuildOf(w, b) /\ LoadedOf(w, b) /\ PrunesRetired(b)

Good(w) == ThreadAsNew(w) /\ GoodBuilder(w, builder[w])

IndexInv ==
  /\ IndexTyped /\ MarksBehind /\ ActiveWhole /\ ActiveAsNew
  /\ \A w \in IndexWorkers : Good(w)

-----------------------------------------------------------------------------
LEMMA IndexConstants ==
  /\ MaxIndexes \in Nat /\ LastBatch \in Nat /\ MaxGeneration \in Nat \ {0} /\ MaxWorkingSet \in Nat
  /\ NoSnapshot \in Snapshots /\ BuilderIdle \in Builders
  /\ Generations \subseteq Targets /\ 0..MaxWorkingSet \subseteq Targets
  /\ 0 \in Generations /\ 0 \in Targets
  /\ Generations \subseteq Nat /\ Targets \subseteq Nat /\ Revisions \subseteq Nat
  /\ 0 \notin Revisions
<1>1. MaxIndexes \in Nat /\ LastBatch \in Nat /\ MaxGeneration \in Nat \ {0} /\ MaxWorkingSet \in Nat
  BY IndexAssumption
<1>2. NoSnapshot \in Snapshots
  BY DEF NoSnapshot, Snapshots
<1>3. /\ 0 \in Targets /\ 0 \in Generations /\ Generations \subseteq Targets
      /\ 0..MaxWorkingSet \subseteq Targets /\ 0 \notin Revisions
      /\ Generations \subseteq Nat /\ Targets \subseteq Nat /\ Revisions \subseteq Nat
  BY <1>1 DEF Targets, Generations, Revisions
<1>4. BuilderIdle \in Builders
  BY <1>2, <1>3 DEF BuilderIdle, Builders, Pcs
<1> QED BY <1>1, <1>2, <1>3, <1>4

(***************************************************************************)
(* A nonempty set of naturals, such as the indexes not yet used or the      *)
(* retired ones, has a least element, which CHOOSE finds.                   *)
(***************************************************************************)
LEMMA LeastNatural ==
  ASSUME NEW S, S \subseteq Nat, S # {}
  PROVE  (CHOOSE x \in S : \A y \in S : x <= y) \in S
<1> DEFINE Less == {p \in Nat \X Nat : p[1] < p[2]}
<1>1. IsWellFoundedOn(Less, Nat)
  BY NatLessThanWellFounded DEF OpToRel
<1>2. PICK x \in S : \A y \in S : ~ (<<y, x>> \in Less)
  <2> HIDE DEF Less
  <2> QED BY <1>1, WFMin
<1>3. ASSUME NEW y \in S  PROVE x <= y
  <2>1. x \in Nat /\ y \in Nat /\ <<y, x>> \in Nat \X Nat
    OBVIOUS
  <2>2. ~ (<<y, x>>[1] < <<y, x>>[2])
    BY <1>2, <2>1
  <2> QED BY <2>1, <2>2
<1> QED BY <1>3

(***************************************************************************)
(* What loading the active index yields is as new as what is marked.        *)
(***************************************************************************)
LEMMA LoadedSnapshot ==
  ASSUME IndexTyped, MarksBehind, ActiveAsNew, Loadable
  PROVE  /\ active \in Revisions /\ Loaded \in Snapshots /\ AsNew(Loaded)
         /\ Loaded.of = index[active].of /\ Loaded.set = working.dirty
<1>1. active \in Revisions /\ index[active] \in Indexes
  BY DEF Loadable, IndexTyped
<1>2. index[active].of \in Nat /\ catalog.published \in Nat /\ working.dirty \in Nat
      /\ working.published \in Nat
  BY <1>1, IndexConstants DEF Indexes, IndexTyped, Catalogs, WorkingSets
<1>3. index[active].of >= catalog.published
  BY <1>1, <1>2, IndexConstants DEF ActiveAsNew
<1>4. Loaded \in Snapshots /\ Loaded.of = index[active].of /\ Loaded.set = working.dirty
  BY <1>1, <1>2 DEF Loaded, Snapshots, Indexes, IndexTyped, WorkingSets
<1> QED BY <1>1, <1>2, <1>3, <1>4 DEF AsNew, MarksBehind

LEMMA AtLeastMax ==
  ASSUME NEW a \in Nat, NEW b \in Nat
  PROVE  AtLeast(a, b) \in {a, b} /\ AtLeast(a, b) >= a /\ AtLeast(a, b) >= b
  BY DEF AtLeast

(***************************************************************************)
(* An idle Worker has nothing to keep.                                      *)
(***************************************************************************)
LEMMA IdleIsGood ==
  ASSUME NEW w \in IndexWorkers
  PROVE  GoodBuilder(w, BuilderIdle) /\ BuilderIdle.pc = "idle"
  BY DEF GoodBuilder, BuildOf, LoadedOf, PrunesRetired, BuilderIdle, Building

LEMMA IdleIsGoodNext ==
  ASSUME NEW w \in IndexWorkers
  PROVE  GoodBuilder(w, BuilderIdle)'
  BY DEF GoodBuilder, BuildOf, LoadedOf, PrunesRetired, BuilderIdle, Building

(***************************************************************************)
(* The invariant for the one Worker, part by part.                          *)
(***************************************************************************)
LEMMA Whole ==
  ASSUME OneIndexWorker, NEW w \in IndexWorkers,
         IndexTyped', MarksBehind', ActiveWhole', ActiveAsNew', Good(w)'
  PROVE  IndexInv'
  BY DEF OneIndexWorker, IndexInv

(***************************************************************************)
(* A step of the Worker that changes nothing but what it is doing.          *)
(***************************************************************************)
LEMMA OnlyBuilder ==
  ASSUME OneIndexWorker, IndexInv, NEW w \in IndexWorkers, NEW c \in Builders,
         builder' = [builder EXCEPT ![w] = c], ActivityTyped',
         UNCHANGED <<catalog, index, active, working, thread>>,
         GoodBuilder(w, c)
  PROVE  IndexInv'
<1>1. builder' \in [IndexWorkers -> Builders] /\ builder'[w] = c
  BY DEF IndexInv, IndexTyped
<1>2. IndexTyped'
  BY <1>1 DEF IndexInv, IndexTyped
<1>3. MarksBehind' /\ ActiveWhole' /\ ActiveAsNew'
  BY DEF IndexInv, MarksBehind, ActiveWhole, ActiveAsNew
<1>4. ThreadAsNew(w)'
  BY DEF IndexInv, Good, ThreadAsNew, AsNew
<1>5. GoodBuilder(w, builder[w])'
  BY <1>1 DEF GoodBuilder, BuildOf, LoadedOf, PrunesRetired, AsNew
<1> QED BY <1>2, <1>3, <1>4, <1>5, Whole DEF Good

-----------------------------------------------------------------------------
(* The rest of the program                                                  *)

LEMMA AroundStep ==
  ASSUME IndexInv, ChangeCatalog \/ ChangeWorkingSet \/ ActivityAges
  PROVE  IndexInv'
<1> USE IndexConstants DEF IndexInv, IndexTyped
<1>1. CASE ChangeCatalog
  <2>1. /\ catalog.dirty \in Nat /\ catalog.dirty + 1 \in Generations
        /\ catalog' = [catalog EXCEPT !.dirty = catalog.dirty + 1]
    BY <1>1 DEF ChangeCatalog, Generations, Catalogs
  <2>2. /\ catalog' \in Catalogs /\ catalog'.dirty = catalog.dirty + 1
        /\ catalog'.published = catalog.published /\ catalog'.building = catalog.building
    BY <2>1 DEF Catalogs
  <2>3. UNCHANGED <<activity, index, active, working, builder, thread>>
    BY <1>1 DEF ChangeCatalog
  <2>4. IndexTyped'
    BY <2>2, <2>3 DEF ActivityTyped
  <2>5. MarksBehind' /\ ActiveWhole' /\ ActiveAsNew'
    BY <2>1, <2>2, <2>3 DEF MarksBehind, ActiveWhole, ActiveAsNew, Catalogs
  <2>6. ASSUME NEW w \in IndexWorkers  PROVE Good(w)'
    <3>1. Good(w) /\ builder[w].target \in Nat
      BY DEF Builders
    <3>2. ThreadAsNew(w)' /\ LoadedOf(w, builder[w])' /\ PrunesRetired(builder[w])'
      BY <2>2, <2>3, <3>1 DEF Good, GoodBuilder, ThreadAsNew, AsNew, LoadedOf, PrunesRetired
    <3>3. BuildOf(w, builder[w])'
      BY <2>1, <2>2, <2>3, <3>1 DEF Good, GoodBuilder, BuildOf
    <3> QED BY <3>2, <3>3 DEF Good, GoodBuilder
  <2> QED BY <2>4, <2>5, <2>6
<1>2. CASE ChangeWorkingSet
  <2>1. /\ working.dirty \in Nat /\ working.dirty + 1 \in 0..MaxWorkingSet
        /\ working' = [working EXCEPT !.dirty = working.dirty + 1]
    BY <1>2 DEF ChangeWorkingSet, WorkingSets
  <2>2. /\ working' \in WorkingSets /\ working'.dirty = working.dirty + 1
        /\ working'.published = working.published
    BY <2>1 DEF WorkingSets
  <2>3. UNCHANGED <<catalog, activity, index, active, builder, thread>>
    BY <1>2 DEF ChangeWorkingSet
  <2>4. IndexTyped'
    BY <2>2, <2>3 DEF ActivityTyped
  <2>5. MarksBehind' /\ ActiveWhole' /\ ActiveAsNew'
    BY <2>1, <2>2, <2>3 DEF MarksBehind, ActiveWhole, ActiveAsNew, WorkingSets
  <2>6. ASSUME NEW w \in IndexWorkers  PROVE Good(w)'
    <3>1. Good(w) /\ builder[w].target \in Nat
      BY DEF Builders
    <3>2. ThreadAsNew(w)' /\ BuildOf(w, builder[w])' /\ PrunesRetired(builder[w])'
      BY <2>2, <2>3, <3>1 DEF Good, GoodBuilder, ThreadAsNew, AsNew, BuildOf, PrunesRetired
    <3>3. LoadedOf(w, builder[w])'
      BY <2>1, <2>2, <2>3, <3>1 DEF Good, GoodBuilder, LoadedOf, AsNew
    <3> QED BY <3>2, <3>3 DEF Good, GoodBuilder
  <2> QED BY <2>4, <2>5, <2>6
<1>3. CASE ActivityAges
  <2>1. ActivityTyped' /\ UNCHANGED <<catalog, index, active, working, builder, thread>>
    BY <1>3 DEF ActivityAges, ActivityTyped
  <2>2. IndexTyped' /\ MarksBehind' /\ ActiveWhole' /\ ActiveAsNew'
    BY <2>1 DEF MarksBehind, ActiveWhole, ActiveAsNew
  <2>3. ASSUME NEW w \in IndexWorkers  PROVE Good(w)'
    BY <2>1 DEF Good, GoodBuilder, ThreadAsNew, AsNew, BuildOf, LoadedOf, PrunesRetired
  <2> QED BY <2>2, <2>3
<1> QED BY <1>1, <1>2, <1>3

-----------------------------------------------------------------------------
(* A build up to the active index                                           *)

(***************************************************************************)
(* What the invariant says of a Worker and of the counters.                 *)
(***************************************************************************)
LEMMA WorkerFacts ==
  ASSUME IndexInv, NEW w \in IndexWorkers
  PROVE  /\ builder[w] \in Builders /\ builder[w].target \in Nat /\ builder[w].of \in Nat
         /\ builder[w].target \in Targets /\ builder[w].of \in Generations
         /\ ThreadAsNew(w) /\ GoodBuilder(w, builder[w])
         /\ catalog.dirty \in Generations /\ catalog.dirty \in Nat
         /\ catalog.published \in Generations /\ catalog.published \in Nat
         /\ working.dirty \in Nat /\ working.published \in Nat
         /\ working.dirty \in Targets
         /\ catalog.published <= catalog.dirty /\ working.published <= working.dirty
  BY IndexConstants
  DEF IndexInv, IndexTyped, Builders, Catalogs, WorkingSets, Good, MarksBehind

LEMMA BeginStep ==
  ASSUME OneIndexWorker, IndexInv, NEW w \in IndexWorkers, Begin(w)
  PROVE  IndexInv'
<1> DEFINE c == [BuilderIdle EXCEPT !.pc = "begun", !.target = catalog.dirty]
<1>1. c \in Builders /\ c.pc = "begun" /\ c.target = catalog.dirty /\ c.done = {}
  BY WorkerFacts, IndexConstants DEF BuilderIdle, Builders, Pcs, Building
<1>2. /\ builder' = [builder EXCEPT ![w] = c]
      /\ catalog' = [catalog EXCEPT !.building = catalog.dirty]
      /\ UNCHANGED <<activity, index, active, working, thread>>
  BY DEF Begin
<1> HIDE DEF c
<1>3. builder' \in [IndexWorkers -> Builders] /\ builder'[w] = c
  BY <1>1, <1>2 DEF IndexInv, IndexTyped
<1>4. /\ catalog' \in Catalogs /\ catalog'.dirty = catalog.dirty
      /\ catalog'.published = catalog.published /\ catalog'.building = catalog.dirty
  BY <1>2, WorkerFacts DEF Catalogs, IndexInv, IndexTyped
<1>5. IndexTyped'
  BY <1>2, <1>3, <1>4 DEF IndexInv, IndexTyped, ActivityTyped
<1>6. MarksBehind' /\ ActiveWhole' /\ ActiveAsNew' /\ ThreadAsNew(w)'
  BY <1>2, <1>4 DEF IndexInv, MarksBehind, ActiveWhole, ActiveAsNew, Good, ThreadAsNew, AsNew
<1>7. GoodBuilder(w, builder[w])'
  BY <1>1, <1>3, <1>4, WorkerFacts DEF GoodBuilder, BuildOf, LoadedOf, PrunesRetired, Building
<1> QED BY <1>5, <1>6, <1>7, Whole DEF Good

LEMMA RecordReadSteps ==
  ASSUME OneIndexWorker, IndexInv, NEW w \in IndexWorkers, RecordActivity(w) \/ ReadCatalog(w)
  PROVE  IndexInv'
<1> USE WorkerFacts, IndexConstants DEF GoodBuilder
<1>1. CASE RecordActivity(w)
  <2> DEFINE c == [builder[w] EXCEPT !.pc = "recorded"]
  <2>1. c \in Builders /\ c.pc = "recorded" /\ c.target = builder[w].target
        /\ c.done = builder[w].done
    BY DEF Builders, Pcs, Building
  <2>2. /\ builder' = [builder EXCEPT ![w] = c] /\ builder[w].pc = "begun"
        /\ UNCHANGED <<catalog, index, active, working, thread>> /\ ActivityTyped'
    BY <1>1 DEF RecordActivity, Step, ActivityTyped
  <2> HIDE DEF c
  <2>3. GoodBuilder(w, c)
    BY <2>1, <2>2 DEF BuildOf, LoadedOf, PrunesRetired, Building
  <2> QED BY <2>1, <2>2, <2>3, OnlyBuilder
<1>2. CASE ReadCatalog(w)
  <2> DEFINE c == [builder[w] EXCEPT !.pc = "read", !.of = catalog.dirty]
  <2>1. c \in Builders /\ c.pc = "read" /\ c.target = builder[w].target /\ c.of = catalog.dirty
        /\ c.done = builder[w].done
    BY DEF Builders, Pcs, Building
  <2>2. /\ builder' = [builder EXCEPT ![w] = c] /\ builder[w].pc = "recorded"
        /\ UNCHANGED <<catalog, activity, index, active, working, thread>>
    BY <1>2 DEF ReadCatalog
  <2> HIDE DEF c
  <2>3. GoodBuilder(w, c)
    BY <2>1, <2>2 DEF BuildOf, LoadedOf, PrunesRetired, Building
  <2>4. ActivityTyped'
    BY <2>2 DEF IndexInv, IndexTyped, ActivityTyped
  <2> QED BY <2>1, <2>2, <2>3, <2>4, OnlyBuilder
<1> QED BY <1>1, <1>2

(***************************************************************************)
(* An index other than the active one changes.                              *)
(***************************************************************************)
LEMMA OtherIndex ==
  ASSUME IndexInv, NEW r \in Revisions, r # active, NEW x \in Indexes,
         index' = [index EXCEPT ![r] = x], UNCHANGED active
  PROVE  /\ index' \in [Revisions -> Indexes] /\ index'[r] = x
         /\ \A q \in Revisions : q # r => index'[q] = index[q]
         /\ active # 0 => index'[active] = index[active]
         /\ ActiveWhole'
  BY DEF IndexInv, IndexTyped, ActiveWhole

LEMMA StageStep ==
  ASSUME OneIndexWorker, IndexInv, NEW w \in IndexWorkers, Stage(w)
  PROVE  IndexInv'
<1> DEFINE r == CHOOSE x \in Fresh : \A y \in Fresh : x <= y
           x == [state |-> "failed", of |-> builder[w].of, docs |-> {},
                 stored |-> TRUE, pruned |-> FALSE]
           c == [builder[w] EXCEPT !.pc = "staged", !.rev = r]
<1> USE WorkerFacts, IndexConstants
<1>1. r \in Fresh
  BY LeastNatural DEF Stage, Fresh
<1>2. /\ builder' = [builder EXCEPT ![w].pc = "staged", ![w].rev = r]
      /\ index' = [index EXCEPT ![r] = x]
      /\ builder[w].pc = "read" /\ UNCHANGED <<catalog, activity, active, working, thread>>
  BY ZenonT(30) DEF Stage
<1> HIDE DEF r
<1>11. builder' = [builder EXCEPT ![w] = c]
  BY <1>2
<1>3. r \in Revisions /\ r # active
  BY <1>1 DEF Fresh, IndexInv, ActiveWhole
<1>4. x \in Indexes
  BY DEF Indexes
<1>5. c \in Builders /\ c.pc = "staged" /\ c.rev = r /\ c.target = builder[w].target
      /\ c.of = builder[w].of /\ c.done = builder[w].done
  BY <1>3 DEF Builders, Pcs, Building
<1>6. builder' \in [IndexWorkers -> Builders] /\ builder'[w] = c
  BY <1>11, <1>5 DEF IndexInv, IndexTyped
<1>7. /\ index' \in [Revisions -> Indexes] /\ index'[r] = x /\ ActiveWhole'
      /\ active # 0 => index'[active] = index[active]
  BY <1>2, <1>3, <1>4, OtherIndex
<1>8. IndexTyped'
  BY <1>2, <1>6, <1>7 DEF IndexInv, IndexTyped, ActivityTyped
<1>9. MarksBehind' /\ ActiveAsNew' /\ ThreadAsNew(w)'
  BY <1>2, <1>7 DEF IndexInv, MarksBehind, ActiveAsNew, ThreadAsNew, AsNew
<1>10. GoodBuilder(w, builder[w])'
  BY <1>2, <1>3, <1>5, <1>6, <1>7 DEF GoodBuilder, BuildOf, LoadedOf, PrunesRetired, Building
<1> QED BY <1>7, <1>8, <1>9, <1>10, Whole DEF Good

LEMMA PublishBatchStep ==
  ASSUME OneIndexWorker, IndexInv, NEW w \in IndexWorkers, NEW b \in Batches, PublishBatch(w, b)
  PROVE  IndexInv'
<1> DEFINE done == builder[w].done \cup {b}
           pc == IF done = Batches THEN "indexed" ELSE "staged"
           r == builder[w].rev
           x == [index[r] EXCEPT !.docs = index[r].docs \cup {b}]
           c == [builder[w] EXCEPT !.done = done, !.pc = pc]
<1> USE WorkerFacts, IndexConstants
<1>1. builder[w].pc = "staged" /\ UNCHANGED <<catalog, activity, active, working, thread>>
  BY DEF PublishBatch
<1>2. /\ r \in Revisions /\ r # active /\ index[r] \in Indexes
      /\ index[r].state = "failed" /\ index[r].of = builder[w].of
      /\ index[r].docs = builder[w].done /\ index[r].stored /\ ~index[r].pruned
  BY <1>1 DEF GoodBuilder, BuildOf, Building, IndexInv, IndexTyped
<1>3. x \in Indexes /\ x.docs = done /\ x.state = "failed" /\ x.of = builder[w].of
      /\ x.stored /\ ~x.pruned
  BY <1>2 DEF Indexes
<1>4. /\ c \in Builders /\ c.pc = pc /\ c.rev = r /\ c.target = builder[w].target
      /\ c.of = builder[w].of /\ c.done = done
  BY DEF Builders, Pcs, Building
<1>5. index' = [index EXCEPT ![r] = x]
  BY DEF PublishBatch
<1>6. builder' = [builder EXCEPT ![w] = c]
  BY <1>1 DEF PublishBatch, IndexInv, IndexTyped
<1>7. pc \in {"staged", "indexed"} /\ (pc = "indexed" => done = Batches)
  OBVIOUS
<1> HIDE DEF x, c, done, pc
<1>8. builder' \in [IndexWorkers -> Builders] /\ builder'[w] = c
  BY <1>4, <1>6 DEF IndexInv, IndexTyped
<1>9. /\ index' \in [Revisions -> Indexes] /\ index'[r] = x /\ ActiveWhole'
      /\ active # 0 => index'[active] = index[active]
  BY <1>1, <1>2, <1>3, <1>5, OtherIndex
<1>10. IndexTyped'
  BY <1>1, <1>8, <1>9 DEF IndexInv, IndexTyped, ActivityTyped
<1>11. MarksBehind' /\ ActiveAsNew' /\ ThreadAsNew(w)'
  BY <1>1, <1>9 DEF IndexInv, MarksBehind, ActiveAsNew, ThreadAsNew, AsNew
<1>12. GoodBuilder(w, builder[w])'
  BY <1>1, <1>2, <1>3, <1>4, <1>7, <1>8, <1>9
  DEF GoodBuilder, BuildOf, LoadedOf, PrunesRetired, Building
<1> QED BY <1>9, <1>10, <1>11, <1>12, Whole DEF Good

LEMMA CompleteStep ==
  ASSUME OneIndexWorker, IndexInv, NEW w \in IndexWorkers, Complete(w)
  PROVE  IndexInv'
<1> DEFINE r == builder[w].rev
           x == [index[r] EXCEPT !.state = "complete"]
           c == [builder[w] EXCEPT !.pc = "completed", !.rev = 0, !.done = {}]
<1> USE WorkerFacts, IndexConstants
<1>1. builder[w].pc = "indexed" /\ UNCHANGED <<catalog, activity, working, thread>> /\ active' = r
  BY DEF Complete
<1>2. /\ r \in Revisions /\ index[r] \in Indexes /\ index[r].of = builder[w].of
      /\ index[r].docs = Batches /\ index[r].stored /\ ~index[r].pruned
      /\ builder[w].of >= catalog.published /\ builder[w].of >= builder[w].target
  BY <1>1 DEF GoodBuilder, BuildOf, Building, IndexInv, IndexTyped
<1>3. x \in Indexes /\ x.docs = Batches /\ x.state = "complete" /\ x.of = builder[w].of
      /\ x.stored /\ ~x.pruned
  BY <1>2 DEF Indexes
<1>4. c \in Builders /\ c.pc = "completed" /\ c.target = builder[w].target
  BY DEF Builders, Pcs, Building
<1>5. index' = [index EXCEPT ![r] = x] /\ builder' = [builder EXCEPT ![w] = c]
  BY DEF Complete
<1> HIDE DEF x, c
<1>6. builder' \in [IndexWorkers -> Builders] /\ builder'[w] = c
  BY <1>4, <1>5 DEF IndexInv, IndexTyped
<1>7. index' \in [Revisions -> Indexes] /\ index'[r] = x /\ active' # 0 /\ active' \in Revisions
  BY <1>1, <1>2, <1>3, <1>5 DEF IndexInv, IndexTyped
<1>8. IndexTyped'
  BY <1>1, <1>6, <1>7 DEF IndexInv, IndexTyped, ActivityTyped
<1>9. MarksBehind' /\ ActiveWhole' /\ ActiveAsNew' /\ ThreadAsNew(w)'
  BY <1>1, <1>2, <1>3, <1>7 DEF IndexInv, MarksBehind, ActiveWhole, ActiveAsNew, ThreadAsNew, AsNew
<1>10. GoodBuilder(w, builder[w])'
  BY <1>1, <1>2, <1>3, <1>4, <1>6, <1>7
  DEF GoodBuilder, BuildOf, LoadedOf, PrunesRetired, Building
<1> QED BY <1>8, <1>9, <1>10, Whole DEF Good

LEMMA AcknowledgeLoadSteps ==
  ASSUME OneIndexWorker, IndexInv, NEW w \in IndexWorkers, Acknowledge(w) \/ LoadIndex(w)
  PROVE  IndexInv'
<1> USE WorkerFacts, IndexConstants DEF GoodBuilder
<1>1. CASE Acknowledge(w)
  <2> DEFINE c == [builder[w] EXCEPT !.pc = "acknowledged", !.of = 0]
  <2>1. c \in Builders /\ c.pc = "acknowledged" /\ c.target = builder[w].target
    BY DEF Builders, Pcs, Building
  <2>2. /\ builder' = [builder EXCEPT ![w] = c] /\ builder[w].pc = "completed"
        /\ UNCHANGED <<index, active, working, thread>>
    BY <1>1 DEF Acknowledge
  <2> HIDE DEF c
  <2>3. catalog.building # NotBuilding
    BY <2>2 DEF BuildOf, Building, NotBuilding
  <2>4. UNCHANGED catalog
    BY <1>1, <2>3 DEF Acknowledge
  <2>5. ActivityTyped'
    BY <1>1 DEF Acknowledge, IndexInv, IndexTyped, ActivityTyped
  <2>6. GoodBuilder(w, c)
    BY <2>1, <2>2 DEF BuildOf, LoadedOf, PrunesRetired, Building
  <2> QED BY <2>1, <2>2, <2>4, <2>5, <2>6, OnlyBuilder
<1>2. CASE LoadIndex(w)
  <2> DEFINE c == [builder[w] EXCEPT !.pc = "loaded", !.loaded = Loaded]
  <2>0. /\ Loaded \in Snapshots /\ AsNew(Loaded) /\ Loaded.of = index[active].of
        /\ builder[w].pc = "acknowledged"
    BY <1>2, LoadedSnapshot DEF LoadIndex, IndexInv
  <2>1. c \in Builders /\ c.pc = "loaded" /\ c.target = builder[w].target /\ c.loaded = Loaded
    BY <2>0 DEF Builders, Pcs, Building
  <2>2. /\ builder' = [builder EXCEPT ![w] = c]
        /\ UNCHANGED <<catalog, activity, index, active, working, thread>>
    BY <1>2 DEF LoadIndex
  <2> HIDE DEF c
  <2>3. GoodBuilder(w, c)
    BY <2>0, <2>1, <2>2 DEF BuildOf, LoadedOf, PrunesRetired, Building
  <2>4. ActivityTyped'
    BY <2>2 DEF IndexInv, IndexTyped, ActivityTyped
  <2> QED BY <2>1, <2>2, <2>3, <2>4, OnlyBuilder
<1> QED BY <1>1, <1>2

(***************************************************************************)
(* What w has loaded is handed to its thread, for a build or for the        *)
(* working set.                                                             *)
(***************************************************************************)
LEMMA ServeSteps ==
  ASSUME OneIndexWorker, IndexInv, NEW w \in IndexWorkers, ServeIndex(w) \/ ServeWorkingSet(w)
  PROVE  IndexInv'
<1> DEFINE pc == IF builder[w].pc = "loaded" THEN "served" ELSE "set_served"
           c == [builder[w] EXCEPT !.pc = pc, !.loaded = NoSnapshot]
           x == [thread[w] EXCEPT !.serving = builder[w].loaded]
<1> USE WorkerFacts, IndexConstants
<1>1. /\ builder[w].pc \in {"loaded", "set_loaded"}
      /\ builder' = [builder EXCEPT ![w] = c] /\ thread' = [thread EXCEPT ![w] = x]
      /\ UNCHANGED <<catalog, activity, index, active, working>>
  <2>1. CASE ServeIndex(w)
    BY <2>1 DEF ServeIndex
  <2>2. CASE ServeWorkingSet(w)
    BY <2>2 DEF ServeWorkingSet
  <2> QED BY <2>1, <2>2
<1>2. /\ c \in Builders /\ c.pc = pc /\ c.target = builder[w].target
      /\ pc \in {"served", "set_served"}
  BY DEF Builders, Pcs, Building
<1>3. x \in Threads /\ x.serving = builder[w].loaded
  BY DEF Threads, Builders, IndexInv, IndexTyped
<1>4. pc = "served" <=> builder[w].pc = "loaded"
  OBVIOUS
<1> HIDE DEF c, x, pc
<1>5. /\ builder' \in [IndexWorkers -> Builders] /\ builder'[w] = c
      /\ thread' \in [IndexWorkers -> Threads] /\ thread'[w] = x
  BY <1>1, <1>2, <1>3 DEF IndexInv, IndexTyped
<1>6. IndexTyped'
  BY <1>1, <1>5 DEF IndexInv, IndexTyped, ActivityTyped
<1>7. MarksBehind' /\ ActiveWhole' /\ ActiveAsNew'
  BY <1>1 DEF IndexInv, MarksBehind, ActiveWhole, ActiveAsNew
<1>8. AsNew(builder[w].loaded)
  BY <1>1 DEF GoodBuilder, LoadedOf
<1>9. ThreadAsNew(w)'
  BY <1>1, <1>3, <1>5, <1>8 DEF ThreadAsNew, AsNew
<1>10. GoodBuilder(w, builder[w])'
  BY <1>1, <1>2, <1>3, <1>4, <1>5 DEF GoodBuilder, BuildOf, LoadedOf, PrunesRetired, Building
<1> QED BY <1>6, <1>7, <1>9, <1>10, Whole DEF Good

(***************************************************************************)
(* The published mark moves to the target of the build, which is served.    *)
(***************************************************************************)
LEMMA FinishBuildStep ==
  ASSUME OneIndexWorker, IndexInv, NEW w \in IndexWorkers, FinishBuild(w)
  PROVE  IndexInv'
<1> DEFINE p == AtLeast(catalog.published, builder[w].target)
<1> USE WorkerFacts, IndexConstants
<1>1. /\ builder[w].pc = "served" /\ builder' = [builder EXCEPT ![w] = BuilderIdle]
      /\ catalog' = [catalog EXCEPT !.published = p, !.building = NotBuilding]
      /\ UNCHANGED <<activity, index, active, working, thread>>
  BY DEF FinishBuild, PublishedTarget
<1>2. /\ catalog.building = builder[w].target /\ builder[w].target <= catalog.dirty
      /\ active # 0 /\ index[active].of >= builder[w].target
      /\ thread[w].serving = NoSnapshot \/ thread[w].serving.of >= builder[w].target
  BY <1>1 DEF GoodBuilder, BuildOf
<1>3. p \in {catalog.published, builder[w].target} /\ p \in Nat
  BY AtLeastMax
<1>4. p \in Generations /\ p <= catalog.dirty
  BY <1>2, <1>3 DEF Generations
<1> HIDE DEF p
<1>5. /\ catalog' \in Catalogs /\ catalog'.dirty = catalog.dirty /\ catalog'.published = p
  BY <1>1, <1>4 DEF Catalogs, IndexInv, IndexTyped
<1>6. builder' \in [IndexWorkers -> Builders] /\ builder'[w] = BuilderIdle
  BY <1>1 DEF IndexInv, IndexTyped
<1>7. IndexTyped'
  BY <1>1, <1>5, <1>6 DEF IndexInv, IndexTyped, ActivityTyped
<1>8. MarksBehind' /\ ActiveWhole'
  BY <1>1, <1>4, <1>5 DEF IndexInv, MarksBehind, ActiveWhole
<1>9. ActiveAsNew'
  <2>1. active \in Revisions /\ index[active].of \in Nat
    BY <1>2 DEF IndexInv, IndexTyped, Indexes
  <2>2. index[active].of >= p
    BY <1>2, <1>3, <2>1 DEF IndexInv, ActiveAsNew
  <2> QED BY <1>1, <1>2, <1>5, <2>2 DEF ActiveAsNew
<1>10. ThreadAsNew(w)'
  BY <1>1, <1>2, <1>3, <1>5 DEF ThreadAsNew, AsNew
<1>11. GoodBuilder(w, builder[w])'
  BY <1>6, IdleIsGoodNext
<1> QED BY <1>7, <1>8, <1>9, <1>10, <1>11, Whole DEF Good

(***************************************************************************)
(* A build fails: its own index, which is not active, may lose its files.   *)
(***************************************************************************)
LEMMA FailBuildStep ==
  ASSUME OneIndexWorker, IndexInv, NEW w \in IndexWorkers, FailBuild(w)
  PROVE  IndexInv'
<1> USE WorkerFacts, IndexConstants
<1>1. builder' = [builder EXCEPT ![w] = BuilderIdle] /\ UNCHANGED <<active, working, thread>>
  BY DEF FailBuild
<1>2. /\ catalog' \in Catalogs /\ catalog'.dirty = catalog.dirty
      /\ catalog'.published = catalog.published
  BY DEF FailBuild, IndexInv, IndexTyped, Catalogs
<1>3. /\ index' \in [Revisions -> Indexes] /\ ActiveWhole'
      /\ active # 0 => index'[active] = index[active]
  <2>1. CASE builder[w].pc \in {"staged", "indexed"}
    <3> DEFINE r == builder[w].rev
               x == [index[r] EXCEPT !.stored = FALSE]
    <3>1. r \in Revisions /\ r # active /\ index[r] \in Indexes
      BY <2>1 DEF GoodBuilder, BuildOf, IndexInv, IndexTyped
    <3>2. x \in Indexes
      BY <3>1 DEF Indexes
    <3>3. index' = [index EXCEPT ![r] = x]
      BY <2>1 DEF FailBuild
    <3> HIDE DEF x
    <3> QED BY <1>1, <3>1, <3>2, <3>3, OtherIndex
  <2>2. CASE builder[w].pc \notin {"staged", "indexed"}
    BY <1>1, <2>2 DEF FailBuild, IndexInv, IndexTyped, ActiveWhole
  <2> QED BY <2>1, <2>2
<1>4. ActivityTyped'
  BY DEF FailBuild, IndexInv, IndexTyped, ActivityTyped
<1>5. builder' \in [IndexWorkers -> Builders] /\ builder'[w] = BuilderIdle
  BY <1>1 DEF IndexInv, IndexTyped
<1>6. IndexTyped'
  BY <1>1, <1>2, <1>3, <1>4, <1>5 DEF IndexInv, IndexTyped
<1>7. MarksBehind' /\ ActiveAsNew' /\ ThreadAsNew(w)'
  BY <1>1, <1>2, <1>3 DEF IndexInv, MarksBehind, ActiveAsNew, ThreadAsNew, AsNew
<1>8. GoodBuilder(w, builder[w])'
  BY <1>5, IdleIsGoodNext
<1> QED BY <1>3, <1>6, <1>7, <1>8, Whole DEF Good

-----------------------------------------------------------------------------
(* The working set, and pruning                                             *)

LEMMA WorkingSetSteps ==
  ASSUME OneIndexWorker, IndexInv, NEW w \in IndexWorkers,
         ReadWorkingSet(w) \/ LoadWorkingSet(w) \/ FailUpkeep(w) \/ SelectRetired(w)
  PROVE  IndexInv'
<1> USE WorkerFacts, IndexConstants DEF GoodBuilder
<1>1. ActivityTyped' /\ UNCHANGED <<catalog, index, active, working, thread>>
  BY DEF ReadWorkingSet, LoadWorkingSet, FailUpkeep, SelectRetired, IndexInv, IndexTyped,
         ActivityTyped
<1>2. CASE ReadWorkingSet(w)
  <2> DEFINE c == [BuilderIdle EXCEPT !.pc = "set_read", !.target = working.dirty]
  <2>1. c \in Builders /\ c.pc = "set_read" /\ c.target = working.dirty
    BY DEF BuilderIdle, Builders, Pcs
  <2>2. builder' = [builder EXCEPT ![w] = c]
    BY <1>2 DEF ReadWorkingSet
  <2> HIDE DEF c
  <2>3. GoodBuilder(w, c)
    BY <2>1 DEF BuildOf, LoadedOf, PrunesRetired, Building
  <2> QED BY <1>1, <2>1, <2>2, <2>3, OnlyBuilder
<1>3. CASE LoadWorkingSet(w)
  <2> DEFINE c == [builder[w] EXCEPT !.pc = "set_loaded", !.loaded = Loaded]
  <2>1. /\ Loaded \in Snapshots /\ AsNew(Loaded) /\ Loaded.set = working.dirty
        /\ builder[w].pc = "set_read"
    BY <1>3, LoadedSnapshot DEF LoadWorkingSet, IndexInv
  <2>2. c \in Builders /\ c.pc = "set_loaded" /\ c.target = builder[w].target /\ c.loaded = Loaded
    BY <2>1 DEF Builders, Pcs
  <2>3. builder' = [builder EXCEPT ![w] = c]
    BY <1>3 DEF LoadWorkingSet
  <2> HIDE DEF c
  <2>4. GoodBuilder(w, c)
    BY <2>1, <2>2 DEF BuildOf, LoadedOf, PrunesRetired, Building
  <2> QED BY <1>1, <2>2, <2>3, <2>4, OnlyBuilder
<1>4. CASE FailUpkeep(w)
  BY <1>1, <1>4, IdleIsGood, OnlyBuilder DEF FailUpkeep
<1>5. CASE SelectRetired(w)
  <2> DEFINE r == CHOOSE x \in Retired : \A y \in Retired : x <= y
             c == [BuilderIdle EXCEPT !.pc = "selected", !.rev = r]
  <2>1. r \in Retired
    BY <1>5, LeastNatural DEF SelectRetired, Retired
  <2>2. builder' = [builder EXCEPT ![w] = c]
    BY <1>5 DEF SelectRetired
  <2> HIDE DEF r
  <2>3. c \in Builders /\ c.pc = "selected" /\ c.rev = r /\ r \in Revisions /\ r # active
    BY <2>1 DEF BuilderIdle, Builders, Pcs, Retired
  <2> HIDE DEF c
  <2>4. GoodBuilder(w, c)
    BY <2>3 DEF BuildOf, LoadedOf, PrunesRetired, Building
  <2> QED BY <1>1, <2>2, <2>3, <2>4, OnlyBuilder
<1> QED BY <1>2, <1>3, <1>4, <1>5

LEMMA MarkWorkingSetStep ==
  ASSUME OneIndexWorker, IndexInv, NEW w \in IndexWorkers, MarkWorkingSet(w)
  PROVE  IndexInv'
<1> DEFINE p == AtLeast(working.published, builder[w].target)
<1> USE WorkerFacts, IndexConstants
<1>1. /\ builder[w].pc = "set_served" /\ builder' = [builder EXCEPT ![w] = BuilderIdle]
      /\ working' = [working EXCEPT !.published = p]
      /\ UNCHANGED <<catalog, activity, index, active, thread>>
  BY DEF MarkWorkingSet
<1>2. /\ builder[w].target <= working.dirty
      /\ thread[w].serving = NoSnapshot \/ thread[w].serving.set >= builder[w].target
  BY <1>1 DEF GoodBuilder, LoadedOf
<1>3. p \in {working.published, builder[w].target} /\ p \in Nat
  BY AtLeastMax
<1>4. p \in 0..MaxWorkingSet /\ p <= working.dirty
  BY <1>2, <1>3 DEF IndexInv, IndexTyped, WorkingSets
<1> HIDE DEF p
<1>5. /\ working' \in WorkingSets /\ working'.dirty = working.dirty /\ working'.published = p
  BY <1>1, <1>4 DEF WorkingSets, IndexInv, IndexTyped
<1>6. builder' \in [IndexWorkers -> Builders] /\ builder'[w] = BuilderIdle
  BY <1>1 DEF IndexInv, IndexTyped
<1>7. IndexTyped'
  BY <1>1, <1>5, <1>6 DEF IndexInv, IndexTyped, ActivityTyped
<1>8. MarksBehind' /\ ActiveWhole' /\ ActiveAsNew'
  BY <1>1, <1>4, <1>5 DEF IndexInv, MarksBehind, ActiveWhole, ActiveAsNew
<1>9. ThreadAsNew(w)'
  BY <1>1, <1>2, <1>3, <1>5 DEF ThreadAsNew, AsNew
<1>10. GoodBuilder(w, builder[w])'
  BY <1>6, IdleIsGoodNext
<1> QED BY <1>7, <1>8, <1>9, <1>10, Whole DEF Good

(***************************************************************************)
(* Pruning changes an index that is not active.                             *)
(***************************************************************************)
LEMMA PruneSteps ==
  ASSUME OneIndexWorker, IndexInv, NEW w \in IndexWorkers,
         EmptyRetired(w) \/ RemoveRetired(w) \/ MarkPruned(w)
  PROVE  IndexInv'
<1> DEFINE r == builder[w].rev
<1> USE WorkerFacts, IndexConstants
<1>1. /\ builder[w].pc \in {"selected", "emptied", "removed"}
      /\ UNCHANGED <<catalog, activity, active, working, thread>>
  BY DEF EmptyRetired, RemoveRetired, MarkPruned
<1>2. r \in Revisions /\ r # active
  BY <1>1 DEF GoodBuilder, PrunesRetired
<1>3. PICK x \in Indexes : index' = [index EXCEPT ![r] = x]
  <2>1. index[r] \in Indexes
    BY <1>2 DEF IndexInv, IndexTyped
  <2>2. CASE EmptyRetired(w)
    <3> DEFINE x == [index[r] EXCEPT !.docs = {}]
    <3> x \in Indexes /\ index' = [index EXCEPT ![r] = x]
      BY <2>1, <2>2 DEF EmptyRetired, Indexes
    <3> QED OBVIOUS
  <2>3. CASE RemoveRetired(w)
    <3> DEFINE x == [index[r] EXCEPT !.stored = FALSE]
    <3> x \in Indexes /\ index' = [index EXCEPT ![r] = x]
      BY <2>1, <2>3 DEF RemoveRetired, Indexes
    <3> QED OBVIOUS
  <2>4. CASE MarkPruned(w)
    <3> DEFINE x == [index[r] EXCEPT !.pruned = TRUE]
    <3> x \in Indexes /\ index' = [index EXCEPT ![r] = x]
      BY <1>2, <2>1, <2>4 DEF MarkPruned, Indexes
    <3> QED OBVIOUS
  <2> QED BY <2>2, <2>3, <2>4
<1>4. PICK c \in Builders : /\ builder' = [builder EXCEPT ![w] = c]
                            /\ \/ c = BuilderIdle
                               \/ c.pc \in {"emptied", "removed"} /\ c.rev = r
  <2>1. CASE EmptyRetired(w)
    <3> DEFINE c == [builder[w] EXCEPT !.pc = "emptied"]
    <3> c \in Builders /\ c.pc = "emptied" /\ c.rev = r /\ builder' = [builder EXCEPT ![w] = c]
      BY <2>1 DEF EmptyRetired, Step, Builders, Pcs
    <3> QED OBVIOUS
  <2>2. CASE RemoveRetired(w)
    <3> DEFINE c == [builder[w] EXCEPT !.pc = "removed"]
    <3> c \in Builders /\ c.pc = "removed" /\ c.rev = r /\ builder' = [builder EXCEPT ![w] = c]
      BY <2>2 DEF RemoveRetired, Step, Builders, Pcs
    <3> QED OBVIOUS
  <2>3. CASE MarkPruned(w)
    BY <2>3 DEF MarkPruned
  <2> QED BY <2>1, <2>2, <2>3
<1>5. builder' \in [IndexWorkers -> Builders] /\ builder'[w] = c
  BY <1>4 DEF IndexInv, IndexTyped
<1>6. /\ index' \in [Revisions -> Indexes] /\ ActiveWhole'
      /\ active # 0 => index'[active] = index[active]
  BY <1>1, <1>2, <1>3, OtherIndex
<1>7. IndexTyped'
  BY <1>1, <1>5, <1>6 DEF IndexInv, IndexTyped, ActivityTyped
<1>8. MarksBehind' /\ ActiveAsNew' /\ ThreadAsNew(w)'
  BY <1>1, <1>6 DEF IndexInv, MarksBehind, ActiveAsNew, ThreadAsNew, AsNew
<1>9. GoodBuilder(w, builder[w])'
  <2>1. CASE c = BuilderIdle
    BY <1>5, <2>1, IdleIsGoodNext
  <2>2. CASE c.pc \in {"emptied", "removed"} /\ c.rev = r
    BY <1>1, <1>2, <1>5, <2>2 DEF GoodBuilder, BuildOf, LoadedOf, PrunesRetired, Building
  <2> QED BY <1>4, <2>1, <2>2
<1> QED BY <1>6, <1>7, <1>8, <1>9, Whole DEF Good

-----------------------------------------------------------------------------
(* The foreground thread and the process                                    *)

(***************************************************************************)
(* A thread exits, or loads what is active, which is not older than what    *)
(* its Worker may be about to mark; the process may die with it.            *)
(***************************************************************************)
LEMMA ThreadSteps ==
  ASSUME OneIndexWorker, IndexInv, NEW w \in IndexWorkers,
         ThreadExits(w) \/ ThreadLoads(w) \/ ThreadReady(w) \/ ThreadFails(w) \/ WorkerDies(w)
  PROVE  IndexInv'
<1> USE WorkerFacts, IndexConstants
<1>1. UNCHANGED <<catalog, activity, index, active, working>>
  BY DEF ThreadExits, ThreadLoads, ThreadReady, ThreadFails, WorkerDies
<1>2. PICK x \in Threads :
        /\ thread' = [thread EXCEPT ![w] = x]
        /\ x.serving \in {thread[w].serving, NoSnapshot} \/ (Loadable /\ x.serving = Loaded)
  <2>1. CASE ThreadExits(w) \/ ThreadFails(w) \/ WorkerDies(w)
    <3> DEFINE x == [state |-> "exited", serving |-> NoSnapshot]
    <3>1. x \in Threads /\ thread' = [thread EXCEPT ![w] = x]
      BY <2>1 DEF ThreadExits, ThreadFails, WorkerDies, Threads
    <3>2. x.serving = NoSnapshot
      OBVIOUS
    <3> QED BY <3>1, <3>2
  <2>2. CASE ThreadReady(w)
    <3> DEFINE x == [thread[w] EXCEPT !.state = "up"]
    <3>1. x \in Threads /\ x.serving = thread[w].serving
      BY DEF IndexInv, IndexTyped, Threads
    <3>2. thread' = [thread EXCEPT ![w] = x]
      BY <2>2 DEF ThreadReady
    <3> QED BY <3>1, <3>2
  <2>3. CASE ThreadLoads(w)
    <3>1. PICK s \in (IF Loadable THEN {Loaded} ELSE {}) \cup {NoSnapshot} :
            thread' = [thread EXCEPT ![w] = [state |-> "starting", serving |-> s]]
      BY <2>3 DEF ThreadLoads
    <3> DEFINE x == [state |-> "starting", serving |-> s]
    <3>2. s = NoSnapshot \/ (Loadable /\ s = Loaded)
      BY <3>1
    <3>3. s \in Snapshots
      BY <3>2, LoadedSnapshot DEF IndexInv
    <3>4. x \in Threads /\ x.serving = s
      BY <3>3 DEF Threads
    <3> QED BY <3>1, <3>2, <3>4
  <2> QED BY <2>1, <2>2, <2>3
<1>3. thread' \in [IndexWorkers -> Threads] /\ thread'[w] = x
  BY <1>2 DEF IndexInv, IndexTyped
<1>4. builder' \in [IndexWorkers -> Builders]
      /\ builder'[w] \in {builder[w], BuilderIdle}
  <2>1. CASE WorkerDies(w)
    BY <2>1 DEF WorkerDies, IndexInv, IndexTyped
  <2>2. CASE UNCHANGED builder
    BY <2>2 DEF IndexInv, IndexTyped
  <2> QED BY <2>1, <2>2 DEF ThreadExits, ThreadLoads, ThreadReady, ThreadFails
<1>5. IndexTyped'
  BY <1>1, <1>3, <1>4 DEF IndexInv, IndexTyped, ActivityTyped
<1>6. MarksBehind' /\ ActiveWhole' /\ ActiveAsNew'
  BY <1>1 DEF IndexInv, MarksBehind, ActiveWhole, ActiveAsNew
<1>7. Loadable => AsNew(Loaded) /\ Loaded.of = index[active].of /\ Loaded.set = working.dirty
  BY LoadedSnapshot DEF IndexInv
<1>8. ThreadAsNew(w)'
  BY <1>1, <1>2, <1>3, <1>7 DEF ThreadAsNew, AsNew
<1>9. GoodBuilder(w, builder[w])'
  <2>1. CASE builder'[w] = BuilderIdle
    BY <2>1, IdleIsGoodNext
  <2>2. CASE builder'[w] = builder[w]
    <3>1. BuildOf(w, builder[w])'
      BY <1>1, <1>2, <1>3, <1>7, <2>2 DEF GoodBuilder, BuildOf
    <3>2. LoadedOf(w, builder[w])'
      BY <1>1, <1>2, <1>3, <1>7, <2>2 DEF GoodBuilder, LoadedOf, AsNew
    <3>3. PrunesRetired(builder[w])'
      BY <1>1, <2>2 DEF GoodBuilder, PrunesRetired
    <3> QED BY <3>1, <3>2, <3>3 DEF GoodBuilder
  <2> QED BY <1>4, <2>1, <2>2
<1> QED BY <1>5, <1>6, <1>8, <1>9, Whole DEF Good

-----------------------------------------------------------------------------
LEMMA IndexInitInv == IndexInit => IndexInv
<1> SUFFICES ASSUME IndexInit  PROVE IndexInv
  OBVIOUS
<1> USE IndexConstants DEF IndexInit
<1>1. /\ catalog \in Catalogs /\ working \in WorkingSets /\ active = 0
      /\ catalog.dirty = 1 /\ catalog.published = 0
      /\ working.dirty = 0 /\ working.published = 0
  BY DEF Catalogs, WorkingSets, Generations
<1>2. /\ ActivityTyped /\ index \in [Revisions -> Indexes]
      /\ builder \in [IndexWorkers -> Builders] /\ thread \in [IndexWorkers -> Threads]
  BY DEF ActivityTyped, Indexes, Threads
<1>3. IndexTyped
  BY <1>1, <1>2 DEF IndexTyped
<1>4. MarksBehind /\ ActiveWhole /\ ActiveAsNew
  BY <1>1 DEF MarksBehind, ActiveWhole, ActiveAsNew
<1>5. ASSUME NEW w \in IndexWorkers  PROVE Good(w)
  <2>1. builder[w] = BuilderIdle /\ thread[w].serving = NoSnapshot
    OBVIOUS
  <2> QED BY <2>1, IdleIsGood DEF Good, ThreadAsNew
<1> QED BY <1>3, <1>4, <1>5 DEF IndexInv

LEMMA IndexStepInv == OneIndexWorker /\ IndexInv /\ [IndexNext]_indexVars => IndexInv'
<1> SUFFICES ASSUME OneIndexWorker, IndexInv, [IndexNext]_indexVars  PROVE IndexInv'
  OBVIOUS
<1>1. CASE ChangeCatalog \/ ChangeWorkingSet \/ ActivityAges
  BY <1>1, AroundStep
<1>2. ASSUME NEW w \in IndexWorkers,
             \/ Begin(w) \/ RecordActivity(w) \/ ReadCatalog(w) \/ Stage(w)
             \/ \E b \in Batches : PublishBatch(w, b)
             \/ Complete(w) \/ Acknowledge(w) \/ LoadIndex(w) \/ ServeIndex(w)
             \/ FinishBuild(w) \/ FailBuild(w)
      PROVE  IndexInv'
  BY <1>2, BeginStep, RecordReadSteps, StageStep, PublishBatchStep, CompleteStep,
     AcknowledgeLoadSteps, ServeSteps, FinishBuildStep, FailBuildStep
<1>3. ASSUME NEW w \in IndexWorkers,
             \/ ReadWorkingSet(w) \/ LoadWorkingSet(w) \/ ServeWorkingSet(w) \/ MarkWorkingSet(w)
             \/ SelectRetired(w) \/ EmptyRetired(w) \/ RemoveRetired(w) \/ MarkPruned(w)
             \/ FailUpkeep(w)
      PROVE  IndexInv'
  BY <1>3, WorkingSetSteps, ServeSteps, MarkWorkingSetStep, PruneSteps
<1>4. ASSUME NEW w \in IndexWorkers,
             \/ ThreadExits(w) \/ ThreadLoads(w) \/ ThreadReady(w) \/ ThreadFails(w)
             \/ WorkerDies(w)
      PROVE  IndexInv'
  BY <1>4, ThreadSteps
<1>5. CASE UNCHANGED indexVars
  BY <1>5 DEF indexVars, IndexInv, IndexTyped, ActivityTyped, MarksBehind, ActiveWhole,
     ActiveAsNew, Good, GoodBuilder, ThreadAsNew, AsNew, BuildOf, LoadedOf, PrunesRetired, Loadable
<1> QED BY <1>1, <1>2, <1>3, <1>4, <1>5 DEF IndexNext

(***************************************************************************)
(* With one Worker process at a time, in every behaviour: the index that    *)
(* answers is whole, whatever builds and pruning did, crashed or failed at; *)
(* what is marked published is in it, and no foreground thread answers from *)
(* something older than the marks say.  A second Worker would refute it: it *)
(* prunes the index that the first one is about to complete.                *)
(***************************************************************************)
THEOREM IndexInvariant == ASSUME OneIndexWorker PROVE IndexSpec => []IndexInv
<1>1. IndexInit => IndexInv
  BY IndexInitInv
<1>2. IndexInv /\ [IndexNext]_indexVars => IndexInv'
  BY OneIndexWorker, IndexStepInv
<1> QED BY <1>1, <1>2, PTL DEF IndexSpec

THEOREM IndexSafeAlways == ASSUME OneIndexWorker PROVE IndexSpec => []IndexSafe
<1>1. IndexSpec => []IndexInv
  BY OneIndexWorker, IndexInvariant
<1>2. IndexInv => IndexSafe
  <2> SUFFICES ASSUME IndexInv  PROVE IndexSafe
    OBVIOUS
  <2>1. ActiveWhole /\ ActiveAsNew
    BY DEF IndexInv
  <2>2. \A w \in IndexWorkers : ThreadAsNew(w)
    BY DEF IndexInv, Good
  <2> QED BY <2>1, <2>2 DEF IndexSafe, PublishedIsServed, ActiveAsNew, ThreadAsNew, AsNew
<1> QED BY <1>1, <1>2, PTL

-----------------------------------------------------------------------------
(* Automatic injection                                                      *)

(***************************************************************************)
(* The tokens of the receipts R in epoch n: one for each of their memories. *)
(***************************************************************************)
Tokens(R, n) == {p \in R \X Memories : p[1].epoch = n /\ p[2] \in p[1].items}
Spent(R, n) == Cardinality(Tokens(R, n))
By(R, by) == {r \in R : r.by = by}

(***************************************************************************)
(* The request x of one evaluator, whose receipts are S: with a pack it has *)
(* selected and not yet recorded it stays within the hard limit of the      *)
(* pack's epoch, and the pack repeats no memory of a receipt that is still  *)
(* there.  A pack without an epoch is recorded in one it opens.             *)
(***************************************************************************)
Ready(x) == x.pc \in {"selected", "starting"}
Pending(x, n) == IF Ready(x) /\ x.epoch = n THEN Cardinality(x.items) ELSE 0
AtRest(x) ==
  /\ ~ Ready(x) /\ (x.pc = "free" \/ x.event \in Events)
  /\ x.pc # "committed" => x.epoch = 0 /\ x.items = {}

WithinLimit(x, S) == \A n \in Epochs : Spent(S, n) + Pending(x, n) <= EpochLimit
NothingRepeated(x, S) ==
  Ready(x) => \A r \in S : r.kept /\ r.epoch = x.epoch => r.items \cap x.items = {}

Sound(x, used, S) ==
  /\ AtRest(x) \/ (Ready(x) /\ x.event \in Events)
  /\ Ready(x) => Cardinality(x.items) <= PackLimit /\ x.epoch <= used
  /\ WithinLimit(x, S) /\ NothingRepeated(x, S)

(***************************************************************************)
(* The receipts: rows of their own, of epochs that were opened; one of the  *)
(* foreground for a completed event and none for another.                   *)
(***************************************************************************)
Rows(R, used) ==
  /\ IsFiniteSet(R) /\ R \subseteq Receipts
  /\ \A r, s \in R : r.id = s.id => r = s
  /\ \A r \in R : r.epoch <= used

ByForeground ==
  /\ \A r, s \in receipt :
       r.by = "foreground" /\ s.by = "foreground" /\ r.event = s.event => r = s
  /\ \A e \in Events :
       reservation[e] = "completed" <=> \E r \in receipt : r.by = "foreground" /\ r.event = e

\* A prompt's pack has an epoch.
ShadowLoaded == shadow.pc = "selected" => shadow.epoch # 0

ForegroundInv ==
  /\ ForegroundTypeOK /\ TotalsMatch /\ OncePerEvaluator /\ ByForeground
  /\ Rows(receipt, epoch.used) /\ epoch.active <= epoch.used
  /\ Sound(lane, epoch.used, By(receipt, "foreground"))
  /\ Sound(shadow, epoch.used, By(receipt, "shadow")) /\ ShadowLoaded

-----------------------------------------------------------------------------
LEMMA ForegroundConstants ==
  /\ IsFiniteSet(Memories) /\ PackLimit \in Nat /\ EpochLimit \in Nat /\ MaxEpochs \in Nat
  /\ MaxReceipts \in Nat /\ PackLimit <= EpochLimit
  /\ StartEvents \cap PromptEvents = {} /\ NoEvent \notin Events
  /\ Events = StartEvents \cup PromptEvents
  /\ Free \in Requests /\ Free.pc = "free" /\ Free.items = {} /\ Free.event = NoEvent
  /\ Free.epoch = 0 /\ Cardinality({}) = 0
<1>1. /\ IsFiniteSet(Memories) /\ PackLimit \in Nat /\ EpochLimit \in Nat /\ MaxEpochs \in Nat
      /\ MaxReceipts \in Nat /\ PackLimit <= EpochLimit
      /\ StartEvents \cap PromptEvents = {} /\ NoEvent \notin Events
      /\ Events = StartEvents \cup PromptEvents
  BY ForegroundAssumption DEF Events
<1>2. Free \in Requests /\ Free.pc = "free" /\ Free.items = {} /\ Free.event = NoEvent
      /\ Free.epoch = 0
  BY <1>1 DEF Free, Requests
<1> QED BY <1>1, <1>2, FS_EmptySet

LEMMA PackSize ==
  ASSUME NEW items \in SUBSET Memories
  PROVE  IsFiniteSet(items) /\ Cardinality(items) \in Nat
  BY ForegroundConstants, FS_Subset, FS_CardinalityType

(***************************************************************************)
(* The tokens of finitely many receipts, and of some of them.               *)
(***************************************************************************)
LEMMA TokensFinite ==
  ASSUME NEW R, IsFiniteSet(R), NEW n
  PROVE  IsFiniteSet(Tokens(R, n)) /\ Spent(R, n) \in Nat
<1>1. IsFiniteSet(R \X Memories)
  BY FS_Product, ForegroundConstants
<1>2. Tokens(R, n) \in SUBSET (R \X Memories)
  BY DEF Tokens
<1>3. IsFiniteSet(Tokens(R, n))
  BY <1>1, <1>2, FS_Subset
<1> QED BY <1>3, FS_CardinalityType DEF Spent

LEMMA SpentLess ==
  ASSUME NEW R, IsFiniteSet(R), NEW by, NEW n
  PROVE  /\ IsFiniteSet(By(R, by))
         /\ Spent(By(R, by), n) \in Nat /\ Spent(R, n) \in Nat
         /\ Spent(By(R, by), n) <= Spent(R, n)
<1>1. IsFiniteSet(By(R, by))
  BY FS_Subset DEF By
<1>2. Tokens(By(R, by), n) \in SUBSET Tokens(R, n)
  BY DEF Tokens, By
<1> QED BY <1>1, <1>2, TokensFinite, FS_Subset DEF Spent

LEMMA SpentBy ==
  ASSUME NEW n, NEW by
  PROVE  TokensOf(n) = Spent(receipt, n) /\ TokensBy(n, by) = Spent(By(receipt, by), n)
<1>1. Tokens(By(receipt, by), n)
        = {p \in receipt \X Memories : p[1].epoch = n /\ p[1].by = by /\ p[2] \in p[1].items}
  BY DEF Tokens, By
<1>2. Tokens(receipt, n) = {p \in receipt \X Memories : p[1].epoch = n /\ p[2] \in p[1].items}
  BY DEF Tokens
<1> QED BY <1>1, <1>2 DEF Spent, TokensOf, TokensBy

(***************************************************************************)
(* A receipt that is not there yet adds its memories to its epoch and to no *)
(* other.                                                                   *)
(***************************************************************************)
LEMMA TokensAdded ==
  ASSUME NEW R, IsFiniteSet(R), NEW r \in Receipts, r \notin R, NEW n \in Epochs
  PROVE  Spent(R \cup {r}, n) = IF r.epoch = n THEN Spent(R, n) + Cardinality(r.items)
                                ELSE Spent(R, n)
<1> DEFINE New == {p \in {r} \X Memories : p[1].epoch = n /\ p[2] \in p[1].items}
<1>1. IsFiniteSet(Tokens(R, n)) /\ Spent(R, n) \in Nat
  BY TokensFinite
<1>2. Tokens(R \cup {r}, n) = Tokens(R, n) \cup New
  BY DEF Tokens
<1>3. r.items \in SUBSET Memories /\ IsFiniteSet(r.items)
  BY PackSize DEF Receipts
<1>4. CASE r.epoch # n
  <2>1. New = {}
    BY <1>4
  <2>2. Tokens(R \cup {r}, n) = Tokens(R, n)
    BY <1>2, <2>1
  <2> HIDE DEF New
  <2> QED BY <1>4, <2>2 DEF Spent
<1>5. CASE r.epoch = n
  <2> DEFINE f == [m \in r.items |-> <<r, m>>]
  <2>1. f \in Bijection(r.items, New)
    <3>1. f \in [r.items -> New]
      BY <1>3, <1>5
    <3>2. \A a, b \in r.items : f[a] = f[b] => a = b
      OBVIOUS
    <3>3. ASSUME NEW t \in New  PROVE \E m \in r.items : f[m] = t
      <4>1. t = <<r, t[2]>> /\ t[2] \in r.items
        OBVIOUS
      <4> QED BY <4>1
    <3> HIDE DEF f, New
    <3> QED BY <3>1, <3>2, <3>3, Fun_IsBij
  <2>2. IsFiniteSet(New) /\ Cardinality(New) = Cardinality(r.items)
    <3>1. ExistsBijection(r.items, New)
      BY <2>1 DEF ExistsBijection
    <3> HIDE DEF New
    <3> QED BY <1>3, <3>1, FS_Bijection
  <2>3. Tokens(R, n) \cap New = {}
    BY DEF Tokens
  <2> HIDE DEF New, f
  <2>4. Cardinality(Tokens(R, n) \cup New)
          = Cardinality(Tokens(R, n)) + Cardinality(New) - Cardinality(Tokens(R, n) \cap New)
    BY <1>1, <2>2, FS_Union
  <2>5. Cardinality(Tokens(R, n) \cap New) = 0
    BY <2>3, FS_EmptySet
  <2>6. Cardinality(Tokens(R, n)) \in Nat /\ Cardinality(New) \in Nat
    BY <1>1, <2>2, FS_CardinalityType
  <2>7. Cardinality(Tokens(R, n) \cup New) = Cardinality(Tokens(R, n)) + Cardinality(r.items)
    BY <2>2, <2>4, <2>5, <2>6
  <2>8. Cardinality(Tokens(R \cup {r}, n)) = Cardinality(Tokens(R, n) \cup New)
    BY <1>2
  <2> QED BY <1>5, <2>7, <2>8 DEF Spent
<1> QED BY <1>4, <1>5

(***************************************************************************)
(* Receipts that are removed keep their identity and their memories, so the *)
(* tokens of every epoch stay the same.                                     *)
(***************************************************************************)
Pruned(r, k) == [r EXCEPT !.kept = r.kept /\ r.epoch > k]

LEMMA PrunedFields ==
  ASSUME NEW r \in Receipts, NEW k \in Epochs
  PROVE  /\ Pruned(r, k) \in Receipts /\ Pruned(r, k).id = r.id
         /\ Pruned(r, k).event = r.event /\ Pruned(r, k).by = r.by
         /\ Pruned(r, k).epoch = r.epoch /\ Pruned(r, k).items = r.items
         /\ Pruned(r, k).kept => r.kept
  BY DEF Receipts, Pruned, Epochs

LEMMA TokensKept ==
  ASSUME NEW R, IsFiniteSet(R), R \subseteq Receipts, \A r, s \in R : r.id = s.id => r = s,
         NEW k \in Epochs, NEW n \in Epochs
  PROVE  Spent({Pruned(r, k) : r \in R}, n) = Spent(R, n)
<1> DEFINE T == {Pruned(r, k) : r \in R}
           f == [p \in Tokens(R, n) |-> <<Pruned(p[1], k), p[2]>>]
<1>1. \A r \in R : /\ Pruned(r, k).epoch = r.epoch /\ Pruned(r, k).items = r.items
                   /\ Pruned(r, k).id = r.id
  BY PrunedFields
<1>2. f \in Bijection(Tokens(R, n), Tokens(T, n))
  <2>1. f \in [Tokens(R, n) -> Tokens(T, n)]
    BY <1>1 DEF Tokens
  <2>2. \A a, b \in Tokens(R, n) : f[a] = f[b] => a = b
    <3> SUFFICES ASSUME NEW a \in Tokens(R, n), NEW b \in Tokens(R, n), f[a] = f[b]  PROVE a = b
      OBVIOUS
    <3>1. /\ a = <<a[1], a[2]>> /\ a[1] \in R /\ b = <<b[1], b[2]>> /\ b[1] \in R
      BY DEF Tokens
    <3>2. Pruned(a[1], k) = Pruned(b[1], k) /\ a[2] = b[2]
      OBVIOUS
    <3>3. a[1].id = b[1].id
      BY <1>1, <3>1, <3>2
    <3> QED BY <3>1, <3>2, <3>3
  <2>3. ASSUME NEW t \in Tokens(T, n)  PROVE \E p \in Tokens(R, n) : f[p] = t
    <3>1. t = <<t[1], t[2]>> /\ t[1] \in T /\ t[2] \in Memories /\ t[2] \in t[1].items
          /\ t[1].epoch = n
      BY DEF Tokens
    <3>2. PICK r \in R : t[1] = Pruned(r, k)
      BY <3>1
    <3>3. <<r, t[2]>> \in Tokens(R, n)
      BY <1>1, <3>1, <3>2 DEF Tokens
    <3>4. f[<<r, t[2]>>] = <<Pruned(r, k), t[2]>>
      BY <3>3
    <3> QED BY <3>1, <3>2, <3>3, <3>4
  <2> HIDE DEF f, T
  <2> QED BY <2>1, <2>2, <2>3, Fun_IsBij
<1> HIDE DEF f, T
<1>3. ExistsBijection(Tokens(R, n), Tokens(T, n))
  BY <1>2 DEF ExistsBijection
<1>4. IsFiniteSet(Tokens(R, n))
  BY TokensFinite
<1>5. Cardinality(Tokens(T, n)) = Cardinality(Tokens(R, n))
  BY <1>3, <1>4, FS_Bijection
<1> QED BY <1>5 DEF Spent, T

-----------------------------------------------------------------------------
(* A request and the receipts of its evaluator                              *)

LEMMA RequestTypes ==
  ASSUME NEW x \in Requests, NEW n
  PROVE  x.items \in SUBSET Memories /\ Cardinality(x.items) \in Nat /\ Pending(x, n) \in Nat
<1>1. x.items \in SUBSET Memories
  BY DEF Requests
<1> QED BY <1>1, PackSize DEF Pending

LEMMA SettledSound ==
  ASSUME NEW S, IsFiniteSet(S), NEW x \in Requests, NEW y, NEW used,
         WithinLimit(x, S), AtRest(y)
  PROVE  Sound(y, used, S)
<1>1. ~ Ready(y)
  BY DEF AtRest
<1>2. ASSUME NEW n \in Epochs  PROVE Spent(S, n) + Pending(y, n) <= EpochLimit
  <2>1. Spent(S, n) \in Nat /\ Pending(x, n) \in Nat /\ Pending(y, n) = 0
    BY <1>1, TokensFinite, RequestTypes DEF Pending
  <2>2. Spent(S, n) + Pending(x, n) <= EpochLimit
    BY DEF WithinLimit
  <2> QED BY <2>1, <2>2, ForegroundConstants
<1> QED BY <1>1, <1>2 DEF Sound, WithinLimit, NothingRepeated

LEMMA SoundLater ==
  ASSUME NEW x \in Requests, NEW S, NEW used \in Nat, NEW later \in Nat, used <= later,
         Sound(x, used, S)
  PROVE  Sound(x, later, S)
<1>1. x.epoch \in Nat
  BY ForegroundConstants DEF Requests
<1> QED BY <1>1 DEF Sound

LEMMA InvFacts ==
  ASSUME ForegroundInv
  PROVE  /\ lane \in Requests /\ shadow \in Requests /\ receipt \subseteq Receipts
         /\ epoch \in [active: 0..MaxEpochs, used: 0..MaxEpochs]
         /\ epoch.active \in Nat /\ epoch.used \in Nat /\ epoch.active <= epoch.used
         /\ IsFiniteSet(receipt) /\ \A by : IsFiniteSet(By(receipt, by))
         /\ total \in [Epochs -> Nat]
         /\ \A r \in receipt : r \in Receipts /\ r.epoch \in Nat /\ r.epoch \in Epochs
<1>1. /\ lane \in Requests /\ shadow \in Requests /\ receipt \subseteq Receipts
      /\ epoch \in [active: 0..MaxEpochs, used: 0..MaxEpochs] /\ epoch.active <= epoch.used
      /\ total \in [Epochs -> Nat] /\ IsFiniteSet(receipt)
  BY DEF ForegroundInv, ForegroundTypeOK, Rows
<1>2. \A by : IsFiniteSet(By(receipt, by))
  BY <1>1, SpentLess
<1> QED BY <1>1, <1>2, ForegroundConstants DEF Receipts, Epochs

(***************************************************************************)
(* What an evaluator has put into an epoch is within the hard limit and is  *)
(* part of the epoch's total.                                               *)
(***************************************************************************)
LEMMA SpentInEpoch ==
  ASSUME ForegroundInv, NEW by \in Evaluators, NEW n \in Epochs
  PROVE  /\ Spent(By(receipt, by), n) \in Nat /\ total[n] \in Nat
         /\ Spent(By(receipt, by), n) <= EpochLimit
         /\ Spent(By(receipt, by), n) <= total[n]
<1>1. total[n] = Spent(receipt, n)
  BY SpentBy DEF ForegroundInv, TotalsMatch
<1>2. /\ Spent(By(receipt, by), n) \in Nat /\ Spent(receipt, n) \in Nat
      /\ Spent(By(receipt, by), n) <= Spent(receipt, n)
  BY InvFacts, SpentLess
<1>3. PICK x \in Requests : WithinLimit(x, By(receipt, by))
  BY InvFacts DEF ForegroundInv, Sound, Evaluators
<1>4. Pending(x, n) \in Nat /\ Spent(By(receipt, by), n) + Pending(x, n) <= EpochLimit
  BY <1>3, RequestTypes DEF WithinLimit
<1> QED BY <1>1, <1>2, <1>4, ForegroundConstants

(***************************************************************************)
(* A pack chosen for an epoch fits the limit with what both evaluators have *)
(* recorded, so with what its own has; a start's pack has no epoch yet.     *)
(***************************************************************************)
LEMMA SelectSound ==
  ASSUME ForegroundInv, NEW by \in Evaluators, NEW c \in Requests, NEW used,
         Ready(c), c.event \in Events, Cardinality(c.items) <= PackLimit, c.epoch <= used,
         c.epoch = 0 \/ c.items = {} \/ c.items \in PromptPacks(c.epoch)
  PROVE  Sound(c, used, By(receipt, by))
<1>1. ASSUME NEW n \in Epochs
      PROVE  Spent(By(receipt, by), n) + Pending(c, n) <= EpochLimit
  <2>1. /\ Spent(By(receipt, by), n) \in Nat /\ total[n] \in Nat
        /\ Spent(By(receipt, by), n) <= EpochLimit /\ Spent(By(receipt, by), n) <= total[n]
    BY SpentInEpoch
  <2>2. n # 0 /\ Cardinality(c.items) \in Nat /\ Cardinality({}) = 0
    BY RequestTypes, ForegroundConstants DEF Epochs
  <2>3. CASE c.epoch = n /\ c.items # {}
    <3>1. total[n] + Cardinality(c.items) <= EpochLimit
      BY <2>2, <2>3 DEF PromptPacks
    <3> QED BY <2>1, <2>2, <2>3, <3>1, ForegroundConstants DEF Pending
  <2>4. CASE c.epoch # n \/ c.items = {}
    <3>1. Pending(c, n) = 0
      BY <2>2, <2>4 DEF Pending
    <3> QED BY <2>1, <3>1
  <2> QED BY <2>3, <2>4
<1>2. ASSUME NEW r \in By(receipt, by), r.kept, r.epoch = c.epoch
      PROVE  r.items \cap c.items = {}
  <2>1. r \in receipt /\ r.epoch # 0
    BY InvFacts DEF By, Epochs
  <2>2. CASE c.items = {}
    BY <2>2
  <2>3. CASE c.items \in PromptPacks(c.epoch)
    BY <1>2, <2>1, <2>3 DEF PromptPacks, Seen
  <2> QED BY <1>2, <2>1, <2>2, <2>3
<1> QED BY <1>1, <1>2 DEF Sound, WithinLimit, NothingRepeated

(***************************************************************************)
(* A step without a receipt.                                                *)
(***************************************************************************)
LEMMA Unrecorded ==
  ASSUME ForegroundInv, ForegroundTypeOK', UNCHANGED <<total, receipt>>,
         \A e \in Events : reservation'[e] = "completed" <=> reservation[e] = "completed",
         epoch'.active <= epoch'.used, epoch.used <= epoch'.used,
         UNCHANGED lane \/ Sound(lane', epoch'.used, By(receipt, "foreground")),
         UNCHANGED shadow \/ Sound(shadow', epoch'.used, By(receipt, "shadow")),
         UNCHANGED shadow \/ ShadowLoaded'
  PROVE  ForegroundInv'
<1>1. epoch.used \in Nat /\ epoch'.used \in Nat
  BY ForegroundConstants DEF ForegroundInv, ForegroundTypeOK
<1>2. TotalsMatch' /\ OncePerEvaluator' /\ ByForeground'
  BY DEF ForegroundInv, TotalsMatch, TokensOf, OncePerEvaluator, ByForeground
<1>3. Rows(receipt', epoch'.used)
  <2>1. \A r \in receipt : r.epoch \in Nat /\ r.epoch <= epoch.used
    BY InvFacts DEF ForegroundInv, Rows
  <2>2. \A r \in receipt : r.epoch <= epoch'.used
    BY <1>1, <2>1
  <2> QED BY <2>2 DEF ForegroundInv, Rows
<1>4. /\ Sound(lane, epoch'.used, By(receipt, "foreground"))
      /\ Sound(shadow, epoch'.used, By(receipt, "shadow"))
  BY <1>1, InvFacts, SoundLater DEF ForegroundInv
<1>5. /\ Sound(lane', epoch'.used, By(receipt', "foreground"))
      /\ Sound(shadow', epoch'.used, By(receipt', "shadow"))
  BY <1>4
<1>6. ShadowLoaded'
  BY DEF ForegroundInv, ShadowLoaded
<1> QED BY <1>2, <1>3, <1>5, <1>6 DEF ForegroundInv

(***************************************************************************)
(* A receipt of a selected pack, and the total of its epoch, in one         *)
(* transaction: the evaluator stays within the limit and has repeated       *)
(* nothing, and nothing changes for the other one.                          *)
(***************************************************************************)
LEMMA RecordSound ==
  ASSUME NEW S, IsFiniteSet(S), NEW x \in Requests, NEW used \in Nat, NEW later,
         Sound(x, used, S), Ready(x), \A s \in S : s.epoch \in Nat /\ s.epoch <= used,
         NEW r \in Receipts, r \notin S, r.items = x.items,
         r.epoch = x.epoch \/ (used < r.epoch /\ Cardinality(x.items) <= EpochLimit),
         NEW y \in Requests, AtRest(y)
  PROVE  /\ Sound(y, later, S \cup {r})
         /\ \A s \in S : s.kept /\ s.epoch = r.epoch => s.items \cap r.items = {}
<1>1. r.epoch \in Epochs /\ r.epoch \in Nat /\ Cardinality(x.items) \in Nat
  BY RequestTypes, ForegroundConstants DEF Receipts, Epochs
<1>2. ASSUME NEW n \in Epochs  PROVE Spent(S \cup {r}, n) + Pending(y, n) <= EpochLimit
  <2>1. /\ Pending(y, n) = 0 /\ Spent(S, n) \in Nat /\ Pending(x, n) \in Nat
        /\ Spent(S, n) + Pending(x, n) <= EpochLimit
    BY TokensFinite, RequestTypes DEF Pending, AtRest, Sound, WithinLimit
  <2>2. Spent(S \cup {r}, n) = IF r.epoch = n THEN Spent(S, n) + Cardinality(r.items)
                               ELSE Spent(S, n)
    BY TokensAdded
  <2>3. CASE r.epoch # n
    BY <2>1, <2>2, <2>3, ForegroundConstants
  <2>4. CASE r.epoch = n /\ r.epoch = x.epoch
    <3>1. Pending(x, n) = Cardinality(r.items)
      BY <2>4 DEF Pending
    <3> QED BY <2>1, <2>2, <2>4, <3>1, ForegroundConstants
  <2>5. CASE r.epoch = n /\ used < r.epoch /\ Cardinality(x.items) <= EpochLimit
    <3>1. Tokens(S, n) = {}
      BY <1>1, <2>5 DEF Tokens
    <3>2. Spent(S, n) = 0
      BY <3>1, ForegroundConstants DEF Spent
    <3> QED BY <1>1, <2>1, <2>2, <2>5, <3>2, ForegroundConstants
  <2> QED BY <2>3, <2>4, <2>5
<1>3. Sound(y, later, S \cup {r})
  BY <1>2 DEF Sound, WithinLimit, NothingRepeated, AtRest
<1>4. \A s \in S : s.kept /\ s.epoch = r.epoch => s.items \cap r.items = {}
  BY <1>1 DEF Sound, NothingRepeated
<1> QED BY <1>3, <1>4

LEMMA PackRecorded ==
  ASSUME ForegroundInv, NEW by \in Evaluators, NEW x \in Requests, Ready(x),
         Sound(x, epoch.used, By(receipt, by)),
         NEW n \in Epochs, n = x.epoch \/ epoch.used < n,
         ReceiptAdded(x.event, by, n, x.items), total' = TotalAfter(n, x.items),
         epoch'.used \in Nat, epoch.used <= epoch'.used, n <= epoch'.used
  PROVE  /\ receipt' \subseteq Receipts /\ total' \in [Epochs -> Nat]
         /\ TotalsMatch' /\ OncePerEvaluator' /\ Rows(receipt', epoch'.used)
         /\ \A y \in Requests : AtRest(y) => Sound(y, epoch'.used, By(receipt', by))
         /\ \A o \in Evaluators : o # by => By(receipt', o) = By(receipt, o)
         /\ \E r \in Receipts : /\ receipt' = receipt \cup {r}
                                /\ r.by = by /\ r.event = x.event
<1>1. PICK id \in Identities :
        Unused(id) /\ receipt' = receipt \cup {NewReceipt(id, x.event, by, n, x.items)}
  BY DEF ReceiptAdded
<1> DEFINE r == NewReceipt(id, x.event, by, n, x.items)
<1>2. /\ r \in Receipts /\ r.id = id /\ r.event = x.event /\ r.by = by /\ r.epoch = n
      /\ r.items = x.items /\ n \in Nat
  <2>1. x.event \in Events /\ x.items \in SUBSET Memories
    BY RequestTypes DEF Sound, AtRest
  <2> QED BY <2>1, ForegroundConstants DEF NewReceipt, Receipts, Epochs
<1>3. receipt' = receipt \cup {r}
  BY <1>1
<1> HIDE DEF r
<1>4. \A s \in receipt : s.id # id
  <2>1. id \in Nat
    BY ForegroundConstants DEF Identities
  <2>2. id \notin 1..(id - 1)
    BY <2>1
  <2> QED BY <1>1, <2>2 DEF Unused
<1>5. r \notin receipt /\ r \notin By(receipt, by)
  BY <1>2, <1>4 DEF By
<1>6. /\ IsFiniteSet(receipt) /\ IsFiniteSet(By(receipt, by)) /\ receipt \subseteq Receipts
      /\ epoch.used \in Nat /\ \A s \in receipt : s.epoch \in Nat /\ s.epoch <= epoch.used
      /\ total \in [Epochs -> Nat]
  BY InvFacts DEF ForegroundInv, Rows
<1>7. Cardinality(x.items) <= EpochLimit /\ Cardinality(x.items) \in Nat
  <2>1. Cardinality(x.items) <= PackLimit /\ Cardinality(x.items) \in Nat
    BY RequestTypes DEF Sound
  <2> QED BY <2>1, ForegroundConstants
<1>8. By(receipt', by) = By(receipt, by) \cup {r}
  BY <1>2, <1>3 DEF By
<1>9. \A y \in Requests : AtRest(y) =>
        /\ Sound(y, epoch'.used, By(receipt, by) \cup {r})
        /\ \A s \in By(receipt, by) : s.kept /\ s.epoch = r.epoch => s.items \cap r.items = {}
  <2>1. \A s \in By(receipt, by) : s.epoch \in Nat /\ s.epoch <= epoch.used
    BY <1>6 DEF By
  <2>2. r.epoch = x.epoch \/ (epoch.used < r.epoch /\ Cardinality(x.items) <= EpochLimit)
    BY <1>2, <1>7
  <2> QED BY <1>2, <1>5, <1>6, <2>1, <2>2, RecordSound
<1>10. \A s \in By(receipt, by) : s.kept /\ s.epoch = r.epoch => s.items \cap r.items = {}
  <2>1. AtRest(Free)
    BY ForegroundConstants DEF AtRest, Ready
  <2> QED BY <1>9, <2>1, ForegroundConstants
<1>11. OncePerEvaluator'
  BY <1>2, <1>3, <1>10 DEF ForegroundInv, OncePerEvaluator, By
<1>12. Rows(receipt', epoch'.used)
  <2>1. IsFiniteSet(receipt') /\ receipt' \subseteq Receipts
    BY <1>2, <1>3, <1>6, FS_AddElement
  <2>2. \A s, t \in receipt' : s.id = t.id => s = t
    BY <1>2, <1>3, <1>4 DEF ForegroundInv, Rows
  <2>3. \A s \in receipt' : s.epoch <= epoch'.used
    BY <1>2, <1>3, <1>6
  <2> QED BY <2>1, <2>2, <2>3 DEF Rows
<1>13. total' \in [Epochs -> Nat] /\ \A m \in Epochs :
         total'[m] = IF m = n THEN total[m] + Cardinality(x.items) ELSE total[m]
  BY <1>6, <1>7 DEF TotalAfter
<1>14. TotalsMatch'
  <2> SUFFICES ASSUME NEW m \in Epochs  PROVE total'[m] = TokensOf(m)'
    BY DEF TotalsMatch
  <2>1. TokensOf(m)' = Spent(receipt', m)
    BY DEF TokensOf, Spent, Tokens
  <2>2. Spent(receipt \cup {r}, m) = IF r.epoch = m THEN Spent(receipt, m) + Cardinality(r.items)
                                     ELSE Spent(receipt, m)
    BY <1>2, <1>5, <1>6, TokensAdded
  <2>3. total[m] = Spent(receipt, m)
    BY SpentBy DEF ForegroundInv, TotalsMatch
  <2> QED BY <1>2, <1>3, <1>13, <2>1, <2>2, <2>3
<1>15. \A o \in Evaluators : o # by => By(receipt', o) = By(receipt, o)
  BY <1>2, <1>3 DEF By
<1> QED BY <1>2, <1>3, <1>8, <1>9, <1>11, <1>12, <1>13, <1>14, <1>15 DEF Rows

-----------------------------------------------------------------------------
(* The hook and the lane                                                    *)

Outcomes == {"none", "captured", "asked", "delivered", "undelivered"}

(***************************************************************************)
(* The lane moves on without a receipt and without a pack.                  *)
(***************************************************************************)
LEMMA LaneMoves ==
  ASSUME ForegroundInv, told' \in [Events -> Outcomes],
         reservation' \in [Events -> {"absent", "processing", "completed", "retrying"}],
         \A e \in Events : reservation'[e] = "completed" <=> reservation[e] = "completed",
         lane' \in Requests, AtRest(lane'),
         UNCHANGED <<evaluation, epoch, total, receipt, shadow>>
  PROVE  ForegroundInv'
<1>1. ForegroundTypeOK'
  BY DEF ForegroundInv, ForegroundTypeOK, Outcomes
<1>2. WithinLimit(lane, By(receipt, "foreground"))
  BY DEF ForegroundInv, Sound
<1>3. Sound(lane', epoch'.used, By(receipt, "foreground"))
  BY <1>2, InvFacts, SettledSound
<1>4. epoch'.active <= epoch'.used /\ epoch.used <= epoch'.used
  BY InvFacts
<1> QED BY <1>1, <1>3, <1>4, Unrecorded

LEMMA AnswerType ==
  ASSUME ForegroundTypeOK, NEW e, NEW o \in Outcomes
  PROVE  Answer(e, o) \in [Events -> Outcomes]
  BY DEF ForegroundTypeOK, Answer, Outcomes

LEMMA FreeSettled == Free \in Requests /\ AtRest(Free)
  BY ForegroundConstants DEF AtRest, Ready

LEMMA HookSteps ==
  ASSUME ForegroundInv, NEW e \in Events, Capture(e) \/ Admit(e) \/ Refuse(e)
  PROVE  ForegroundInv'
<1>1. UNCHANGED <<reservation, evaluation, epoch, total, receipt, shadow>>
  BY DEF Capture, Admit, Refuse
<1>2. told' \in [Events -> Outcomes]
  BY DEF Capture, Admit, Refuse, ForegroundInv, ForegroundTypeOK, Outcomes
<1>3. reservation' \in [Events -> {"absent", "processing", "completed", "retrying"}]
  BY <1>1 DEF ForegroundInv, ForegroundTypeOK
<1>4. CASE UNCHANGED lane
  <2>1. ForegroundTypeOK'
    BY <1>1, <1>2, <1>3, <1>4 DEF ForegroundInv, ForegroundTypeOK, Outcomes
  <2>2. epoch'.active <= epoch'.used /\ epoch.used <= epoch'.used
    BY <1>1, InvFacts
  <2> QED BY <1>1, <1>4, <2>1, <2>2, Unrecorded
<1>5. CASE Admit(e)
  <2>1. lane' = [Free EXCEPT !.pc = "admitted", !.event = e]
    BY <1>5 DEF Admit
  <2>2. lane' \in Requests /\ AtRest(lane')
    BY <2>1, ForegroundConstants DEF Free, Requests, AtRest, Ready
  <2> QED BY <1>1, <1>2, <1>3, <2>2, LaneMoves
<1> QED BY <1>4, <1>5 DEF Capture, Refuse

LEMMA ReserveStep ==
  ASSUME ForegroundInv, Reserve
  PROVE  ForegroundInv'
<1>1. /\ lane.pc = "admitted" /\ lane.event \in Events /\ lane \in Requests
      /\ lane.epoch = 0 /\ lane.items = {}
      /\ UNCHANGED <<evaluation, epoch, total, receipt, shadow>>
  BY InvFacts DEF Reserve, ForegroundInv, Sound, AtRest, Ready
<1>2. CASE Reservable(lane.event)
  <2>1. /\ reservation' = [reservation EXCEPT ![lane.event] = "processing"]
        /\ reservation[lane.event] = "absent"
        /\ lane' = [lane EXCEPT !.pc = "reserved"] /\ UNCHANGED told
    BY <1>2 DEF Reserve, Reservable
  <2>2. lane' \in Requests /\ AtRest(lane')
    BY <1>1, <2>1 DEF Requests, AtRest, Ready
  <2>3. told' \in [Events -> Outcomes]
        /\ reservation' \in [Events -> {"absent", "processing", "completed", "retrying"}]
        /\ \A e \in Events : reservation'[e] = "completed" <=> reservation[e] = "completed"
    BY <1>1, <2>1 DEF ForegroundInv, ForegroundTypeOK, Outcomes
  <2> QED BY <1>1, <2>2, <2>3, LaneMoves
<1>3. CASE ~ Reservable(lane.event)
  <2>1. told' = Answer(lane.event, "delivered") /\ lane' = Free /\ UNCHANGED reservation
    BY <1>3 DEF Reserve
  <2>2. told' \in [Events -> Outcomes]
    BY <2>1, AnswerType DEF ForegroundInv, Outcomes
  <2> QED BY <1>1, <2>1, <2>2, FreeSettled, LaneMoves DEF ForegroundInv, ForegroundTypeOK
<1> QED BY <1>2, <1>3

LEMMA LaneEnds ==
  ASSUME ForegroundInv, Respond \/ Abort \/ ForegroundExits
  PROVE  ForegroundInv'
<1>1. lane' = Free /\ UNCHANGED <<evaluation, epoch, total, receipt, shadow>>
  BY DEF Respond, Abort, ForegroundExits
<1>2. told' \in [Events -> Outcomes]
  <2>1. \E o \in Outcomes : told' = Answer(lane.event, o)
    BY DEF Respond, Abort, ForegroundExits, Outcomes
  <2> QED BY <2>1, AnswerType DEF ForegroundInv
<1>3. /\ reservation' \in [Events -> {"absent", "processing", "completed", "retrying"}]
      /\ \A e \in Events : reservation'[e] = "completed" <=> reservation[e] = "completed"
  BY DEF Respond, Abort, ForegroundExits, ForegroundInv, ForegroundTypeOK
<1> QED BY <1>1, <1>2, <1>3, FreeSettled, LaneMoves

(***************************************************************************)
(* A pack for a prompt is not larger than the limit of packs.               *)
(***************************************************************************)
LEMMA PackFits ==
  ASSUME NEW n, NEW items \in PromptPacks(n)
  PROVE  items \in SUBSET Memories /\ Cardinality(items) <= PackLimit
  BY DEF PromptPacks

(***************************************************************************)
(* The epoch a request loads: the active one, or a new one.                 *)
(***************************************************************************)
LEMMA EpochLoads ==
  ASSUME ForegroundInv, CanLoadEpoch, epoch' = LoadedEpoch
  PROVE  /\ epoch' \in [active: 0..MaxEpochs, used: 0..MaxEpochs]
         /\ LoadedEpoch.active \in Epochs /\ LoadedEpoch.active <= epoch'.used
         /\ epoch'.active = LoadedEpoch.active
         /\ epoch'.active <= epoch'.used /\ epoch.used <= epoch'.used
<1>1. /\ epoch \in [active: 0..MaxEpochs, used: 0..MaxEpochs] /\ epoch.active <= epoch.used
      /\ (epoch.active # 0 \/ epoch.used < MaxEpochs) /\ MaxEpochs \in Nat
  BY InvFacts, ForegroundConstants DEF CanLoadEpoch
<1>2. CASE epoch.active = 0
  <2>1. LoadedEpoch = [active |-> epoch.used + 1, used |-> epoch.used + 1]
    BY <1>2 DEF LoadedEpoch, OpenEpoch
  <2>2. epoch.used + 1 \in 1..MaxEpochs
    BY <1>1, <1>2
  <2> QED BY <1>1, <2>1, <2>2 DEF Epochs
<1>3. CASE epoch.active # 0
  BY <1>1, <1>3 DEF LoadedEpoch, Epochs
<1> QED BY <1>2, <1>3

LEMMA EpochOpens ==
  ASSUME ForegroundInv, epoch.used < MaxEpochs, epoch' = OpenEpoch
  PROVE  /\ epoch' \in [active: 0..MaxEpochs, used: 0..MaxEpochs]
         /\ epoch.used + 1 \in Epochs /\ epoch.used < epoch.used + 1
         /\ epoch'.used = epoch.used + 1 /\ epoch'.active = epoch'.used
         /\ epoch'.used \in Nat /\ epoch.used <= epoch'.used
<1>1. epoch.used \in Nat /\ MaxEpochs \in Nat
  BY InvFacts, ForegroundConstants
<1> QED BY <1>1 DEF OpenEpoch, Epochs

(***************************************************************************)
(* A request x of one evaluator that has no pack yet chooses one: for a     *)
(* start without an epoch, or none; for a prompt for the epoch it loads.    *)
(***************************************************************************)
Choice(x, ready, y) ==
  \/ \E items \in StartPacks :
       y = [x EXCEPT !.pc = ready, !.items = items] /\ UNCHANGED epoch
  \/ /\ CanLoadEpoch /\ epoch' = LoadedEpoch
     /\ y = [x EXCEPT !.pc = ready, !.epoch = LoadedEpoch.active]
  \/ /\ CanLoadEpoch /\ epoch' = LoadedEpoch
     /\ \E items \in PromptPacks(LoadedEpoch.active) :
          y = [x EXCEPT !.pc = ready, !.epoch = LoadedEpoch.active, !.items = items]

LEMMA Chooses ==
  ASSUME ForegroundInv, NEW by \in Evaluators, NEW x \in Requests,
         AtRest(x), x.pc \notin {"free", "committed"},
         NEW ready \in {"selected", "starting"}, NEW y, Choice(x, ready, y)
  PROVE  /\ y \in Requests /\ Sound(y, epoch'.used, By(receipt, by))
         /\ epoch' \in [active: 0..MaxEpochs, used: 0..MaxEpochs]
         /\ epoch'.active <= epoch'.used /\ epoch.used <= epoch'.used
<1> USE ForegroundConstants
<1>1. x.event \in Events /\ x.epoch = 0 /\ x.items = {}
  BY DEF AtRest
<1>2. CASE \E items \in StartPacks :
             y = [x EXCEPT !.pc = ready, !.items = items] /\ UNCHANGED epoch
  <2>1. PICK items \in StartPacks : y = [x EXCEPT !.pc = ready, !.items = items] /\ UNCHANGED epoch
    BY <1>2
  <2>2. items \in SUBSET Memories /\ Cardinality(items) <= PackLimit
    BY DEF StartPacks
  <2>3. /\ y \in Requests /\ Ready(y) /\ y.event \in Events /\ y.epoch = 0 /\ y.items = items
    BY <1>1, <2>1, <2>2 DEF Requests, Ready
  <2>4. /\ epoch' \in [active: 0..MaxEpochs, used: 0..MaxEpochs] /\ epoch'.active <= epoch'.used
        /\ epoch.used <= epoch'.used /\ y.epoch <= epoch'.used
    BY <2>1, <2>3, InvFacts
  <2> QED BY <2>2, <2>3, <2>4, SelectSound
<1>3. CASE /\ CanLoadEpoch /\ epoch' = LoadedEpoch
           /\ y = [x EXCEPT !.pc = ready, !.epoch = LoadedEpoch.active]
  <2>1. /\ epoch' \in [active: 0..MaxEpochs, used: 0..MaxEpochs]
        /\ LoadedEpoch.active \in Epochs /\ LoadedEpoch.active <= epoch'.used
        /\ epoch'.active <= epoch'.used /\ epoch.used <= epoch'.used
    BY <1>3, EpochLoads
  <2>2. PICK n \in Epochs : n = LoadedEpoch.active
    BY <2>1
  <2>3. n \in 0..MaxEpochs /\ n <= epoch'.used
    BY <2>1, <2>2 DEF Epochs
  <2>4. /\ y \in Requests /\ Ready(y) /\ y.event \in Events /\ y.epoch = n /\ y.items = {}
    BY <1>1, <1>3, <2>2, <2>3 DEF Requests, Ready
  <2>5. Cardinality(y.items) <= PackLimit
    BY <2>4
  <2> QED BY <2>1, <2>3, <2>4, <2>5, SelectSound
<1>4. CASE /\ CanLoadEpoch /\ epoch' = LoadedEpoch
           /\ \E items \in PromptPacks(LoadedEpoch.active) :
                y = [x EXCEPT !.pc = ready, !.epoch = LoadedEpoch.active, !.items = items]
  <2>1. /\ epoch' \in [active: 0..MaxEpochs, used: 0..MaxEpochs]
        /\ LoadedEpoch.active \in Epochs /\ LoadedEpoch.active <= epoch'.used
        /\ epoch'.active <= epoch'.used /\ epoch.used <= epoch'.used
    BY <1>4, EpochLoads
  <2>2. PICK n \in Epochs : n = LoadedEpoch.active
    BY <2>1
  <2>3. PICK items \in PromptPacks(n) : y = [x EXCEPT !.pc = ready, !.epoch = n, !.items = items]
    BY <1>4, <2>2
  <2>4. items \in SUBSET Memories /\ Cardinality(items) <= PackLimit
    BY PackFits
  <2>5. n \in 0..MaxEpochs /\ n <= epoch'.used
    BY <2>1, <2>2 DEF Epochs
  <2>6. /\ y \in Requests /\ Ready(y) /\ y.event \in Events /\ y.epoch = n /\ y.items = items
    BY <1>1, <2>3, <2>4, <2>5 DEF Requests, Ready
  <2> QED BY <2>1, <2>3, <2>4, <2>5, <2>6, SelectSound
<1> QED BY <1>2, <1>3, <1>4 DEF Choice

LEMMA SelectSteps ==
  ASSUME ForegroundInv, SelectStart \/ SelectPrompt
  PROVE  ForegroundInv'
<1>1. /\ lane \in Requests /\ lane.pc = "reserved" /\ AtRest(lane)
      /\ UNCHANGED <<told, reservation, evaluation, total, receipt, shadow>>
  BY InvFacts DEF SelectStart, SelectPrompt, ForegroundInv, Sound, Ready
<1>2. Choice(lane, "selected", lane')
  BY DEF SelectStart, SelectPrompt, Choice
<1>3. /\ lane' \in Requests /\ Sound(lane', epoch'.used, By(receipt, "foreground"))
      /\ epoch' \in [active: 0..MaxEpochs, used: 0..MaxEpochs]
      /\ epoch'.active <= epoch'.used /\ epoch.used <= epoch'.used
  <2>1. lane.pc \notin {"free", "committed"} /\ "foreground" \in Evaluators
    BY <1>1 DEF Evaluators
  <2> QED BY <1>1, <1>2, <2>1, Chooses
<1>4. ForegroundTypeOK'
  BY <1>1, <1>3 DEF ForegroundInv, ForegroundTypeOK
<1> QED BY <1>1, <1>3, <1>4, Unrecorded

(***************************************************************************)
(* The lane records its pack in the epoch it was selected for, or a start   *)
(* records it in an epoch it opens; the event is completed.                 *)
(***************************************************************************)
LEMMA RecordsInOrder ==
  ASSUME ForegroundInv, NEW by \in Evaluators, NEW x \in Requests, Ready(x),
         Sound(x, epoch.used, By(receipt, by)),
         IF x.epoch = 0 THEN RecordStart(x.event, by, x.items)
         ELSE RecordInEpoch(x.event, by, x.epoch, x.items)
  PROVE  /\ receipt' \subseteq Receipts /\ total' \in [Epochs -> Nat]
         /\ epoch' \in [active: 0..MaxEpochs, used: 0..MaxEpochs]
         /\ epoch'.active <= epoch'.used /\ epoch.used <= epoch'.used /\ epoch'.used \in Nat
         /\ TotalsMatch' /\ OncePerEvaluator' /\ Rows(receipt', epoch'.used)
         /\ \A y \in Requests : AtRest(y) => Sound(y, epoch'.used, By(receipt', by))
         /\ \A o \in Evaluators : o # by => By(receipt', o) = By(receipt, o)
         /\ \E r \in Receipts : /\ receipt' = receipt \cup {r}
                                /\ r.by = by /\ r.event = x.event
<1>1. CASE x.epoch = 0
  <2>1. /\ epoch.used < MaxEpochs /\ epoch' = OpenEpoch
        /\ total' = TotalAfter(epoch.used + 1, x.items)
        /\ ReceiptAdded(x.event, by, epoch.used + 1, x.items)
    BY <1>1 DEF RecordStart
  <2>2. /\ epoch' \in [active: 0..MaxEpochs, used: 0..MaxEpochs]
        /\ epoch.used + 1 \in Epochs /\ epoch.used < epoch.used + 1
        /\ epoch'.used = epoch.used + 1 /\ epoch'.active = epoch'.used
        /\ epoch'.used \in Nat /\ epoch.used <= epoch'.used
    BY <2>1, EpochOpens
  <2>3. PICK n \in Epochs : n = epoch.used + 1
    BY <2>2
  <2>4. n <= epoch'.used /\ epoch'.active <= epoch'.used /\ epoch.used < n
    BY <2>2, <2>3
  <2> QED BY <2>1, <2>2, <2>3, <2>4, PackRecorded
<1>2. CASE x.epoch # 0
  <2>1. /\ total' = TotalAfter(x.epoch, x.items) /\ UNCHANGED epoch
        /\ ReceiptAdded(x.event, by, x.epoch, x.items)
    BY <1>2 DEF RecordInEpoch
  <2>2. PICK n \in Epochs : n = x.epoch
    BY <1>2, ForegroundConstants DEF Requests, Epochs
  <2>3. /\ epoch' \in [active: 0..MaxEpochs, used: 0..MaxEpochs]
        /\ n <= epoch'.used /\ epoch'.active <= epoch'.used /\ epoch.used <= epoch'.used
        /\ epoch'.used \in Nat
    BY <2>1, <2>2, InvFacts DEF Sound
  <2> QED BY <2>1, <2>2, <2>3, PackRecorded
<1> QED BY <1>1, <1>2

LEMMA CommitStep ==
  ASSUME ForegroundInv, Commit
  PROVE  ForegroundInv'
<1>1. /\ lane.pc = "selected" /\ reservation[lane.event] = "processing"
      /\ reservation' = [reservation EXCEPT ![lane.event] = "completed"]
      /\ lane' = [lane EXCEPT !.pc = "committed"] /\ UNCHANGED <<told, evaluation, shadow>>
      /\ lane \in Requests /\ Ready(lane) /\ lane.event \in Events
      /\ Sound(lane, epoch.used, By(receipt, "foreground"))
      /\ IF lane.epoch = 0 THEN RecordStart(lane.event, "foreground", lane.items)
         ELSE RecordInEpoch(lane.event, "foreground", lane.epoch, lane.items)
  BY InvFacts DEF Commit, ForegroundInv, Sound, AtRest, Ready
<1>2. /\ receipt' \subseteq Receipts /\ total' \in [Epochs -> Nat]
      /\ epoch' \in [active: 0..MaxEpochs, used: 0..MaxEpochs]
      /\ epoch'.active <= epoch'.used /\ epoch.used <= epoch'.used /\ epoch'.used \in Nat
      /\ TotalsMatch' /\ OncePerEvaluator' /\ Rows(receipt', epoch'.used)
      /\ \A y \in Requests : AtRest(y) => Sound(y, epoch'.used, By(receipt', "foreground"))
      /\ By(receipt', "shadow") = By(receipt, "shadow")
      /\ \E r \in Receipts : /\ receipt' = receipt \cup {r}
                             /\ r.by = "foreground" /\ r.event = lane.event
  BY <1>1, RecordsInOrder DEF Evaluators
<1>3. lane' \in Requests /\ AtRest(lane')
  BY <1>1 DEF Requests, AtRest, Ready
<1>4. Sound(shadow', epoch'.used, By(receipt', "shadow"))
  BY <1>1, <1>2, InvFacts, SoundLater DEF ForegroundInv
<1>5. ByForeground'
  <2>1. PICK r \in Receipts : receipt' = receipt \cup {r} /\ r.by = "foreground" /\ r.event = lane.event
    BY <1>2
  <2>2. \A s \in receipt : ~ (s.by = "foreground" /\ s.event = lane.event)
    BY <1>1 DEF ForegroundInv, ByForeground
  <2>3. \A s, t \in receipt' :
          s.by = "foreground" /\ t.by = "foreground" /\ s.event = t.event => s = t
    BY <2>1, <2>2 DEF ForegroundInv, ByForeground
  <2>4. ASSUME NEW e \in Events
        PROVE  reservation'[e] = "completed" <=> \E s \in receipt' : s.by = "foreground" /\ s.event = e
    <3>1. CASE e = lane.event
      BY <1>1, <2>1, <3>1 DEF ForegroundInv, ForegroundTypeOK
    <3>2. CASE e # lane.event
      <4>1. reservation'[e] = reservation[e]
        BY <1>1, <3>2 DEF ForegroundInv, ForegroundTypeOK
      <4>2. (\E s \in receipt' : s.by = "foreground" /\ s.event = e)
              <=> (\E s \in receipt : s.by = "foreground" /\ s.event = e)
        BY <2>1, <3>2
      <4> QED BY <4>1, <4>2 DEF ForegroundInv, ByForeground
    <3> QED BY <3>1, <3>2
  <2> QED BY <2>3, <2>4 DEF ByForeground
<1>6. ForegroundTypeOK' /\ ShadowLoaded'
  BY <1>1, <1>2, <1>3 DEF ForegroundInv, ForegroundTypeOK, ShadowLoaded
<1> QED BY <1>2, <1>3, <1>4, <1>5, <1>6 DEF ForegroundInv

-----------------------------------------------------------------------------
(* The Shadow evaluator                                                     *)

Verdicts == {"absent", "processing", "completed", "skipped", "retrying"}

(***************************************************************************)
(* The Shadow evaluator moves on without a receipt and without a pack: it   *)
(* claims, looks, ends, fails or dies.                                      *)
(***************************************************************************)
LEMMA ShadowMoves ==
  ASSUME ForegroundInv, shadow' \in Requests, AtRest(shadow'), evaluation' \in [Events -> Verdicts],
         UNCHANGED <<told, reservation, epoch, total, receipt, lane>>
  PROVE  ForegroundInv'
<1>1. ForegroundTypeOK'
  BY DEF ForegroundInv, ForegroundTypeOK, Verdicts
<1>2. WithinLimit(shadow, By(receipt, "shadow"))
  BY DEF ForegroundInv, Sound
<1>3. Sound(shadow', epoch'.used, By(receipt, "shadow"))
  BY <1>2, InvFacts, SettledSound
<1>4. epoch'.active <= epoch'.used /\ epoch.used <= epoch'.used
  BY InvFacts
<1>5. ShadowLoaded'
  BY DEF ShadowLoaded, AtRest, Ready
<1> QED BY <1>1, <1>3, <1>4, <1>5, Unrecorded

LEMMA ClaimStep ==
  ASSUME ForegroundInv, NEW e \in Events, ClaimShadow(e)
  PROVE  ForegroundInv'
<1>1. shadow' \in Requests /\ AtRest(shadow')
  BY ForegroundConstants DEF ClaimShadow, Free, Requests, AtRest, Ready
<1>2. evaluation' \in [Events -> Verdicts]
  BY DEF ClaimShadow, ForegroundInv, ForegroundTypeOK, Verdicts
<1> QED BY <1>1, <1>2, ShadowMoves DEF ClaimShadow

LEMMA LookSteps ==
  ASSUME ForegroundInv, CheckDelivery \/ FindEpoch
  PROVE  ForegroundInv'
<1>1. /\ shadow \in Requests /\ shadow.event \in Events /\ shadow.epoch = 0 /\ shadow.items = {}
      /\ UNCHANGED <<told, reservation, epoch, total, receipt, lane>>
  BY InvFacts DEF CheckDelivery, FindEpoch, ForegroundInv, Sound, AtRest, Ready
<1>2. CASE SettleShadow("skipped")
  <2>1. evaluation' \in [Events -> Verdicts] /\ shadow' = Free
    BY <1>2 DEF SettleShadow, ForegroundInv, ForegroundTypeOK, Verdicts
  <2> QED BY <1>1, <2>1, FreeSettled, ShadowMoves
<1>3. CASE /\ \E pc \in {"checked", "start", "prompt"} : shadow' = [shadow EXCEPT !.pc = pc]
           /\ UNCHANGED evaluation
  <2>1. shadow' \in Requests /\ AtRest(shadow')
    BY <1>1, <1>3 DEF Requests, AtRest, Ready
  <2>2. evaluation' \in [Events -> Verdicts]
    BY <1>3 DEF ForegroundInv, ForegroundTypeOK, Verdicts
  <2> QED BY <1>1, <2>1, <2>2, ShadowMoves
<1> QED BY <1>2, <1>3 DEF CheckDelivery, FindEpoch

LEMMA EndSteps ==
  ASSUME ForegroundInv, FinishShadow \/ ShadowFails
  PROVE  ForegroundInv'
<1>1. shadow' = Free /\ UNCHANGED <<told, reservation, epoch, total, receipt, lane>>
  BY DEF FinishShadow, ShadowFails, SettleShadow
<1>2. evaluation' \in [Events -> Verdicts]
  BY DEF FinishShadow, ShadowFails, SettleShadow, ForegroundInv, ForegroundTypeOK, Verdicts
<1> QED BY <1>1, <1>2, FreeSettled, ShadowMoves

LEMMA ShadowSelects ==
  ASSUME ForegroundInv, ShadowSelectStart \/ ShadowSelect
  PROVE  ForegroundInv'
<1>1. /\ shadow \in Requests /\ shadow.pc \in {"start", "prompt"} /\ AtRest(shadow)
      /\ UNCHANGED <<told, reservation, evaluation, total, receipt, lane>>
  BY InvFacts DEF ShadowSelectStart, ShadowSelect, ForegroundInv, Sound, Ready
<1>2. PICK ready \in {"selected", "starting"} : Choice(shadow, ready, shadow')
  <2>1. CASE ShadowSelectStart
    BY <2>1 DEF ShadowSelectStart, Choice
  <2>2. CASE ShadowSelect
    BY <2>2 DEF ShadowSelect, Choice
  <2> QED BY <2>1, <2>2
<1>3. /\ shadow' \in Requests /\ Sound(shadow', epoch'.used, By(receipt, "shadow"))
      /\ epoch' \in [active: 0..MaxEpochs, used: 0..MaxEpochs]
      /\ epoch'.active <= epoch'.used /\ epoch.used <= epoch'.used
  <2>1. shadow.pc \notin {"free", "committed"} /\ "shadow" \in Evaluators
    BY <1>1 DEF Evaluators
  <2> QED BY <1>1, <1>2, <2>1, Chooses
<1>4. ForegroundTypeOK'
  BY <1>1, <1>3 DEF ForegroundInv, ForegroundTypeOK
<1>5. ShadowLoaded'
  <2>1. CASE ShadowSelectStart
    BY <1>1, <2>1 DEF ShadowSelectStart, ShadowLoaded, Requests
  <2>2. CASE ShadowSelect
    <3>1. /\ CanLoadEpoch /\ epoch' = LoadedEpoch
          /\ \E items \in PromptPacks(LoadedEpoch.active) :
               shadow' = [shadow EXCEPT !.pc = "selected", !.epoch = LoadedEpoch.active,
                                        !.items = items]
      BY <2>2 DEF ShadowSelect
    <3>2. LoadedEpoch.active # 0
      BY <3>1, EpochLoads DEF Epochs
    <3> QED BY <1>1, <3>1, <3>2 DEF ShadowLoaded, Requests
  <2> QED BY <2>1, <2>2
<1> QED BY <1>1, <1>3, <1>4, <1>5, Unrecorded

(***************************************************************************)
(* The Shadow evaluator records the start's pack or the prompt's.           *)
(***************************************************************************)
LEMMA ShadowRecords ==
  ASSUME ForegroundInv, ShadowRecordStart \/ ShadowCommit
  PROVE  ForegroundInv'
<1>1. /\ shadow \in Requests /\ Ready(shadow) /\ shadow.event \in Events
      /\ Sound(shadow, epoch.used, By(receipt, "shadow"))
      /\ UNCHANGED <<told, reservation, evaluation, lane>>
  BY InvFacts DEF ShadowRecordStart, ShadowCommit, ForegroundInv, Sound, AtRest, Ready
<1>2. IF shadow.epoch = 0 THEN RecordStart(shadow.event, "shadow", shadow.items)
      ELSE RecordInEpoch(shadow.event, "shadow", shadow.epoch, shadow.items)
  <2>1. CASE ShadowRecordStart
    BY <2>1 DEF ShadowRecordStart
  <2>2. CASE ShadowCommit
    BY <2>2 DEF ShadowCommit, ForegroundInv, ShadowLoaded
  <2> QED BY <2>1, <2>2
<1>3. /\ receipt' \subseteq Receipts /\ total' \in [Epochs -> Nat]
      /\ epoch' \in [active: 0..MaxEpochs, used: 0..MaxEpochs]
      /\ epoch'.active <= epoch'.used /\ epoch.used <= epoch'.used /\ epoch'.used \in Nat
      /\ TotalsMatch' /\ OncePerEvaluator' /\ Rows(receipt', epoch'.used)
      /\ \A y \in Requests : AtRest(y) => Sound(y, epoch'.used, By(receipt', "shadow"))
      /\ By(receipt', "foreground") = By(receipt, "foreground")
      /\ \E r \in Receipts : /\ receipt' = receipt \cup {r}
                             /\ r.by = "shadow" /\ r.event = shadow.event
  BY <1>1, <1>2, RecordsInOrder DEF Evaluators
<1>4. shadow' \in Requests /\ AtRest(shadow')
  BY <1>1, ForegroundConstants
  DEF ShadowRecordStart, ShadowCommit, Free, Requests, AtRest, Ready
<1>5. Sound(lane', epoch'.used, By(receipt', "foreground"))
  BY <1>1, <1>3, InvFacts, SoundLater DEF ForegroundInv
<1>6. ByForeground'
  BY <1>1, <1>3 DEF ForegroundInv, ByForeground
<1>7. ForegroundTypeOK' /\ ShadowLoaded'
  BY <1>1, <1>3, <1>4 DEF ForegroundInv, ForegroundTypeOK, ShadowLoaded, AtRest, Ready
<1> QED BY <1>3, <1>4, <1>5, <1>6, <1>7 DEF ForegroundInv

-----------------------------------------------------------------------------
LEMMA PruneReceiptsStep ==
  ASSUME ForegroundInv, PruneReceipts
  PROVE  ForegroundInv'
<1>1. UNCHANGED <<told, reservation, evaluation, epoch, total, lane, shadow>>
  BY DEF PruneReceipts
<1>2. PICK k \in Epochs : receipt' = {Pruned(r, k) : r \in receipt}
  BY DEF PruneReceipts, Pruned
<1>3. \A r \in receipt : /\ r \in Receipts /\ Pruned(r, k) \in receipt'
                         /\ Pruned(r, k) \in Receipts /\ Pruned(r, k).id = r.id
                         /\ Pruned(r, k).event = r.event /\ Pruned(r, k).by = r.by
                         /\ Pruned(r, k).epoch = r.epoch /\ Pruned(r, k).items = r.items
                         /\ Pruned(r, k).kept => r.kept
  BY <1>2, InvFacts, PrunedFields
<1>4. \A s \in receipt' : \E r \in receipt : s = Pruned(r, k)
  BY <1>2
<1>5. IsFiniteSet(receipt')
  <2> DEFINE f == [r \in receipt |-> Pruned(r, k)]
  <2>1. f \in Surjection(receipt, receipt')
    <3>1. f \in [receipt -> receipt'] /\ \A t \in receipt' : \E s \in receipt : f[s] = t
      BY <1>2
    <3> HIDE DEF f
    <3> QED BY <3>1, Fun_IsSurj
  <2> HIDE DEF f
  <2> QED BY <2>1, InvFacts, FS_Surjection
<1>6. Rows(receipt', epoch'.used)
  BY <1>1, <1>3, <1>4, <1>5 DEF ForegroundInv, Rows
<1>7. ForegroundTypeOK'
  BY <1>1, <1>6 DEF ForegroundInv, ForegroundTypeOK, Rows
<1>8. /\ \A r, s \in receipt : r.id = s.id => r = s
      /\ IsFiniteSet(receipt) /\ receipt \subseteq Receipts
  BY InvFacts DEF ForegroundInv, Rows
<1>9. TotalsMatch'
  <2> SUFFICES ASSUME NEW n \in Epochs  PROVE total'[n] = TokensOf(n)'
    BY DEF TotalsMatch
  <2>1. TokensOf(n)' = Spent(receipt', n)
    BY DEF TokensOf, Spent, Tokens
  <2>2. Spent({Pruned(r, k) : r \in receipt}, n) = Spent(receipt, n)
    BY <1>8, TokensKept
  <2>3. total[n] = Spent(receipt, n)
    BY SpentBy DEF ForegroundInv, TotalsMatch
  <2> QED BY <1>1, <1>2, <2>1, <2>2, <2>3
<1>10. ASSUME NEW by \in Evaluators, NEW x, Sound(x, epoch.used, By(receipt, by))
       PROVE  Sound(x, epoch'.used, By(receipt', by))
  <2>1. By(receipt', by) = {Pruned(r, k) : r \in By(receipt, by)}
    BY <1>2, <1>3 DEF By
  <2>2. /\ \A r, s \in By(receipt, by) : r.id = s.id => r = s
        /\ IsFiniteSet(By(receipt, by)) /\ By(receipt, by) \subseteq Receipts
    BY <1>8, InvFacts DEF By
  <2>3. \A n \in Epochs : Spent(By(receipt', by), n) = Spent(By(receipt, by), n)
    <3> SUFFICES ASSUME NEW n \in Epochs
                 PROVE  Spent(By(receipt', by), n) = Spent(By(receipt, by), n)
      OBVIOUS
    <3>1. Spent({Pruned(r, k) : r \in By(receipt, by)}, n) = Spent(By(receipt, by), n)
      BY <2>2, TokensKept
    <3> QED BY <2>1, <3>1
  <2>4. WithinLimit(x, By(receipt', by))
    BY <1>10, <2>3 DEF Sound, WithinLimit
  <2>5. NothingRepeated(x, By(receipt', by))
    BY <1>3, <1>4, <1>10 DEF Sound, NothingRepeated, By
  <2> QED BY <1>1, <1>10, <2>4, <2>5 DEF Sound
<1>11. /\ Sound(lane', epoch'.used, By(receipt', "foreground"))
       /\ Sound(shadow', epoch'.used, By(receipt', "shadow"))
  BY <1>1, <1>10 DEF ForegroundInv, Evaluators
<1>12. OncePerEvaluator'
  BY <1>3, <1>4 DEF ForegroundInv, OncePerEvaluator
<1>13. ByForeground'
  <2>1. \A s, t \in receipt' :
          s.by = "foreground" /\ t.by = "foreground" /\ s.event = t.event => s = t
    BY <1>3, <1>4 DEF ForegroundInv, ByForeground
  <2>2. \A e \in Events : (\E s \in receipt' : s.by = "foreground" /\ s.event = e)
                            <=> (\E s \in receipt : s.by = "foreground" /\ s.event = e)
    BY <1>3, <1>4
  <2> QED BY <1>1, <2>1, <2>2 DEF ForegroundInv, ByForeground
<1> QED BY <1>1, <1>6, <1>7, <1>9, <1>11, <1>12, <1>13 DEF ForegroundInv, ShadowLoaded

-----------------------------------------------------------------------------
LEMMA ForegroundInitInv == ForegroundInit => ForegroundInv
<1> SUFFICES ASSUME ForegroundInit  PROVE ForegroundInv
  OBVIOUS
<1> USE ForegroundConstants DEF ForegroundInit
<1>1. ForegroundTypeOK
  BY DEF ForegroundTypeOK
<1>2. IsFiniteSet(receipt)
  BY FS_EmptySet
<1>3. Rows(receipt, epoch.used) /\ ByForeground /\ OncePerEvaluator /\ ShadowLoaded
  BY <1>2 DEF Rows, ByForeground, OncePerEvaluator, ShadowLoaded
<1>4. \A n : Spent({}, n) = 0
  <2>1. \A n : Tokens({}, n) = {}
    BY DEF Tokens
  <2> QED BY <2>1 DEF Spent
<1>5. TotalsMatch
  BY <1>4, SpentBy DEF TotalsMatch
<1>6. \A by : By(receipt, by) = {}
  BY DEF By
<1>7. Sound(Free, 0, {})
  <2>1. WithinLimit(Free, {})
    BY <1>4 DEF WithinLimit, Pending, Ready
  <2> QED BY <2>1, FreeSettled DEF Sound, NothingRepeated, AtRest
<1> QED BY <1>1, <1>3, <1>5, <1>6, <1>7 DEF ForegroundInv

LEMMA ForegroundStepInv == ForegroundInv /\ [ForegroundNext]_foregroundVars => ForegroundInv'
<1> SUFFICES ASSUME ForegroundInv, [ForegroundNext]_foregroundVars  PROVE ForegroundInv'
  OBVIOUS
<1>1. CASE UNCHANGED foregroundVars
  BY <1>1 DEF foregroundVars, ForegroundInv, ForegroundTypeOK, TotalsMatch, TokensOf,
     OncePerEvaluator, ByForeground, ShadowLoaded
<1>2. CASE ForegroundNext
  BY <1>2, HookSteps, ReserveStep, SelectSteps, CommitStep, LaneEnds, ClaimStep, LookSteps,
     EndSteps, ShadowSelects, ShadowRecords, PruneReceiptsStep
  DEF ForegroundNext
<1> QED BY <1>1, <1>2

(***************************************************************************)
(* In every behaviour the inductive invariant holds.                        *)
(***************************************************************************)
THEOREM ForegroundInvariant == ForegroundSpec => []ForegroundInv
<1> QED BY ForegroundInitInv, ForegroundStepInv, PTL DEF ForegroundSpec

(***************************************************************************)
(* The foreground and the Shadow evaluator decide on totals that may be     *)
(* old, the Shadow one may observe an event again whose receipt it has      *)
(* recorded, and receipts are removed; still, in every behaviour the total  *)
(* of every context epoch is the tokens of all its receipts, the receipts   *)
(* of one evaluator alone keep the hard limit and, while they are there,    *)
(* repeat no memory, and an event has one receipt of the foreground if its  *)
(* reservation is completed and none otherwise.                             *)
(***************************************************************************)
THEOREM InjectionAccountedAlways == ForegroundSpec => []InjectionAccounted
<1>1. ForegroundInv => InjectionAccounted
  <2> SUFFICES ASSUME ForegroundInv  PROVE InjectionAccounted
    OBVIOUS
  <2>1. TotalsMatch /\ OncePerEvaluator
    BY DEF ForegroundInv
  <2>2. EvaluatorBounded
    BY SpentInEpoch, SpentBy DEF EvaluatorBounded
  <2>3. OneForegroundReceipt
    <3> SUFFICES ASSUME NEW e \in Events
                 PROVE  /\ Cardinality(ForegroundReceipts(e)) <= 1
                        /\ reservation[e] = "completed" <=> ForegroundReceipts(e) # {}
      BY DEF OneForegroundReceipt
    <3>1. \A r, s \in ForegroundReceipts(e) : r = s
      BY DEF ForegroundInv, ByForeground, ForegroundReceipts
    <3>2. reservation[e] = "completed" <=> ForegroundReceipts(e) # {}
      BY DEF ForegroundInv, ByForeground, ForegroundReceipts
    <3>3. ForegroundReceipts(e) = {} \/ \E r : ForegroundReceipts(e) = {r}
      BY <3>1
    <3>4. Cardinality(ForegroundReceipts(e)) <= 1
      <4>1. CASE ForegroundReceipts(e) = {}
        BY <4>1, FS_EmptySet
      <4>2. CASE \E r : ForegroundReceipts(e) = {r}
        <5>1. PICK r : ForegroundReceipts(e) = {r}
          BY <4>2
        <5>2. Cardinality({r}) = 1
          BY FS_Singleton
        <5> QED BY <5>1, <5>2
      <4> QED BY <3>3, <4>1, <4>2
    <3> QED BY <3>2, <3>4
  <2> QED BY <2>1, <2>2, <2>3 DEF InjectionAccounted
<1> QED BY <1>1, ForegroundInvariant, PTL

-----------------------------------------------------------------------------
(***************************************************************************)
(* The types of the index alone, with any number of Worker processes.  A    *)
(* Worker that serves the working set aims at a generation of the working    *)
(* set, not of the catalog.                                                 *)
(***************************************************************************)
SetPcs == {"set_read", "set_loaded", "set_served"}

AimsAtSet(c) == c.pc \in SetPcs => c.target \in 0..MaxWorkingSet

IndexColumns == IndexTyped /\ \A w \in IndexWorkers : AimsAtSet(builder[w])

LEMMA BuilderColumns ==
  ASSUME IndexColumns, NEW w \in IndexWorkers, NEW c \in Builders, AimsAtSet(c),
         builder' = [builder EXCEPT ![w] = c]
  PROVE  /\ builder' \in [IndexWorkers -> Builders]
         /\ \A v \in IndexWorkers : AimsAtSet(builder[v])'
<1>1. /\ builder' \in [IndexWorkers -> Builders] /\ builder'[w] = c
      /\ \A v \in IndexWorkers : v # w => builder'[v] = builder[v]
  BY DEF IndexColumns, IndexTyped
<1> QED BY <1>1 DEF IndexColumns, AimsAtSet

LEMMA IdleColumns ==
  ASSUME IndexColumns, NEW w \in IndexWorkers, builder' = [builder EXCEPT ![w] = BuilderIdle]
  PROVE  /\ builder' \in [IndexWorkers -> Builders]
         /\ \A v \in IndexWorkers : AimsAtSet(builder[v])'
<1>1. AimsAtSet(BuilderIdle)
  BY DEF AimsAtSet, BuilderIdle, SetPcs
<1> QED BY <1>1, IndexConstants, BuilderColumns

LEMMA ColumnFacts ==
  ASSUME IndexColumns, NEW w \in IndexWorkers
  PROVE  /\ builder[w] \in Builders /\ AimsAtSet(builder[w])
         /\ catalog \in Catalogs /\ working \in WorkingSets /\ thread[w] \in Threads
BY DEF IndexColumns, IndexTyped

\* What the step of a Worker is at changes, and nothing else of it.
LEMMA MovesOn ==
  ASSUME IndexColumns, NEW w \in IndexWorkers, NEW pc \in Pcs, pc \in SetPcs => builder[w].pc \in SetPcs,
         builder' = [builder EXCEPT ![w].pc = pc]
  PROVE  /\ builder' \in [IndexWorkers -> Builders]
         /\ \A v \in IndexWorkers : AimsAtSet(builder[v])'
<1> DEFINE c == [builder[w] EXCEPT !.pc = pc]
<1>1. c \in Builders /\ c.pc = pc /\ c.target = builder[w].target
  BY ColumnFacts DEF Builders
<1>2. builder' = [builder EXCEPT ![w] = c]
  BY ColumnFacts DEF Builders, IndexColumns, IndexTyped
<1>3. AimsAtSet(c)
  BY <1>1, ColumnFacts DEF AimsAtSet
<1> HIDE DEF c
<1> QED BY <1>1, <1>2, <1>3, BuilderColumns

LEMMA MovesOnWith ==
  ASSUME IndexColumns, NEW w \in IndexWorkers, NEW pc \in Pcs, pc \in SetPcs => builder[w].pc \in SetPcs,
         NEW s \in Snapshots,
         builder' = [builder EXCEPT ![w].pc = pc, ![w].loaded = s]
  PROVE  /\ builder' \in [IndexWorkers -> Builders]
         /\ \A v \in IndexWorkers : AimsAtSet(builder[v])'
<1> DEFINE c == [builder[w] EXCEPT !.pc = pc, !.loaded = s]
<1>1. c \in Builders /\ c.pc = pc /\ c.target = builder[w].target
  BY ColumnFacts DEF Builders
<1>2. builder' = [builder EXCEPT ![w] = c]
  BY ColumnFacts DEF Builders, IndexColumns, IndexTyped
<1>3. AimsAtSet(c)
  BY <1>1, ColumnFacts DEF AimsAtSet
<1> HIDE DEF c
<1> QED BY <1>1, <1>2, <1>3, BuilderColumns

LEMMA LoadedColumns ==
  ASSUME IndexColumns, Loadable
  PROVE  Loaded \in Snapshots
<1>1. active \in Revisions /\ index[active] \in Indexes
  BY DEF Loadable, IndexColumns, IndexTyped
<1> QED BY <1>1 DEF Loaded, Snapshots, Indexes, IndexColumns, IndexTyped, WorkingSets

LEMMA AtLeastIn ==
  ASSUME NEW S, NEW a \in S, NEW b \in S
  PROVE  AtLeast(a, b) \in S
BY DEF AtLeast

LEMMA IndexRow ==
  ASSUME IndexColumns, NEW r, NEW x, index' = [index EXCEPT ![r] = x],
         r \in Revisions => x \in Indexes
  PROVE  index' \in [Revisions -> Indexes]
BY DEF IndexColumns, IndexTyped

LEMMA AroundTyped ==
  ASSUME IndexColumns, ChangeCatalog \/ ChangeWorkingSet \/ ActivityAges
  PROVE  IndexColumns'
<1>1. CASE ChangeCatalog
  <2>1. catalog.dirty + 1 \in Generations
    BY <1>1, IndexConstants DEF ChangeCatalog, Generations, IndexColumns, IndexTyped, Catalogs
  <2>2. catalog' \in Catalogs
    BY <1>1, <2>1 DEF ChangeCatalog, IndexColumns, IndexTyped, Catalogs
  <2> QED BY <1>1, <2>2 DEF ChangeCatalog, IndexColumns, IndexTyped, ActivityTyped, AimsAtSet
<1>2. CASE ChangeWorkingSet
  <2>1. working.dirty + 1 \in 0..MaxWorkingSet
    BY <1>2, IndexConstants DEF ChangeWorkingSet, IndexColumns, IndexTyped, WorkingSets
  <2>2. working' \in WorkingSets
    BY <1>2, <2>1 DEF ChangeWorkingSet, IndexColumns, IndexTyped, WorkingSets
  <2> QED BY <1>2, <2>2 DEF ChangeWorkingSet, IndexColumns, IndexTyped, ActivityTyped, AimsAtSet
<1>3. CASE ActivityAges
  BY <1>3 DEF ActivityAges, IndexColumns, IndexTyped, ActivityTyped, AimsAtSet
<1> QED BY <1>1, <1>2, <1>3

LEMMA BuildTyped ==
  ASSUME IndexColumns, NEW w \in IndexWorkers,
         \/ Begin(w) \/ RecordActivity(w) \/ ReadCatalog(w) \/ Stage(w)
         \/ \E b \in Batches : PublishBatch(w, b)
         \/ Complete(w) \/ Acknowledge(w)
  PROVE  IndexColumns'
<1> USE IndexConstants
<1>1. CASE Begin(w)
  <2> DEFINE c == [BuilderIdle EXCEPT !.pc = "begun", !.target = catalog.dirty]
  <2>1. c \in Builders /\ c.pc = "begun"
    BY ColumnFacts DEF BuilderIdle, Builders, Pcs, Building, Catalogs
  <2>2. builder' = [builder EXCEPT ![w] = c]
    BY <1>1 DEF Begin
  <2>3. AimsAtSet(c)
    BY <2>1 DEF AimsAtSet, SetPcs
  <2>4. catalog' \in Catalogs
    BY <1>1, ColumnFacts DEF Begin, Catalogs
  <2> HIDE DEF c
  <2> QED BY <1>1, <2>1, <2>2, <2>3, <2>4, BuilderColumns
          DEF Begin, IndexColumns, IndexTyped, ActivityTyped
<1>2. CASE RecordActivity(w)
  <2>1. "recorded" \in Pcs /\ "recorded" \notin SetPcs
    BY DEF Pcs, Building, SetPcs
  <2> QED BY <1>2, <2>1, MovesOn DEF RecordActivity, Step, IndexColumns, IndexTyped, ActivityTyped
<1>3. CASE ReadCatalog(w)
  <2> DEFINE c == [builder[w] EXCEPT !.pc = "read", !.of = catalog.dirty]
  <2>1. c \in Builders /\ c.pc = "read"
    BY ColumnFacts DEF Builders, Pcs, Building, Catalogs
  <2>2. builder' = [builder EXCEPT ![w] = c]
    BY <1>3 DEF ReadCatalog
  <2>3. AimsAtSet(c)
    BY <2>1 DEF AimsAtSet, SetPcs
  <2> HIDE DEF c
  <2> QED BY <1>3, <2>1, <2>2, <2>3, BuilderColumns
          DEF ReadCatalog, IndexColumns, IndexTyped, ActivityTyped
<1>4. CASE Stage(w)
  <2> DEFINE r == CHOOSE x \in Fresh : \A y \in Fresh : x <= y
             x == [state |-> "failed", of |-> builder[w].of, docs |-> {},
                   stored |-> TRUE, pruned |-> FALSE]
             c == [builder[w] EXCEPT !.pc = "staged", !.rev = r]
  <2>1. r \in Fresh
    BY <1>4, LeastNatural DEF Stage, Fresh
  <2>2. /\ builder' = [builder EXCEPT ![w].pc = "staged", ![w].rev = r]
        /\ index' = [index EXCEPT ![r] = x]
        /\ UNCHANGED <<catalog, activity, active, working, thread>>
    BY <1>4, ZenonT(30) DEF Stage
  <2> HIDE DEF r
  <2>3. builder' = [builder EXCEPT ![w] = c]
    BY <2>2
  <2>4. r \in Revisions
    BY <2>1 DEF Fresh
  <2>5. x \in Indexes
    BY ColumnFacts DEF Indexes, Builders
  <2>6. c \in Builders /\ c.pc = "staged"
    BY <2>4, ColumnFacts DEF Builders, Pcs, Building
  <2>7. AimsAtSet(c)
    BY <2>6 DEF AimsAtSet, SetPcs
  <2> HIDE DEF c, x
  <2>8. index' \in [Revisions -> Indexes]
    BY <2>2, <2>5, IndexRow
  <2> QED BY <2>2, <2>3, <2>6, <2>7, <2>8, BuilderColumns DEF IndexColumns, IndexTyped, ActivityTyped
<1>5. ASSUME NEW b \in Batches, PublishBatch(w, b)
      PROVE  IndexColumns'
  <2> DEFINE done == builder[w].done \cup {b}
             pc == IF done = Batches THEN "indexed" ELSE "staged"
             r == builder[w].rev
             x == [index[r] EXCEPT !.docs = index[r].docs \cup {b}]
             c == [builder[w] EXCEPT !.done = done, !.pc = pc]
  <2>1. r \in Revisions => x \in Indexes
    BY DEF Indexes, IndexColumns, IndexTyped
  <2>2. index' = [index EXCEPT ![r] = x]
    BY <1>5 DEF PublishBatch
  <2>3. pc \in Pcs /\ pc \notin SetPcs
    BY DEF Pcs, Building, SetPcs
  <2>4. c \in Builders /\ c.pc = pc
    BY <2>3, ColumnFacts DEF Builders
  <2>5. builder' = [builder EXCEPT ![w] = c]
    BY <1>5 DEF PublishBatch, IndexColumns, IndexTyped
  <2>6. AimsAtSet(c)
    BY <2>3, <2>4 DEF AimsAtSet
  <2> HIDE DEF x, c
  <2>7. index' \in [Revisions -> Indexes]
    BY <2>1, <2>2, IndexRow
  <2> QED BY <1>5, <2>4, <2>5, <2>6, <2>7, BuilderColumns
          DEF PublishBatch, IndexColumns, IndexTyped, ActivityTyped
<1>6. CASE Complete(w)
  <2> DEFINE r == builder[w].rev
             x == [index[r] EXCEPT !.state = "complete"]
             c == [builder[w] EXCEPT !.pc = "completed", !.rev = 0, !.done = {}]
  <2>1. r \in Revisions => x \in Indexes
    BY DEF Indexes, IndexColumns, IndexTyped
  <2>2. index' = [index EXCEPT ![r] = x] /\ builder' = [builder EXCEPT ![w] = c]
    BY <1>6 DEF Complete
  <2>3. c \in Builders /\ c.pc = "completed"
    BY ColumnFacts DEF Builders, Pcs, Building
  <2>4. AimsAtSet(c)
    BY <2>3 DEF AimsAtSet, SetPcs
  <2>5. active' \in Revisions \cup {0}
    BY <1>6, ColumnFacts DEF Complete, Builders
  <2> HIDE DEF x, c
  <2>6. index' \in [Revisions -> Indexes]
    BY <2>1, <2>2, IndexRow
  <2> QED BY <1>6, <2>2, <2>3, <2>4, <2>5, <2>6, BuilderColumns
          DEF Complete, IndexColumns, IndexTyped, ActivityTyped
<1>7. CASE Acknowledge(w)
  <2> DEFINE c == [builder[w] EXCEPT !.pc = "acknowledged", !.of = 0]
  <2>1. c \in Builders /\ c.pc = "acknowledged"
    BY ColumnFacts DEF Builders, Pcs, Building
  <2>2. builder' = [builder EXCEPT ![w] = c]
    BY <1>7 DEF Acknowledge
  <2>3. AimsAtSet(c)
    BY <2>1 DEF AimsAtSet, SetPcs
  <2>4. AtLeast(catalog.published, builder[w].of) \in Generations
    BY ColumnFacts, AtLeastIn DEF Builders, Catalogs
  <2>5. catalog' \in Catalogs
    BY <1>7, <2>4, ColumnFacts DEF Acknowledge, Catalogs
  <2>6. ActivityTyped'
    BY <1>7 DEF Acknowledge, ActivityTyped, IndexColumns, IndexTyped
  <2> HIDE DEF c
  <2> QED BY <1>7, <2>1, <2>2, <2>3, <2>5, <2>6, BuilderColumns
          DEF Acknowledge, IndexColumns, IndexTyped
<1> QED BY <1>1, <1>2, <1>3, <1>4, <1>5, <1>6, <1>7

LEMMA ThreadTyped ==
  ASSUME IndexColumns, NEW w \in IndexWorkers, NEW t \in Threads, thread' = [thread EXCEPT ![w] = t]
  PROVE  thread' \in [IndexWorkers -> Threads]
BY DEF IndexColumns, IndexTyped

LEMMA ServedTyped ==
  ASSUME IndexColumns, NEW w \in IndexWorkers,
         \/ LoadIndex(w) \/ ServeIndex(w) \/ FinishBuild(w) \/ FailBuild(w)
         \/ ReadWorkingSet(w) \/ LoadWorkingSet(w) \/ ServeWorkingSet(w) \/ MarkWorkingSet(w)
         \/ FailUpkeep(w)
  PROVE  IndexColumns'
<1> USE IndexConstants
<1>1. /\ {"loaded", "served", "set_loaded", "set_served"} \subseteq Pcs
      /\ "loaded" \notin SetPcs /\ "served" \notin SetPcs
  BY DEF Pcs, SetPcs
<1>2. CASE LoadIndex(w)
  <2>1. Loaded \in Snapshots
    BY <1>2, LoadedColumns DEF LoadIndex
  <2> QED BY <1>1, <1>2, <2>1, MovesOnWith DEF LoadIndex, IndexColumns, IndexTyped, ActivityTyped
<1>3. CASE LoadWorkingSet(w)
  <2>1. Loaded \in Snapshots /\ builder[w].pc \in SetPcs
    BY <1>3, LoadedColumns DEF LoadWorkingSet, SetPcs
  <2> QED BY <1>1, <1>3, <2>1, MovesOnWith DEF LoadWorkingSet, IndexColumns, IndexTyped, ActivityTyped
<1>4. CASE ServeIndex(w) \/ ServeWorkingSet(w)
  <2>1. PICK pc \in {"served", "set_served"} :
          /\ builder' = [builder EXCEPT ![w].pc = pc, ![w].loaded = NoSnapshot]
          /\ pc \in SetPcs => builder[w].pc \in SetPcs
    BY <1>1, <1>4 DEF ServeIndex, ServeWorkingSet, SetPcs
  <2>2. /\ thread' = [thread EXCEPT ![w].serving = builder[w].loaded]
        /\ UNCHANGED <<catalog, activity, index, active, working>>
    BY <1>4 DEF ServeIndex, ServeWorkingSet
  <2>3. [thread[w] EXCEPT !.serving = builder[w].loaded] \in Threads
    BY ColumnFacts DEF Threads, Builders
  <2>4. thread' \in [IndexWorkers -> Threads]
    BY <2>2, <2>3, ThreadTyped
  <2> QED BY <1>1, <2>1, <2>2, <2>4, MovesOnWith DEF IndexColumns, IndexTyped, ActivityTyped
<1>5. CASE FinishBuild(w)
  <2>1. builder[w].target \in Nat /\ catalog.building \in Generations \cup {-1}
    BY ColumnFacts DEF Builders, Catalogs, NotBuilding
  <2>2. builder[w].target \in Generations
    BY <1>5, <2>1 DEF FinishBuild
  <2>3. AtLeast(catalog.published, PublishedTarget(w)) \in Generations
    BY <2>2, ColumnFacts, AtLeastIn DEF Catalogs, PublishedTarget
  <2>4. catalog' \in Catalogs
    BY <1>5, <2>3, ColumnFacts DEF FinishBuild, Catalogs
  <2> QED BY <1>5, <2>4, IdleColumns DEF FinishBuild, IndexColumns, IndexTyped, ActivityTyped
<1>6. CASE FailBuild(w)
  <2> DEFINE r == builder[w].rev
             x == [index[r] EXCEPT !.stored = FALSE]
  <2>1. index' \in [Revisions -> Indexes]
    <3>1. r \in Revisions => x \in Indexes
      BY DEF Indexes, IndexColumns, IndexTyped
    <3>2. index' = [index EXCEPT ![r] = x] \/ index' = index
      BY <1>6 DEF FailBuild
    <3>3. index' = index => index' \in [Revisions -> Indexes]
      BY DEF IndexColumns, IndexTyped
    <3> HIDE DEF x
    <3> QED BY <3>1, <3>2, <3>3, IndexRow
  <2>2. ActivityTyped'
    BY <1>6 DEF FailBuild, ActivityTyped, IndexColumns, IndexTyped
  <2>3. catalog' \in Catalogs
    BY <1>6, ColumnFacts DEF FailBuild, Catalogs
  <2> QED BY <1>6, <2>1, <2>2, <2>3, IdleColumns DEF FailBuild, IndexColumns, IndexTyped
<1>7. CASE ReadWorkingSet(w)
  <2> DEFINE c == [BuilderIdle EXCEPT !.pc = "set_read", !.target = working.dirty]
  <2>1. c \in Builders /\ AimsAtSet(c)
    BY ColumnFacts DEF BuilderIdle, Builders, Pcs, WorkingSets, AimsAtSet
  <2>2. builder' = [builder EXCEPT ![w] = c]
    BY <1>7 DEF ReadWorkingSet
  <2> HIDE DEF c
  <2> QED BY <1>7, <2>1, <2>2, BuilderColumns DEF ReadWorkingSet, IndexColumns, IndexTyped, ActivityTyped
<1>8. CASE MarkWorkingSet(w)
  <2>1. builder[w].target \in 0..MaxWorkingSet
    BY <1>8, ColumnFacts DEF MarkWorkingSet, AimsAtSet, SetPcs
  <2>2. AtLeast(working.published, builder[w].target) \in 0..MaxWorkingSet
    BY <2>1, ColumnFacts, AtLeastIn DEF WorkingSets
  <2>3. working' \in WorkingSets
    BY <1>8, <2>2, ColumnFacts DEF MarkWorkingSet, WorkingSets
  <2> QED BY <1>8, <2>3, IdleColumns DEF MarkWorkingSet, IndexColumns, IndexTyped, ActivityTyped
<1>9. CASE FailUpkeep(w)
  BY <1>9, IdleColumns DEF FailUpkeep, IndexColumns, IndexTyped, ActivityTyped
<1> QED BY <1>2, <1>3, <1>4, <1>5, <1>6, <1>7, <1>8, <1>9

LEMMA PrunedTyped ==
  ASSUME IndexColumns, NEW w \in IndexWorkers,
         SelectRetired(w) \/ EmptyRetired(w) \/ RemoveRetired(w) \/ MarkPruned(w)
  PROVE  IndexColumns'
<1> USE IndexConstants
<1> DEFINE r == builder[w].rev
<1>1. /\ {"emptied", "removed"} \subseteq Pcs /\ "emptied" \notin SetPcs /\ "removed" \notin SetPcs
  BY DEF Pcs, SetPcs
<1>2. CASE SelectRetired(w)
  <2> DEFINE q == CHOOSE x \in Retired : \A y \in Retired : x <= y
             c == [BuilderIdle EXCEPT !.pc = "selected", !.rev = q]
  <2>1. q \in Retired
    BY <1>2, LeastNatural DEF SelectRetired, Retired
  <2>2. builder' = [builder EXCEPT ![w] = c]
    BY <1>2, ZenonT(30) DEF SelectRetired
  <2> HIDE DEF q
  <2>3. c \in Builders /\ AimsAtSet(c)
    BY <2>1 DEF BuilderIdle, Builders, Pcs, AimsAtSet, SetPcs, Retired
  <2>4. UNCHANGED <<catalog, activity, index, active, working, thread>>
    BY <1>2 DEF SelectRetired
  <2> HIDE DEF c
  <2> QED BY <2>2, <2>3, <2>4, BuilderColumns DEF IndexColumns, IndexTyped, ActivityTyped
<1>3. CASE EmptyRetired(w)
  <2>1. r \in Revisions => [index[r] EXCEPT !.docs = {}] \in Indexes
    BY DEF Indexes, IndexColumns, IndexTyped
  <2>2. index' = [index EXCEPT ![r] = [index[r] EXCEPT !.docs = {}]]
    BY <1>3 DEF EmptyRetired
  <2>3. index' \in [Revisions -> Indexes]
    BY <2>1, <2>2, IndexRow
  <2> QED BY <1>1, <1>3, <2>3, MovesOn DEF EmptyRetired, Step, IndexColumns, IndexTyped, ActivityTyped
<1>4. CASE RemoveRetired(w)
  <2>1. r \in Revisions => [index[r] EXCEPT !.stored = FALSE] \in Indexes
    BY DEF Indexes, IndexColumns, IndexTyped
  <2>2. index' = [index EXCEPT ![r] = [index[r] EXCEPT !.stored = FALSE]]
    BY <1>4 DEF RemoveRetired
  <2>3. index' \in [Revisions -> Indexes]
    BY <2>1, <2>2, IndexRow
  <2> QED BY <1>1, <1>4, <2>3, MovesOn DEF RemoveRetired, Step, IndexColumns, IndexTyped, ActivityTyped
<1>5. CASE MarkPruned(w)
  <2>1. r \in Revisions => [index[r] EXCEPT !.pruned = TRUE] \in Indexes
    BY DEF Indexes, IndexColumns, IndexTyped
  <2>2. index' = [index EXCEPT ![r] = [index[r] EXCEPT !.pruned = TRUE]] \/ index' = index
    BY <1>5 DEF MarkPruned
  <2>3. index' = index => index' \in [Revisions -> Indexes]
    BY DEF IndexColumns, IndexTyped
  <2>4. index' \in [Revisions -> Indexes]
    BY <2>1, <2>2, <2>3, IndexRow
  <2> QED BY <1>5, <2>4, IdleColumns DEF MarkPruned, IndexColumns, IndexTyped, ActivityTyped
<1> QED BY <1>2, <1>3, <1>4, <1>5

LEMMA ThreadsTyped ==
  ASSUME IndexColumns, NEW w \in IndexWorkers,
         ThreadExits(w) \/ ThreadLoads(w) \/ ThreadReady(w) \/ ThreadFails(w) \/ WorkerDies(w)
  PROVE  IndexColumns'
<1> USE IndexConstants
<1>1. [state |-> "exited", serving |-> NoSnapshot] \in Threads
  BY DEF Threads
<1>2. CASE WorkerDies(w)
  <2>1. thread' \in [IndexWorkers -> Threads]
    BY <1>1, <1>2, ThreadTyped DEF WorkerDies
  <2> QED BY <1>2, <2>1, IdleColumns DEF WorkerDies, IndexColumns, IndexTyped, ActivityTyped
<1>3. CASE ThreadExits(w) \/ ThreadLoads(w) \/ ThreadReady(w) \/ ThreadFails(w)
  <2>1. ThreadExits(w) \/ ThreadFails(w) => thread' \in [IndexWorkers -> Threads]
    BY <1>1, ThreadTyped DEF ThreadExits, ThreadFails
  <2>2. ASSUME ThreadLoads(w) PROVE thread' \in [IndexWorkers -> Threads]
    <3>1. PICK s \in (IF Loadable THEN {Loaded} ELSE {}) \cup {NoSnapshot} :
            thread' = [thread EXCEPT ![w] = [state |-> "starting", serving |-> s]]
      BY <2>2 DEF ThreadLoads
    <3>2. s \in Snapshots
      BY LoadedColumns
    <3>3. [state |-> "starting", serving |-> s] \in Threads
      BY <3>2 DEF Threads
    <3> QED BY <3>1, <3>3, ThreadTyped
  <2>3. ASSUME ThreadReady(w) PROVE thread' \in [IndexWorkers -> Threads]
    <3>1. [thread[w] EXCEPT !.state = "up"] \in Threads
      BY ColumnFacts DEF Threads
    <3>2. thread' = [thread EXCEPT ![w] = [thread[w] EXCEPT !.state = "up"]]
      BY <2>3 DEF ThreadReady
    <3> QED BY <3>1, <3>2, ThreadTyped
  <2>4. thread' \in [IndexWorkers -> Threads]
    BY <1>3, <2>1, <2>2, <2>3
  <2>5. UNCHANGED <<catalog, activity, index, active, working, builder>>
    BY <1>3 DEF ThreadExits, ThreadLoads, ThreadReady, ThreadFails
  <2> QED BY <2>4, <2>5 DEF IndexColumns, IndexTyped, ActivityTyped, AimsAtSet
<1> QED BY <1>2, <1>3

\* The rows of the index, the mark and every Worker and thread keep their types, also with
\* two Workers at once: one that finishes finds its own target still leased.
THEOREM IndexTypedAlways == IndexSpec => []IndexTypeOK
<1>1. IndexInit => IndexColumns
  <2>1. IndexInit => \A w \in IndexWorkers : AimsAtSet(builder[w])
    BY DEF IndexInit, AimsAtSet, SetPcs, BuilderIdle
  <2> QED BY <2>1, IndexInitInv DEF IndexInv, IndexColumns
<1>2. IndexColumns /\ [IndexNext]_indexVars => IndexColumns'
  <2> SUFFICES ASSUME IndexColumns, [IndexNext]_indexVars PROVE IndexColumns'
    OBVIOUS
  <2>1. CASE UNCHANGED indexVars
    BY <2>1 DEF indexVars, IndexColumns, IndexTyped, ActivityTyped, AimsAtSet
  <2> QED BY <2>1, AroundTyped, BuildTyped, ServedTyped, PrunedTyped, ThreadsTyped DEF IndexNext
<1>3. IndexColumns => IndexTypeOK
  BY IndexTypes DEF IndexColumns
<1> QED BY <1>1, <1>2, <1>3, PTL DEF IndexSpec
=============================================================================
