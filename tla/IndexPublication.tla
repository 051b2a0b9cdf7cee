---------------------------- MODULE IndexPublication ----------------------------
(***************************************************************************)
(* Building and publishing the retrieval index (src/src/retrieval): triggers *)
(* count catalog changes, a Worker leases a build, indexes a snapshot of the *)
(* catalog in batches, makes it the active index, hands the loaded snapshot  *)
(* to its foreground thread and marks the generation published.  Between     *)
(* builds it republishes the working set and prunes retired indexes, while    *)
(* the foreground thread exits and is replaced and Workers die.              *)
(***************************************************************************)
EXTENDS Integers, FiniteSets

CONSTANTS
    IndexWorkers,    \* Worker processes: one, or a replaced one that lingers
    MaxIndexes,      \* bound: index revisions, numbered in the order they are built
    LastBatch,       \* publication batches of the documents of an index
    MaxGeneration,   \* bound: catalog changes
    MaxWorkingSet    \* bound: working set changes

ASSUME IndexAssumption ==
    /\ MaxIndexes \in Nat /\ LastBatch \in Nat
    /\ MaxGeneration \in Nat \ {0} /\ MaxWorkingSet \in Nat

VARIABLES
    catalog,    \* retrieval_catalog_generations
    activity,   \* retrieval_index_build_activity
    index,      \* retrieval_index_revisions, their documents and directories
    active,     \* active_retrieval_index, 0 for none
    working,    \* memory_working_set_generations
    builder,    \* the step a Worker's cycle is in
    thread      \* the foreground thread of a Worker and the snapshot it serves

indexVars == <<catalog, activity, index, active, working, builder, thread>>

Revisions == 1..MaxIndexes
Batches == 1..LastBatch
Generations == 0..MaxGeneration
NotBuilding == -1
NoSnapshot == [of |-> -1, set |-> -1]
Snapshots == [of: Generations \cup {-1}, set: (0..MaxWorkingSet) \cup {-1}]

BuilderIdle == [pc |-> "idle", target |-> 0, of |-> 0, rev |-> 0, done |-> {}, loaded |-> NoSnapshot]
Building == {"begun", "recorded", "read", "staged", "indexed", "completed", "acknowledged"}

IndexTypeOK ==
    /\ catalog \in [dirty: Generations, published: Generations,
                    building: Generations \cup {NotBuilding}]
    /\ activity \in [state: {"none", "building", "complete", "failed"},
                     by: IndexWorkers, recent: BOOLEAN]
    /\ index \in [Revisions -> [state: {"none", "failed", "complete"}, of: Generations,
                                docs: SUBSET Batches, stored: BOOLEAN, pruned: BOOLEAN]]
    /\ active \in Revisions \cup {0}
    /\ working \in [dirty: 0..MaxWorkingSet, published: 0..MaxWorkingSet]
    /\ builder \in [IndexWorkers ->
         [pc: {"idle", "loaded", "served", "set_read", "set_loaded", "set_served",
               "selected", "emptied", "removed"} \cup Building,
          target: 0..(IF MaxGeneration > MaxWorkingSet THEN MaxGeneration ELSE MaxWorkingSet),
          of: Generations, rev: Revisions \cup {0}, done: SUBSET Batches,
          loaded: Snapshots]]
    /\ thread \in [IndexWorkers -> [state: {"up", "exited", "starting"}, serving: Snapshots]]

IndexInit ==
    /\ catalog = [dirty |-> 1, published |-> 0, building |-> NotBuilding]
    /\ \E w \in IndexWorkers : activity = [state |-> "none", by |-> w, recent |-> FALSE]
    /\ index = [r \in Revisions |-> [state |-> "none", of |-> 0, docs |-> {},
                                     stored |-> FALSE, pruned |-> FALSE]]
    /\ active = 0
    /\ working = [dirty |-> 0, published |-> 0]
    /\ builder = [w \in IndexWorkers |-> BuilderIdle]
    /\ thread = [w \in IndexWorkers |-> [state |-> "up", serving |-> NoSnapshot]]

-----------------------------------------------------------------------------
(* The rest of the program                                                  *)

\* The triggers on memory_catalog, and storeMemorySummary.
ChangeCatalog ==
    /\ catalog.dirty < MaxGeneration
    /\ catalog' = [catalog EXCEPT !.dirty = @ + 1]
    /\ UNCHANGED <<activity, index, active, working, builder, thread>>

\* A rebalanced scope, or an excluded revision that was read explicitly.
ChangeWorkingSet ==
    /\ working.dirty < MaxWorkingSet
    /\ working' = [working EXCEPT !.dirty = @ + 1]
    /\ UNCHANGED <<catalog, activity, index, active, builder, thread>>

\* Five minutes pass since the build started.
ActivityAges ==
    /\ activity.recent
    /\ activity' = [activity EXCEPT !.recent = FALSE]
    /\ UNCHANGED <<catalog, index, active, working, builder, thread>>

-----------------------------------------------------------------------------
(* beginRetrievalIndexBuild and buildRetrievalIndex                         *)

Step(w, pc) == builder' = [builder EXCEPT ![w].pc = pc]

\* A lease is left alone for five minutes.  The quiet period, foreground
\* pressure and cool-downs only delay a build.
Leased == catalog.building # NotBuilding /\ activity.state = "building" /\ activity.recent

Begin(w) ==
    /\ builder[w].pc = "idle"
    /\ ~Leased
    /\ active = 0 \/ catalog.dirty > catalog.published
    /\ catalog' = [catalog EXCEPT !.building = catalog.dirty]
    /\ builder' = [builder EXCEPT ![w] = [BuilderIdle EXCEPT !.pc = "begun", !.target = catalog.dirty]]
    /\ UNCHANGED <<activity, index, active, working, thread>>

RecordActivity(w) ==
    /\ builder[w].pc = "begun"
    /\ activity' = [state |-> "building", by |-> w, recent |-> TRUE]
    /\ Step(w, "recorded")
    /\ UNCHANGED <<catalog, index, active, working, thread>>

\* The catalog rows and their generation, in one transaction; the bodies are
\* read by revision and the build fails if one has changed.
ReadCatalog(w) ==
    /\ builder[w].pc = "recorded"
    /\ builder' = [builder EXCEPT ![w].pc = "read", ![w].of = catalog.dirty]
    /\ UNCHANGED <<catalog, activity, index, active, working, thread>>

Fresh == {r \in Revisions : index[r].state = "none"}

\* The directory is renamed into place and the revision recorded, as failed
\* until its documents are complete.
Stage(w) ==
    /\ builder[w].pc = "read" /\ Fresh # {}
    /\ LET r == CHOOSE x \in Fresh : \A y \in Fresh : x <= y IN
       /\ index' = [index EXCEPT ![r] = [state |-> "failed", of |-> builder[w].of, docs |-> {},
                                         stored |-> TRUE, pruned |-> FALSE]]
       /\ builder' = [builder EXCEPT ![w].pc = "staged", ![w].rev = r]
    /\ UNCHANGED <<catalog, activity, active, working, thread>>

\* Each batch is a transaction of its own; the last one ends the loop.
PublishBatch(w, b) ==
    /\ builder[w].pc = "staged"
    /\ b \notin builder[w].done /\ \A c \in Batches \ builder[w].done : b <= c
    /\ index' = [index EXCEPT ![builder[w].rev].docs = @ \cup {b}]
    /\ builder' = [builder EXCEPT ![w].done = @ \cup {b},
                     ![w].pc = IF builder[w].done \cup {b} = Batches THEN "indexed" ELSE @]
    /\ UNCHANGED <<catalog, activity, active, working, thread>>

\* The revision becomes complete and active, whatever generation the active one has.
Complete(w) ==
    /\ builder[w].pc = "indexed"
    /\ index[builder[w].rev].state = "failed"
    /\ index' = [index EXCEPT ![builder[w].rev].state = "complete"]
    /\ active' = builder[w].rev
    /\ builder' = [builder EXCEPT ![w].pc = "completed", ![w].rev = 0, ![w].done = {}]
    /\ UNCHANGED <<catalog, activity, working, thread>>

AtLeast(a, b) == IF a < b THEN b ELSE a

\* acknowledgeUnleasedIndexPublication, for a build whose lease was cleared, and
\* the end of the activity of this build.
Acknowledge(w) ==
    /\ builder[w].pc = "completed"
    /\ catalog' = IF catalog.building # NotBuilding THEN catalog
                  ELSE [catalog EXCEPT !.published = AtLeast(@, builder[w].of)]
    /\ activity' = IF activity.by = w THEN [activity EXCEPT !.state = "complete"] ELSE activity
    /\ builder' = [builder EXCEPT ![w].pc = "acknowledged", ![w].of = 0]
    /\ UNCHANGED <<index, active, working, thread>>

-----------------------------------------------------------------------------
(* Publishing to the foreground thread                                      *)

\* loadRetrievalSnapshot: rows in one transaction, then the files, whose
\* identity and size must match.
Loadable ==
    /\ active # 0
    /\ index[active].docs = Batches /\ index[active].stored
Loaded == [of |-> index[active].of, set |-> working.dirty]

LoadIndex(w) ==
    /\ builder[w].pc = "acknowledged" /\ Loadable
    /\ builder' = [builder EXCEPT ![w].pc = "loaded", ![w].loaded = Loaded]
    /\ UNCHANGED <<catalog, activity, index, active, working, thread>>

\* Rejected unless the thread is up.
ServeIndex(w) ==
    /\ builder[w].pc = "loaded"
    /\ thread[w].state = "up"
    /\ thread' = [thread EXCEPT ![w].serving = builder[w].loaded]
    /\ builder' = [builder EXCEPT ![w].pc = "served", ![w].loaded = NoSnapshot]
    /\ UNCHANGED <<catalog, activity, index, active, working>>

\* Faulty: marks what has changed meanwhile as published too.
PublishedAll(w) == catalog.dirty
PublishedTarget(w) == builder[w].target

\* completeRetrievalIndexBuild: the lease must still be for this target.
FinishBuild(w) ==
    /\ builder[w].pc = "served"
    /\ catalog.building = builder[w].target
    /\ catalog' = [catalog EXCEPT !.published = AtLeast(@, PublishedTarget(w)),
                                  !.building = NotBuilding]
    /\ builder' = [builder EXCEPT ![w] = BuilderIdle]
    /\ UNCHANGED <<activity, index, active, working, thread>>

\* An error in any step: the directory of an unfinished build is removed, and
\* failRetrievalIndexBuild clears the lease if it is still this one.
FailBuild(w) ==
    /\ builder[w].pc \in Building \cup {"loaded", "served"}
    /\ index' = IF builder[w].pc \in {"staged", "indexed"}
                THEN [index EXCEPT ![builder[w].rev].stored = FALSE] ELSE index
    /\ activity' = IF activity.by = w /\ builder[w].pc \in {"recorded", "read", "staged", "indexed", "completed"}
                   THEN [activity EXCEPT !.state = "failed"] ELSE activity
    /\ catalog' = IF catalog.building = builder[w].target
                  THEN [catalog EXCEPT !.building = NotBuilding] ELSE catalog
    /\ builder' = [builder EXCEPT ![w] = BuilderIdle]
    /\ UNCHANGED <<active, working, thread>>

-----------------------------------------------------------------------------
(* The working set, and pruning                                             *)

ReadWorkingSet(w) ==
    /\ builder[w].pc = "idle"
    /\ working.dirty > working.published /\ active # 0
    /\ builder' = [builder EXCEPT ![w] = [BuilderIdle EXCEPT !.pc = "set_read", !.target = working.dirty]]
    /\ UNCHANGED <<catalog, activity, index, active, working, thread>>

LoadWorkingSet(w) ==
    /\ builder[w].pc = "set_read" /\ Loadable
    /\ builder' = [builder EXCEPT ![w].pc = "set_loaded", ![w].loaded = Loaded]
    /\ UNCHANGED <<catalog, activity, index, active, working, thread>>

ServeWorkingSet(w) ==
    /\ builder[w].pc = "set_loaded" /\ thread[w].state = "up"
    /\ thread' = [thread EXCEPT ![w].serving = builder[w].loaded]
    /\ builder' = [builder EXCEPT ![w].pc = "set_served", ![w].loaded = NoSnapshot]
    /\ UNCHANGED <<catalog, activity, index, active, working>>

MarkWorkingSet(w) ==
    /\ builder[w].pc = "set_served"
    /\ working' = [working EXCEPT !.published = AtLeast(@, builder[w].target)]
    /\ builder' = [builder EXCEPT ![w] = BuilderIdle]
    /\ UNCHANGED <<catalog, activity, index, active, thread>>

\* Recorded, and retried later; also an error while pruning.
FailUpkeep(w) ==
    /\ builder[w].pc \in {"set_read", "set_loaded", "set_served", "selected", "emptied", "removed"}
    /\ builder' = [builder EXCEPT ![w] = BuilderIdle]
    /\ UNCHANGED <<catalog, activity, index, active, working, thread>>

\* Nothing is retired before an index is active; unfinished builds are retired.
Retired == {r \in Revisions : index[r].state # "none" /\ ~index[r].pruned
                              /\ active # 0 /\ r # active}

SelectRetired(w) ==
    /\ builder[w].pc = "idle" /\ Retired # {}
    /\ LET r == CHOOSE x \in Retired : \A y \in Retired : x <= y IN
       builder' = [builder EXCEPT ![w] = [BuilderIdle EXCEPT !.pc = "selected", !.rev = r]]
    /\ UNCHANGED <<catalog, activity, index, active, working, thread>>

EmptyRetired(w) ==
    /\ builder[w].pc = "selected"
    /\ index' = [index EXCEPT ![builder[w].rev].docs = {}]
    /\ Step(w, "emptied")
    /\ UNCHANGED <<catalog, activity, active, working, thread>>

RemoveRetired(w) ==
    /\ builder[w].pc = "emptied"
    /\ index' = [index EXCEPT ![builder[w].rev].stored = FALSE]
    /\ Step(w, "removed")
    /\ UNCHANGED <<catalog, activity, active, working, thread>>

MarkPruned(w) ==
    /\ builder[w].pc = "removed"
    /\ index' = IF builder[w].rev # active
                THEN [index EXCEPT ![builder[w].rev].pruned = TRUE] ELSE index
    /\ builder' = [builder EXCEPT ![w] = BuilderIdle]
    /\ UNCHANGED <<catalog, activity, active, working, thread>>

-----------------------------------------------------------------------------
(* The foreground thread and the process                                    *)

ThreadExits(w) ==
    /\ thread[w].state = "up"
    /\ thread' = [thread EXCEPT ![w] = [state |-> "exited", serving |-> NoSnapshot]]
    /\ UNCHANGED <<catalog, activity, index, active, working, builder>>

\* The replacement loads what is active now, or starts without a snapshot; it
\* receives snapshots only once it has reported to be ready.
ThreadLoads(w) ==
    /\ thread[w].state = "exited"
    /\ \E s \in (IF Loadable THEN {Loaded} ELSE {}) \cup {NoSnapshot} :
         thread' = [thread EXCEPT ![w] = [state |-> "starting", serving |-> s]]
    /\ UNCHANGED <<catalog, activity, index, active, working, builder>>

ThreadReady(w) ==
    /\ thread[w].state = "starting"
    /\ thread' = [thread EXCEPT ![w].state = "up"]
    /\ UNCHANGED <<catalog, activity, index, active, working, builder>>

ThreadFails(w) ==
    /\ thread[w].state = "starting"
    /\ thread' = [thread EXCEPT ![w] = [state |-> "exited", serving |-> NoSnapshot]]
    /\ UNCHANGED <<catalog, activity, index, active, working, builder>>

\* The next process of the Worker starts with a thread that has to load.
WorkerDies(w) ==
    /\ builder[w].pc # "idle"
    /\ builder' = [builder EXCEPT ![w] = BuilderIdle]
    /\ thread' = [thread EXCEPT ![w] = [state |-> "exited", serving |-> NoSnapshot]]
    /\ UNCHANGED <<catalog, activity, index, active, working>>

IndexNext ==
    \/ ChangeCatalog \/ ChangeWorkingSet \/ ActivityAges
    \/ \E w \in IndexWorkers :
         \/ Begin(w) \/ RecordActivity(w) \/ ReadCatalog(w) \/ Stage(w)
         \/ \E b \in Batches : PublishBatch(w, b)
         \/ Complete(w) \/ Acknowledge(w) \/ LoadIndex(w) \/ ServeIndex(w)
         \/ FinishBuild(w) \/ FailBuild(w)
         \/ ReadWorkingSet(w) \/ LoadWorkingSet(w) \/ ServeWorkingSet(w) \/ MarkWorkingSet(w)
         \/ SelectRetired(w) \/ EmptyRetired(w) \/ RemoveRetired(w) \/ MarkPruned(w)
         \/ FailUpkeep(w)
         \/ ThreadExits(w) \/ ThreadLoads(w) \/ ThreadReady(w) \/ ThreadFails(w)
         \/ WorkerDies(w)

IndexSpec == IndexInit /\ [][IndexNext]_indexVars

-----------------------------------------------------------------------------
(* The index that answers is whole: no build, failed build or pruning takes  *)
(* documents or vectors from it (SPEC.md:734, :770).                         *)
ActiveWhole ==
    active # 0 => /\ index[active].state = "complete" /\ index[active].docs = Batches
                  /\ index[active].stored /\ ~index[active].pruned

(* A generation marked published is in the active index, and a foreground    *)
(* thread never answers from an index or a working set older than what is    *)
(* marked published: otherwise nothing would be due and it would stay stale.  *)
PublishedIsServed ==
    /\ catalog.published > 0 => active # 0 /\ index[active].of >= catalog.published
    /\ \A w \in IndexWorkers : thread[w].serving # NoSnapshot =>
         /\ thread[w].serving.of >= catalog.published
         /\ thread[w].serving.set >= working.published

(* The index that answers is whole and as new as what is marked published.    *)
IndexSafe == ActiveWhole /\ PublishedIsServed
=============================================================================
