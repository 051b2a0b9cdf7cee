------------------------------- MODULE ArchivePurge -------------------------------
(***************************************************************************)
(* Removing the bodies of archived Memories (src/src/purge/index.ts): the   *)
(* Worker's scheduled retention backfills deadlines, resumes an interrupted *)
(* run or previews a new one, backs each body up and lets the Vault replace *)
(* it by a tombstone; an operator purges a single Memory.  Meanwhile the    *)
(* owner restores, archives and protects Memories, and the Worker dies.     *)
(* A write of the Vault is one action here; CanonicalVault has its steps.   *)
(***************************************************************************)
EXTENDS Integers, FiniteSets

CONSTANTS
    Archives,        \* Memory identities
    MaxVersion,      \* bound: contents a Memory ever has
    DeadlineLimit,   \* deadlines one pass backfills, 50 in the code
    LateProtection,  \* may a review open on a Memory between the check of its
                     \* protection and the end of its purge
    NoArchive        \* no Memory

ASSUME PurgeAssumption ==
    /\ MaxVersion \in Nat \ {0}
    /\ DeadlineLimit \in Nat
    /\ LateProtection \in BOOLEAN
    /\ NoArchive \notin Archives

VARIABLES
    body,        \* canonical file: lifecycle, content version, deadline set,
                 \* and why a tombstone was written
    listed,      \* memory_catalog: lifecycle and content version
    kept,        \* Memories whose revision bodies exist
    protected,   \* Memories with an open review, verification or conflict
    item,        \* archive_purge_items of the latest run
    purgeRun,    \* state of the latest archive_purge_runs row
    staged,      \* content version in the backup, 0 for none
    purger       \* the call in progress: mode, pc, target

purgeVars == <<body, listed, kept, protected, item, purgeRun, staged, purger>>

ItemStates == {"none", "prepared", "tombstone_written", "revision_bodies_removed",
               "catalog_committed", "completed", "skipped"}
NoItem == [state |-> "none", expected |-> 0]
PurgerIdle == [mode |-> "none", pc |-> "idle", target |-> NoArchive]

Unfinished(m) == item[m].state \notin {"none", "completed", "skipped"}
Interrupted == purgeRun \in {"processing", "yielded", "failed"} /\ \E m \in Archives : Unfinished(m)

\* A tombstone keeps the version it replaced in purgedContentIdentity.
Consistent(m) == listed[m] = [lifecycle |-> body[m].lifecycle, version |-> body[m].version]

PurgeTypeOK ==
    /\ body \in [Archives -> [lifecycle: {"active", "archived", "tombstone"},
                              version: 1..MaxVersion, deadline: BOOLEAN,
                              reason: {"none", "retention", "user"}]]
    /\ listed \in [Archives -> [lifecycle: {"active", "archived", "tombstone"},
                                version: 1..MaxVersion]]
    /\ kept \subseteq Archives
    /\ protected \subseteq Archives
    /\ item \in [Archives -> [state: ItemStates, expected: 0..MaxVersion]]
    /\ purgeRun \in {"none", "processing", "yielded", "failed", "completed"}
    /\ staged \in [Archives -> 0..MaxVersion]
    /\ purger \in [mode: {"none", "batch", "resume", "single"},
                   pc: {"idle", "select", "next", "body", "revisions", "row", "indexes"},
                   target: Archives \cup {NoArchive}]

\* Memories archived before deadlines existed have none yet.
PurgeInit ==
    /\ body = [m \in Archives |-> [lifecycle |-> "archived", version |-> 1, deadline |-> FALSE,
                               reason |-> "none"]]
    /\ listed = [m \in Archives |-> [lifecycle |-> "archived", version |-> 1]]
    /\ kept = Archives
    /\ protected = {}
    /\ item = [m \in Archives |-> NoItem]
    /\ purgeRun = "none"
    /\ staged = [m \in Archives |-> 0]
    /\ purger = PurgerIdle

-----------------------------------------------------------------------------
(* The owner and the rest of the Worker                                     *)

\* writeCanonicalMemory by applyMemoryLifecycleChange; archiving sets the
\* deadline, restoring drops it.
ChangeLifecycle(m) ==
    /\ body[m].lifecycle # "tombstone" /\ Consistent(m)
    /\ body[m].version < MaxVersion
    /\ LET archive == body[m].lifecycle = "active"
           lifecycle == IF archive THEN "archived" ELSE "active" IN
       /\ body' = [body EXCEPT ![m] = [lifecycle |-> lifecycle, version |-> @.version + 1,
                                       deadline |-> archive, reason |-> "none"]]
       /\ listed' = [listed EXCEPT ![m] = [lifecycle |-> lifecycle, version |-> @.version + 1]]
    /\ UNCHANGED <<kept, protected, item, purgeRun, staged, purger>>

\* A review, verification or conflict about the Memory opens or is resolved.
ChangeProtection(m) ==
    /\ \/ m \in protected
       \/ LateProtection \/ (body[m].lifecycle # "tombstone" /\ purger.target # m)
    /\ protected' = IF m \in protected THEN protected \ {m} ELSE protected \cup {m}
    /\ UNCHANGED <<body, listed, kept, item, purgeRun, staged, purger>>

-----------------------------------------------------------------------------
(* runScheduledArchiveRetention and runArchivePurgeBatch                    *)

\* materializeArchivedPurgeDeadlines: a new revision for at most
\* DeadlineLimit archived Memories without a deadline.
NeedsDeadline(m) == body[m].lifecycle = "archived" /\ ~body[m].deadline

Materialize ==
    /\ purger = PurgerIdle
    /\ LET eligible == {m \in Archives : NeedsDeadline(m)} IN
       \E S \in SUBSET eligible :
         /\ Cardinality(S) = IF Cardinality(eligible) < DeadlineLimit
                             THEN Cardinality(eligible) ELSE DeadlineLimit
         /\ \A m \in S : Consistent(m) /\ body[m].version < MaxVersion
         /\ body' = [m \in Archives |-> IF m \in S
                       THEN [body[m] EXCEPT !.version = @ + 1, !.deadline = TRUE] ELSE body[m]]
         /\ listed' = [m \in Archives |-> IF m \in S
                       THEN [listed[m] EXCEPT !.version = @ + 1] ELSE listed[m]]
    /\ purger' = [purger EXCEPT !.mode = "batch", !.pc = "select"]
    /\ UNCHANGED <<kept, protected, item, purgeRun, staged>>

\* The command runs a batch without backfilling.
StartBatch ==
    /\ purger = PurgerIdle
    /\ purger' = [purger EXCEPT !.mode = "batch", !.pc = "select"]
    /\ UNCHANGED <<body, listed, kept, protected, item, purgeRun, staged>>

\* resumeInterruptedPurge comes first.
Resume ==
    /\ purger.pc = "select" /\ Interrupted
    /\ purgeRun' = "processing"
    /\ purger' = [purger EXCEPT !.mode = "resume", !.pc = "next"]
    /\ UNCHANGED <<body, listed, kept, protected, item, staged>>

\* collectPreview: the due Memories, each with a verified backup; one archived
\* Memory that needs reconciliation refuses the whole preview.
Due(m) == listed[m].lifecycle = "archived" /\ m \notin protected

Preview ==
    /\ purger.pc = "select" /\ ~Interrupted
    /\ IF \E m \in Archives : listed[m].lifecycle = "archived" /\ ~Consistent(m)
       THEN purger' = PurgerIdle /\ UNCHANGED <<item, purgeRun, staged>>
       ELSE \E S \in SUBSET {m \in Archives : Due(m)} :
              IF S = {} THEN purger' = PurgerIdle /\ UNCHANGED <<item, purgeRun, staged>>
              ELSE /\ item' = [m \in Archives |-> IF m \in S
                                 THEN [state |-> "prepared", expected |-> body[m].version]
                                 ELSE NoItem]
                   /\ staged' = [m \in Archives |->
                                   IF m \in S THEN body[m].version ELSE staged[m]]
                   /\ purgeRun' = "processing"
                   /\ purger' = [purger EXCEPT !.pc = "next"]
    /\ UNCHANGED <<body, listed, kept, protected>>

\* Foreground work or the time limit: the rest waits for the next pass.
Yield ==
    /\ purger.pc = "next" /\ Interrupted
    /\ purgeRun' = "yielded"
    /\ purger' = PurgerIdle
    /\ UNCHANGED <<body, listed, kept, protected, item, staged>>

\* What may still be purged: the ordered content, or after an interruption the
\* tombstone that replaced it.
AsOrdered(m) == body[m].version = item[m].expected /\ body[m].lifecycle = "archived"
Resumable(m) ==
    body[m].version = item[m].expected /\ body[m].lifecycle \in {"archived", "tombstone"}

StartItem(m) ==
    /\ purger.pc = "next" /\ Unfinished(m)
    /\ IF purger.mode = "resume" THEN Resumable(m) ELSE AsOrdered(m)
    /\ staged[m] = item[m].expected
    /\ m \notin protected
    /\ purger' = [purger EXCEPT !.pc = "body", !.target = m]
    /\ UNCHANGED <<body, listed, kept, protected, item, purgeRun, staged>>

SkipItem(m) ==
    /\ purger.pc = "next" /\ Unfinished(m)
    /\ \/ purger.mode = "resume" /\ body[m].lifecycle = "active"
       \/ m \in protected /\ (purger.mode = "resume" \/ AsOrdered(m))
    /\ item' = [item EXCEPT ![m].state = "skipped"]
    /\ UNCHANGED <<body, listed, kept, protected, purgeRun, staged, purger>>

\* "Purge target changed after preview; refusing deletion", or the backup did.
RefuseItem(m) ==
    /\ purger.pc = "next" /\ Unfinished(m)
    /\ \/ purger.mode = "resume" /\ ~Resumable(m) /\ body[m].lifecycle # "active"
          /\ m \notin protected
       \/ purger.mode = "batch" /\ ~AsOrdered(m)
       \/ staged[m] # item[m].expected
    /\ purgeRun' = "failed"
    /\ purger' = PurgerIdle
    /\ UNCHANGED <<body, listed, kept, protected, item, staged>>

\* Faulty: the run ends although items are left, and takes the backup along.
CompleteRunEarly ==
    /\ purger.pc = "next"
    /\ purgeRun' = "completed"
    /\ purger' = PurgerIdle
    /\ staged' = [m \in Archives |-> 0]
    /\ UNCHANGED <<body, listed, kept, protected, item>>

\* All items are settled; the managed backup goes when no work is left.
CompleteRun ==
    /\ purger.pc = "next" /\ ~Interrupted
    /\ purgeRun' = "completed"
    /\ purger' = PurgerIdle
    /\ \E more \in BOOLEAN :
         staged' = IF more THEN staged ELSE [m \in Archives |-> 0]
    /\ UNCHANGED <<body, listed, kept, protected, item>>

-----------------------------------------------------------------------------
(* purgeArchivedCanonicalBody, a checkpoint after each step                 *)

\* applySingleMemoryPurge, against a backup the operator keeps.
StartSingle(m) ==
    /\ purger = PurgerIdle
    /\ \/ body[m].lifecycle = "archived" /\ m \notin protected
       \/ body[m].lifecycle = "tombstone"
    /\ purger' = [mode |-> "single", pc |-> "body", target |-> m]
    /\ UNCHANGED <<body, listed, kept, protected, item, purgeRun, staged>>

Checkpoint(m, state) ==
    item' = IF purger.mode = "single" THEN item ELSE [item EXCEPT ![m].state = state]
Ordered(m) == IF purger.mode = "single" THEN body[m].version ELSE item[m].expected

WriteTombstone(m) ==
    /\ purger.pc = "body" /\ purger.target = m
    /\ body[m].lifecycle \in {"archived", "tombstone"} /\ body[m].version = Ordered(m)
    /\ body' = IF body[m].lifecycle = "tombstone" THEN body
               ELSE [body EXCEPT ![m].lifecycle = "tombstone",
                       ![m].reason = IF purger.mode = "single" THEN "user" ELSE "retention"]
    /\ Checkpoint(m, "tombstone_written")
    /\ purger' = [purger EXCEPT !.pc = "revisions"]
    /\ UNCHANGED <<listed, kept, protected, purgeRun, staged>>

RemoveRevisions(m) ==
    /\ purger.pc = "revisions" /\ purger.target = m
    /\ kept' = kept \ {m}
    /\ Checkpoint(m, "revision_bodies_removed")
    /\ purger' = [purger EXCEPT !.pc = "row"]
    /\ UNCHANGED <<body, listed, protected, purgeRun, staged>>

CommitRow(m) ==
    /\ purger.pc = "row" /\ purger.target = m
    /\ listed[m].version = body[m].version
    /\ listed' = [listed EXCEPT ![m].lifecycle = "tombstone"]
    /\ Checkpoint(m, "catalog_committed")
    /\ purger' = [purger EXCEPT !.pc = "indexes"]
    /\ UNCHANGED <<body, kept, protected, purgeRun, staged>>

RemoveIndexes(m) ==
    /\ purger.pc = "indexes" /\ purger.target = m
    /\ Checkpoint(m, "completed")
    /\ purger' = IF purger.mode = "single" THEN PurgerIdle
                 ELSE [purger EXCEPT !.pc = "next", !.target = NoArchive]
    /\ UNCHANGED <<body, listed, kept, protected, purgeRun, staged>>

\* A step throws: the target changed since the check, or an I/O error.
PurgeFails ==
    /\ purger.pc \in {"body", "revisions", "row", "indexes"}
    /\ purgeRun' = IF purger.mode = "single" THEN purgeRun ELSE "failed"
    /\ purger' = PurgerIdle
    /\ UNCHANGED <<body, listed, kept, protected, item, staged>>

PurgerDies ==
    /\ purger # PurgerIdle
    /\ purger' = PurgerIdle
    /\ UNCHANGED <<body, listed, kept, protected, item, purgeRun, staged>>

-----------------------------------------------------------------------------
PurgeNext ==
    \/ Materialize \/ StartBatch \/ Resume \/ Preview \/ Yield \/ CompleteRun
    \/ PurgeFails \/ PurgerDies
    \/ \E m \in Archives :
         \/ ChangeLifecycle(m) \/ ChangeProtection(m) \/ StartSingle(m)
         \/ StartItem(m) \/ SkipItem(m) \/ RefuseItem(m)
         \/ WriteTombstone(m) \/ RemoveRevisions(m) \/ CommitRow(m) \/ RemoveIndexes(m)

PurgeSpec == PurgeInit /\ [][PurgeNext]_purgeVars

-----------------------------------------------------------------------------
HalfPurged(m) ==
    body[m].lifecycle = "tombstone" /\ listed[m].lifecycle # "tombstone"

(* An interrupted purge is never forgotten: a body that is gone while the   *)
(* catalog still shows it belongs to an item the next run resumes, and its  *)
(* backup still exists.  Single purges are the operator's to repeat.         *)
HalfPurgedIsResumed ==
    \A m \in Archives : HalfPurged(m) /\ body[m].reason = "retention" =>
        Unfinished(m) /\ staged[m] = body[m].version

(* A run removes only the content it previewed: a Memory restored, revised  *)
(* and archived again since then keeps its body, also when the run is        *)
(* resumed after a crash.                                                    *)
OnlyOrderedContent ==
    [][\A m \in Archives :
         body'[m].lifecycle = "tombstone" /\ body[m].lifecycle # "tombstone"
           /\ purger.mode # "single"
         => body[m].version = item[m].expected /\ staged[m] = body[m].version]_purgeVars

(* No step leaves what a purge has begun behind, and it removes only what it *)
(* previewed.                                                                *)
PurgeKept == OnlyOrderedContent /\ [][HalfPurgedIsResumed']_purgeVars
=============================================================================
