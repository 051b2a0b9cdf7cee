---------------------------------- MODULE Quality ----------------------------------
(***************************************************************************)
(* The compact quality pipeline (src/src/quality): memories without a short  *)
(* summary are queued by source revision and content, a compact is generated *)
(* and then validated by the model, and a validated one becomes an agent     *)
(* revision or, for a memory the human wrote, a row of memory_summaries.     *)
(*                                                                         *)
(* One memory; an item per revision of it.  Contents are numbered by the      *)
(* revision that introduced them; Edited(c) is the file an owner changed      *)
(* without a new revision.                                                  *)
(***************************************************************************)
EXTENDS Integers, FiniteSets

CONSTANTS
    QualityWorkers,
    MaxSource,      \* bound: revisions of the memory
    RewriteLimit,   \* maximumLossyRewrites
    OwnerEdits      \* whether the owner edits the file outside the program

ASSUME QualityAssumption ==
    /\ MaxSource \in Nat \ {0}
    /\ RewriteLimit \in Nat
    /\ OwnerEdits \in BOOLEAN

VARIABLES
    memory,    \* the current revision and its file
    summary,   \* memory_summaries: the compact stored for each revision
    quality,   \* memory_quality_items, by source revision
    scan,      \* memory_quality_schedule.enabled
    worker     \* runNextMemoryQualityStep of each worker

qualityVars == <<memory, summary, quality, scan, worker>>

Sources == 1..MaxSource
Edited(c) == c + MaxSource
Contents == 1..(2 * MaxSource)

NoCompact == [of |-> 0, draft |-> "none"]
Compacts == [of: Contents \cup {0}, draft: {"none", "poor", "good"}]

\* A retry or a recovery that is due counts as pending again: the budget of
\* attempts is the retry policy of the operation queue, modelled with it.
AwaitingModel == {"pending_generation", "pending_validation"}
Processing == {"processing_generation", "processing_validation"}

NoQualityItem == [state |-> "absent", source |-> 0, draft |-> "none", reasons |-> 0]

QualityItems ==
    [state: {"absent", "blocked", "rejected", "stale", "completed"}
              \cup AwaitingModel \cup Processing,
     source: Contents \cup {0}, draft: {"none", "poor", "good"},
     reasons: 0..RewriteLimit]

QualityIdle == [pc |-> "idle", phase |-> "none", rev |-> 0,
            draft |-> "none", reasons |-> 0, human |-> FALSE]

QualityTypeOK ==
    /\ memory \in [rev: Sources, body: Sources, file: Contents, human: BOOLEAN,
                   active: BOOLEAN, compact: Compacts]
    /\ summary \in [Sources -> Compacts]
    /\ quality \in [Sources -> QualityItems]
    /\ scan \in BOOLEAN
    /\ worker \in [QualityWorkers ->
                     [pc: {"idle", "asking", "publishing", "published"},
                      phase: {"none", "generation", "validation"}, rev: Sources \cup {0},
                      draft: {"none", "poor", "good"}, reasons: 0..RewriteLimit,
                      human: BOOLEAN]]

QualityInit ==
    /\ \E human \in BOOLEAN :
         memory = [rev |-> 1, body |-> 1, file |-> 1, human |-> human,
                   active |-> TRUE, compact |-> NoCompact]
    /\ summary = [r \in Sources |-> NoCompact]
    /\ quality = [r \in Sources |-> NoQualityItem]
    /\ scan = FALSE
    /\ worker = [w \in QualityWorkers |-> QualityIdle]

-----------------------------------------------------------------------------
(* The memory, and queueing                                                 *)

Short == memory.compact # NoCompact \/ summary[memory.rev] # NoCompact

\* INSERT OR IGNORE by (memory, source revision).
QueuedItem(r, c) ==
    IF quality[r].state # "absent" THEN quality
    ELSE [quality EXCEPT ![r] = [NoQualityItem EXCEPT !.state = "pending_generation", !.source = c]]

EnableScan ==
    /\ ~scan /\ scan' = TRUE
    /\ UNCHANGED <<memory, summary, quality, worker>>

\* enqueueCompactBackfill reads the file, whether or not it is catalogued.
Backfill ==
    /\ scan /\ memory.active /\ ~Short
    /\ quality' = QueuedItem(memory.rev, memory.file)
    /\ UNCHANGED <<memory, summary, scan, worker>>

\* Another part of the program writes a new body; one by the human makes the
\* memory human-authored, and only the human revises that.  The vault queues
\* the new revision in the transaction that catalogues it.
ReviseMemory(human) ==
    /\ memory.file = memory.body /\ memory.rev < MaxSource
    /\ memory.human => human
    /\ memory' = [rev |-> memory.rev + 1, body |-> memory.rev + 1, file |-> memory.rev + 1,
                  human |-> human, active |-> memory.active, compact |-> NoCompact]
    /\ quality' = IF scan /\ memory.active
                  THEN QueuedItem(memory.rev + 1, memory.rev + 1) ELSE quality
    /\ UNCHANGED <<summary, scan, worker>>

\* Archived or restored: the same content, its compact bound to the new revision.
ChangeLife ==
    /\ memory.file = memory.body /\ memory.rev < MaxSource
    /\ memory' = [memory EXCEPT !.rev = @ + 1, !.active = ~@]
    /\ quality' = IF scan /\ ~memory.active /\ memory.compact = NoCompact
                  THEN QueuedItem(memory.rev + 1, memory.body) ELSE quality
    /\ UNCHANGED <<summary, scan, worker>>

EditFile ==
    /\ OwnerEdits
    /\ memory' = [memory EXCEPT
         !.file = IF @ = memory.body THEN Edited(memory.body) ELSE memory.body]
    /\ UNCHANGED <<summary, quality, scan, worker>>

-----------------------------------------------------------------------------
(* Claiming                                                                 *)

Drafting(i) == i.draft = "none"

\* The ten minutes of a lease may have passed before the model answers.
Claimable(r) == quality[r].state \in AwaitingModel \cup Processing \cup {"blocked"}

PhaseOf(r) ==
    IF \/ quality[r].state \in {"pending_generation", "processing_generation"}
       \/ quality[r].state = "blocked" /\ Drafting(quality[r])
    THEN "generation" ELSE "validation"

Ready(phase) == {r \in Sources : Claimable(r) /\ PhaseOf(r) = phase}

Taken(i, phase) ==
    [i EXCEPT !.state = IF phase = "generation" THEN "processing_generation"
                        ELSE "processing_validation"]

\* The memory is active, and its revision and file are those of the item.
Current(r) == memory.active /\ memory.rev = r /\ memory.file = quality[r].source

\* claimBatch, and then activeSourceMemory of each item: at most one of them is
\* current, the others are marked stale.  A change of the memory between the two
\* has the effect of one before both.  Generation comes first.  A lease that has
\* not run out keeps an item from the batch, and so does the smaller batch that
\* follows an invalid answer.
ClaimItems(w) ==
    /\ worker[w].pc = "idle"
    /\ \E phase \in {"generation", "validation"} :
       \E batch \in (SUBSET Ready(phase)) \ {{}} :
         LET current == {r \in batch : Current(r)} IN
         /\ phase = "validation" => \A r \in Sources : quality[r].state # "pending_generation"
         /\ quality' = [r \in Sources |->
              IF r \in current THEN Taken(quality[r], phase)
              ELSE IF r \in batch THEN [quality[r] EXCEPT !.state = "stale"]
              ELSE quality[r]]
         /\ IF current = {} THEN UNCHANGED worker
            ELSE worker' = [worker EXCEPT ![w] =
                   [pc |-> "asking", phase |-> phase, rev |-> memory.rev,
                    draft |-> quality[memory.rev].draft, reasons |-> quality[memory.rev].reasons,
                    human |-> memory.human]]
    /\ UNCHANGED <<memory, summary, scan>>

-----------------------------------------------------------------------------
(* The model's answers                                                      *)

Settle(w, item) ==
    /\ quality' = [quality EXCEPT ![worker[w].rev] = item]
    /\ worker' = [worker EXCEPT ![w] = QualityIdle]
    /\ UNCHANGED <<memory, summary, scan>>

Closed(w, state) == [quality[worker[w].rev] EXCEPT !.state = state]

\* A draft within the token limit goes on; the update requires the state only.
Generated(w, draft) ==
    LET r == worker[w].rev IN
    /\ worker[w].pc = "asking" /\ worker[w].phase = "generation"
    /\ Settle(w,
         IF quality[r].state # "processing_generation" THEN quality[r]
         ELSE IF draft = "none" THEN Closed(w, "rejected")
         ELSE [Closed(w, "pending_validation") EXCEPT !.draft = draft])

\* A lossy draft is rewritten while fewer than RewriteLimit reasons were given.
JudgedLossy(w) ==
    /\ worker[w].pc = "asking" /\ worker[w].phase = "validation"
    /\ Settle(w,
         IF worker[w].reasons < RewriteLimit
         THEN [Closed(w, "pending_generation") EXCEPT
                 !.draft = "none", !.reasons = worker[w].reasons + 1]
         ELSE Closed(w, "rejected"))

JudgedUnfit(w) ==
    /\ worker[w].pc = "asking" /\ worker[w].phase = "validation"
    /\ Settle(w, Closed(w, "rejected"))

\* The judge never preserves a draft that is poor.
JudgedPreserved(w) ==
    /\ worker[w].pc = "asking" /\ worker[w].phase = "validation"
    /\ worker[w].draft = "good"
    /\ worker' = [worker EXCEPT ![w].pc = "publishing"]
    /\ UNCHANGED <<memory, summary, quality, scan>>

\* failBatch, for an error of the model adapter.
ModelFails(w, blocked) ==
    /\ worker[w].pc = "asking"
    /\ Settle(w, Closed(w,
         IF blocked THEN "blocked"
         ELSE IF worker[w].phase = "generation" THEN "pending_generation"
         ELSE "pending_validation"))

-----------------------------------------------------------------------------
(* Publishing                                                               *)

\* Faulty: publishes whatever draft the item holds by now.
PublishedNow(w) == [of |-> quality[worker[w].rev].source, draft |-> quality[worker[w].rev].draft]
Published(w) == [of |-> quality[worker[w].rev].source, draft |-> worker[w].draft]

\* A human memory: the summary and the item in one transaction, with no look
\* at the memory.
PublishSummary(w) ==
    /\ worker[w].pc = "publishing" /\ worker[w].human
    /\ summary' = [summary EXCEPT ![worker[w].rev] = Published(w)]
    /\ quality' = [quality EXCEPT ![worker[w].rev] = Closed(w, "completed")]
    /\ worker' = [worker EXCEPT ![w] = QualityIdle]
    /\ UNCHANGED <<memory, scan>>

Unmoved(w) == memory.file = quality[worker[w].rev].source

\* An agent memory: writeCanonicalMemory on the expected content identity.
PublishRevision(w) ==
    /\ worker[w].pc = "publishing" /\ ~worker[w].human
    /\ Unmoved(w) /\ memory.file = memory.body /\ memory.rev < MaxSource
    /\ memory' = [memory EXCEPT !.rev = @ + 1, !.compact = Published(w)]
    /\ worker' = [worker EXCEPT ![w].pc = "published"]
    /\ UNCHANGED <<summary, quality, scan>>

PublishConflicts(w) ==
    /\ worker[w].pc = "publishing" /\ ~worker[w].human
    /\ ~Unmoved(w)
    /\ Settle(w, Closed(w, "stale"))

CompletePublished(w) ==
    /\ worker[w].pc = "published"
    /\ Settle(w, Closed(w, "completed"))

\* Any error but the model's leaves the item to its lease: the vault refuses
\* an unreconciled file, the database is busy, the process dies.
WorkerStops(w) ==
    /\ worker[w].pc # "idle"
    /\ worker' = [worker EXCEPT ![w] = QualityIdle]
    /\ UNCHANGED <<memory, summary, quality, scan>>

\* retryRepairableMemoryQuality: an item blocked by invalid answers is drafted
\* anew; it keeps the reasons given so far.
RetryRepairable(r) ==
    /\ quality[r].state = "blocked"
    /\ quality' = [quality EXCEPT ![r] = [@ EXCEPT !.state = "pending_generation", !.draft = "none"]]
    /\ UNCHANGED <<memory, summary, scan, worker>>

QualityNext ==
    \/ EnableScan \/ Backfill \/ ChangeLife \/ EditFile
    \/ \E human \in BOOLEAN : ReviseMemory(human)
    \/ \E r \in Sources : RetryRepairable(r)
    \/ \E w \in QualityWorkers :
         \/ ClaimItems(w) \/ JudgedLossy(w) \/ JudgedUnfit(w)
         \/ JudgedPreserved(w) \/ PublishSummary(w) \/ PublishRevision(w)
         \/ PublishConflicts(w) \/ CompletePublished(w) \/ WorkerStops(w)
         \/ \E d \in {"none", "poor", "good"} : Generated(w, d)
         \/ \E blocked \in BOOLEAN : ModelFails(w, blocked)

QualitySpec == QualityInit /\ [][QualityNext]_qualityVars

-----------------------------------------------------------------------------

\* The compact of a memory was judged to preserve the body it stands beside,
\* whatever was edited, revised or generated anew while the model was asked.
CompactFits ==
    memory.compact # NoCompact =>
      memory.compact = [of |-> memory.body, draft |-> "good"]

\* A stored summary describes the content of the revision it is keyed by
\* (SPEC.md:723).
SummaryFits ==
    \A r \in Sources : summary[r] # NoCompact /\ memory.rev = r =>
      summary[r] = [of |-> memory.body, draft |-> "good"]

\* No step leaves a compact beside a body it was not judged for, nor puts one on a memory
\* the human wrote: an agent that validated the former revision finds it has moved.
CompactKept ==
    [][memory' # memory =>
         /\ CompactFits'
         /\ memory.human => memory'.compact \in {memory.compact, NoCompact}]_qualityVars

=============================================================================
