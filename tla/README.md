# Formal model of MemStore

MemStore captures what a coding agent and its user said, distils it in the
background with a model into durable memories kept as Markdown files, and
injects relevant ones into later sessions. This directory holds TLA+ modules
translated from its source, TLC configurations that check them on small
instances, and TLAPS proofs. Paths below are relative to the repository; the
program itself is under `src/`. `PROJECT.json` maps every definition to the
lines it models and lists the hazards of the code with the properties that watch
them.

1. [Inventory](#1-inventory) of the system
2. [How the project was planned](#2-how-the-project-was-planned)
3. [The modules and the code](#3-the-modules-and-the-code)
4. [What the runs check](#4-what-the-runs-check)
5. [Bounds and fairness](#5-bounds-and-fairness)
6. [What is proved](#6-what-is-proved)
7. [Where code and documents disagree](#7-where-code-and-documents-disagree)
8. [What is not modelled](#8-what-is-not-modelled)

## 1. Inventory

One long-running Worker process, short-lived hook processes of the host, and
command-line and MCP processes share one SQLite database (WAL) and one directory
of Markdown files. Nothing else coordinates them: each SQLite transaction is
atomic, everything between two transactions can interleave with any other
process or be the last thing a process does.

| Component | State it keeps | Operations | Interacts through |
|---|---|---|---|
| **Luna operation queue** `luna/operations.ts`, `luna/recovery-policy.ts` | `luna_operations`: state, lease token and deadline, attempts, recoveries, error category | enqueue, claim, complete, fail (model, local), retry, close, give up | claimed by the Worker; reads the health of the model |
| **Model health** `luna/operations.ts` | `luna_health_state`, `model_health_incidents` | failure, success, probe | reported to by all model work; read by claims; shown by reminders |
| **Distillation** `worker/distillation.ts` | Batches, events in Batches, one consolidation and one cursor per session | select, seal, distil, finalize, queue a range, consolidate, checkpoint, ingest, finish, split | claims Luna operations, produces candidates |
| **Worker loop** `worker/main.ts` | none of its own | one bounded step of every kind of work per iteration | calls all background components in a fixed order |
| **Capture and inbox** `capture/` | inbox files, a capacity lock, `capture_events` with leases | append, import, claim, complete, fail, retention | written by hooks, imported by the Worker |
| **Candidates** `candidates/` | candidates, evidence, reservations, anomalies | create, merge, evaluate, reserve, promote, expire, purge | from distillation to the Vault |
| **Human knowledge** `candidates/human.ts`, `operations/remember*.ts` | operations, conflicts, assessments | assert, replace, import a document, resolve, keep | the Vault; assessed by the Worker |
| **Canonical Vault** `vault/index.ts` | Markdown files, revision files, catalog rows | write, reconcile, rebuild, purge | files outside any transaction, catalog inside |
| **Active admission** `vault/active-capacity.ts` | reservations against the active limit | reserve, finish, recover, resume waiters | called by the Vault's writers |
| **Capacity and working set** `capacity/` | pressure, obligations, working-set generation, retention plans | reconcile, rebalance, publish, archive | read by retrieval |
| **Governance** `governance/` | obligations, runs, frozen pages, ledger, cursors | schedule, page, review, apply, retry | model health; canonical revisions |
| **Quality and duplicates** `quality/` | queue items, drafts, summaries, pair assessments | generate, validate, publish, assess | model health; the Vault |
| **Dreaming** `dreaming/` | runs, segments, chunks, items | schedule, one stage step, apply, roll back | takes events that distillation would get |
| **Retrieval index** `retrieval/index*.ts`, `snapshot.ts` | staged and active index, published generations, snapshots | build, publish, load, prune | reads the Vault; read by hooks |
| **Foreground retrieval** `retrieval/foreground-*.ts`, `packs.ts` | lane, reservations, receipts, context epochs | request, reserve, commit, time out | hooks over a socket, beside the Worker's loop |
| **Review and reminders** `review/` | the inbox file, obligations, deliveries | generate, prepare, deliver, snooze, acknowledge | incidents, conflicts, notifier |
| **Purge** `purge/` | plans, items, staging copies | preview, apply, resume, refuse | Vault, catalog, index |
| **Managed integration** `integration/` | `config.toml`, `hooks.json`, owned files, the ownership manifest, cutover manifests, backups | install, repair, upgrade, uninstall, adopt, cut over, roll back | files the owner and the host write too |
| **Repair, sensitivity, configuration, projects, adapters, command line** | gates, files | | sequential |

What is hard here:

- *Concurrency.* Leases expire while their holder waits minutes for a model; two
  Workers overlap during a restart; the Markdown files are written by the Worker,
  by commands and by the owner's editor with no lock over file and catalog.
- *Failure between transactions.* One logical step is a sequence of
  transactions with model calls and file writes between them. Every prefix of it
  can be the last, and is repeated under another lease.
- *Two records of one fact.* A Batch and its operation, health and the open
  incident, file and catalog, a candidate and its Memory, an index directory and
  its row, a receipt and the total of its epoch.
- *Retry budgets.* Fast retries, recovery probes and explicit retries reset and
  advance the same counters from different places.
- *Ordering.* Consolidations overtake Batches, children of a split are numbered
  after everything else, pages are reviewed after the Memory has changed.
- *Limits.* The capture inbox, the active Memories, the tokens of an epoch are
  counted in one step and consumed in another.

What makes the components correct. *Queue*: only the current lease holder decides
the fate of an operation, attempts stay within the budget, no operation stays in
flight for ever. *Health*: exactly one open incident while unhealthy, no recovery
by a single call, every notice is new. *Distillation*: nothing a session said is
skipped or consolidated twice, results of the model survive crashes, an ended
session is heard at last. *Capture*: nothing accepted is lost, no sensitive body
is stored, the limit is exceeded only by robbed hooks. *Candidates*: a Memory
always has the candidate and the evidence it was promoted for. *Vault*: no fork
of a history, no agent write over the owner's, no purged body back, the limit of
active Memories holds. *Purge*: only what was previewed, and nothing half done is
forgotten. *Governance and dreaming*: act only on what the model saw, cover every
change, lose and repeat nothing across crashes. *Index*: what answers is
whole and never older than what is marked published. *Foreground*: receipts and
totals agree. *Reminders*: one dispatcher shows a reminder, the owner's word stands.
*Integration*: what others wrote stays, an uninstall or a rollback restores what was
there, the native memory and the injected one are never on at once.

## 2. How the project was planned

The order was that of importance: the queue and the pipeline everything in the
background runs on, then what comes in, then what is kept, then what is served.

| # | Module | What it adds |
|---|---|---|
| 1 | `LeaseQueue` | abstract specification of leased work |
| 2 | `LunaQueue`, `MCLunaQueue`, `LunaQueueProofs` | the operation queue with its retry policy, shown to implement 1, with proofs |
| 3 | `LunaHealth`, `UpkeepProofs` | health, incidents, notices, with proofs |
| 4 | `Distillation`, `MCDistillation` | the pipeline with crashes, errors, overlap, splits; implements 1 |
| 5 | `CaptureInbox`, `CaptureOutbox`, `IntakeProofs` | capacity lock with stealing, import; capture leases, a third implementation of 1, with proofs |
| 6 | `CanonicalVault`, `VaultProofs` | file, revision, catalog and admission steps of racing writers, the owner's editor, reconciliation, tombstones, with proofs |
| 7 | `ArchivePurge` | previewed and resumed deletion |
| 8 | `Candidates`, `CandidateMaintenance`, `HumanKnowledge` | from evidence to a Memory; the owner's assertions and conflicts |
| 9 | `Governance`, `Quality` | frozen pages and two-phase leases around model calls |
| 10 | `IndexPublication`, `WorkingSet`, `CorpusRetention`, `Capacity` | staging and switching, membership, archiving |
| 11 | `Dreaming`, `ForegroundRetrieval`, `Reminders` | nightly stages, the two evaluators, delivery |
| 12 | `ManagedIntegration` | the installation in files others write too, cutover and rollback |
| 13 | `MCIntake`, `MCUpkeep`, `MCMemories`, `MCServing` | suites: one TLC run for several components |
| 14 | `OwnerProofs`, `RetrievalProofs`, `IntakeProofs`, `UpkeepProofs`, `DistillationProofs`, `IntegrationProofs` | proofs about the modules of 4 to 13 |

Left for later: a composition of `Distillation` with `Candidates` over a shared
queue; the repair gates
and the assessment of duplicates.

## 3. The modules and the code

### The queue and the pipeline

**`LeaseQueue`** states what a queue of leased work promises, without times,
counters or tokens: a claim takes an operation from whoever held it, only the
holder releases it, what is completed or given up stays so. `state` and `holder`
are its only variables. Three modules implement it: `LunaQueue`, `Distillation`
and `CaptureOutbox`.

**`LunaQueue`** is the table `luna_operations`. `row[o]` is a row; `by` names the
process the current token was given to and is not in the table: the code compares
tokens only. `mem[w]` is what a process remembers: the operation and
the token `claimLunaOperation` returned. `nextToken` stands for `randomUUID`.
Every action is one transaction:

| Action | Code |
|---|---|
| `Enqueue`, `Claim`, `Complete`, `Fail` | `enqueueLunaOperation`, `claimLunaOperation`, `completeLunaOperation`, `failLunaOperation` and `failLunaOperationLocally` |
| `Split`, `NotSplit` | `splitLargeSchemaInvalidBatch`, which runs after the failure in another transaction |
| `LoseLease`, `Crash` | "lease is not owned", the death of a process |
| `Retry` | `retryOperation`, `retryBlockedLunaOperations` |
| `CloseLifecycleOnly` | `recoverNextBlockedLifecycleOnlyBatch` |
| `OtherWorkSucceeds`, `OtherWorkFails` | reports of governance, quality and duplicate work to the shared health |
| `TimePasses` | the clock: `lease_until`, `next_retry_at`, or the six-hour cooldown |

The clock is abstracted to the flag `due` of a row and `last_success_at >
updated_at` to the flag `evidence`; the health of the model to a Boolean that may
change whenever a report could change it. `LunaHealth` has the details.

**`LunaHealth`** is `luna_health_state` (`health`), `model_health_incidents`
(`incidents`) and the digests of the notices ever prepared (`notices`). A report
carries `now` (the queue) or `started`, the time the Worker's iteration began
(governance, quality, duplicates). `Fail` is `updateHealthForFailure`, `Succeed`
is `updateHealthForSuccess` with its three branches, `PrepareReminder` is
`prepareNextModelHealthReminder`. `successes` is a history variable.

**`Distillation`** follows `runWorkerOnce` through the steps of one session.
`worker[w].at` names the next transaction or model call of a Worker's program and
its other fields are the local variables that live across it (selected events,
the input of a consolidation, the claimed operation, whether it is inside the
`try` block of `runNextLunaWork`). The tables are `event`, `batch`, `op`,
`range` (the payload of a consolidation), `cons` and `cursor`; `ingested` records
which Batches reached `createAgentCandidate`. An exception in the `try` block
becomes a local failure of the operation (`Throw`, `FailOperation`, `Mirror`),
one outside ends the iteration. The queue's policy is reduced to what the
pipeline can tell apart, and the module is itself shown to implement `LeaseQueue`,
because it inserts, closes and gives up operations outside the queue's own code.
The preparation steps (`Select`, `Assign`, `Poll`) run only while Dreaming is
disabled (`worker/main.ts:444`); when it is enabled only the work already queued
is drained. The module models the first case.

### What comes in

**`CaptureInbox`** (`capture/inbox.ts`, `inbox-files.ts`). `hook[h]` is the
progress of a hook through `acquireInboxLock`, the count of the pending files, the
rename of its file and the `finally` block; `inboxLock` is the lock directory with
whether it is two seconds old. `ImportEvent`/`ImportNote` commit the row, `Unlink`
removes the file in another step, so that a Worker that dies in between imports
again. `robbed` is a history variable.

**`CaptureOutbox`** (`capture/index.ts`, `retention.ts`) is `capture_events`: claim,
complete, fail, dead letter, the hand-over to dreaming and the removal of old
payloads. In the repository only tests call claim, complete and fail; the code is
exported, so the module models it. A token is the event with the number of the
claim, since every claim increments it.

**`Candidates`** (`candidates/index.ts`, `retention.ts`, `worker/governance.ts`,
`worker/candidate-maintenance.ts`) is the life of the candidates of one
fingerprint. `evaluator[w]` is where an evaluation stands: it reads the candidate,
may require the model's assessment of just this evidence, reserves the candidate
(`promotion_generation`), writes the Memory and promotes. `operation` and
`assessment` are the rows of the model's work, by candidate and evidence generation.
**`CandidateMaintenance`** is the weekly window and the anomalies it evaluates; it
extends `Candidates` and holds `CandidatesSound`, which is about both.

**`WorkingSet`** (`capacity/index.ts`) is one space: the Worker loads the inputs,
ranks them in memory and replaces the exclusions in a transaction; meanwhile
Memories are written, archived, protected and read, which the triggers of the
schema turn into changes of `member`. **`CorpusRetention`**
(`capacity/corpus-retention.ts`) is the schedule with its lease, plans, and the
check and archiving of each item. **`Capacity`** holds
`CapacityKept`, which is about both.

### What is kept

**`CanonicalVault`** (`vault/index.ts`, `vault/active-capacity.ts`). `job[w]` is a
call of a process: a write (`writeCanonicalMemory`), a reconciliation, or a purge of
one Memory; `pc` is its next step. A write asks for an admission (`RecoverAdmissions`,
`Reserve`), reads the file and compares it with what its caller had seen
(`ReadFile`, `CheckReconciled`), keeps the former revision (`KeepPrevious`), compares
again and renames (`Compare`, `Rename`; `LinkFile` for a new Memory), writes its
own revision, verifies, updates the row where it still has the identity it read
(`CommitCatalog`) and releases the admission. `file`, `revisions`, `catalog`, `rows`
and `admission` are the file system and the tables; a content is a record that
stands for one content identity. `Edit` is the owner's editor, `OrderPurge` an accepted
purge. `unadmitted` is a history variable.

**`ArchivePurge`** (`purge/index.ts`) treats a write of the Vault as one action and
models the run above it: backfilled deadlines, preview, the staging copy, the four
deletions of an item each with its state, resumption, refusal, and single purges of the
operator.

**`HumanKnowledge`** (`candidates/human.ts`, `operations/remember.ts`,
`remember-document.ts`, `worker/human-conflicts.ts`): an assertion is an operation
row, perhaps a conflict, the archived predecessor, the successor, the completed row
and the settled conflict, in that order and each on its own. A file that is replaced is
compared (`CompareContent`) and renamed (`ArchivePredecessor`, `ReviseDocument`) in two
steps; the history variable `overtaken` has the commands whose file changed in between.
The assessment is a model call (`AskAssessment`), the INSERT of its answer
(`StoreAssessment`) and the end of its operation, with a death, a failure or the end of the
lease between any two, and the answer of an overtaken Worker (`LateAnswer`).

**`Governance`** (`governance/`): occurrences become obligations, a run freezes the
revisions it covers, a page is leased, reviewed, applied action by action
(`ReadCovered`, `ActOnTarget`, `RecordAction`, `PageApplied`) and only a finished run
moves the cursors. **`Quality`** (`quality/pipeline.ts`, `enqueue.ts`) is the compact
pipeline of one Memory: items by source revision, a draft, its validation, and its
publication as an agent revision or as a summary. **`Dreaming`** (`dreaming/`) is a
night's run: the claimed segments, chunks, merging into items, judging, and
`apply.ts` with its comparison to what is remembered, and rollbacks.

### What is served

**`IndexPublication`** (`retrieval/index.ts`, `index-coordinator.ts`, `snapshot.ts`,
`worker/main.ts`): `builder[w]` is a step of the cycle that builds, completes, loads
into the foreground thread and marks the generation published; `thread[w]` is that
thread and the snapshot it serves. **`ForegroundRetrieval`** (`foreground-*.ts`,
`packs.ts`, `shadow-worker.ts`) has the lane with its one request and the Shadow
evaluator, both of which charge the context epoch. The receipt of an observation and the
end of its evaluation are two steps (`ShadowCommit`, `FinishShadow`), between which the
Worker may die and observe the event again; a prompt that finds no epoch has a start's
receipt and its own. **`Reminders`** (`review/`) is the
review inbox and the delivery of reminders by two dispatchers.

**`ManagedIntegration`** (`integration/managed.ts`, `cutover.ts`): the files are records of
what MemStore put in and what others did. A command plans from what it reads, as the code
does, and `command.todo` is the list of steps it then takes one by one: `copy` to a backup,
`write` if the digest is still the expected one, `undo`, `look` again, and the notes in
the manifest. `CompareDigest` and `RenameFile` are two steps, so the window between the
digest comparison and the rename is there (an edit in it is lost), and an uninstall writes
without comparing again. The owner and the host write at any time; only the owner's own
switch of the native setting while a cutover is on is left out. Commands run one at a
time, as the owner types them, and may die or fail after any step. What the model shows
beside its properties: after a crash in the middle of an install there is no manifest and
the next install refuses what it finds; after a crash between the two writes of a cutover
both the rollback and the setup refuse, and only an edit by hand helps; the hashes of
trusted hooks that Codex writes into `config.toml` make uninstall and repair refuse, by
design.

## 4. What the runs check

All runs are exhaustive for their bounds.

| Run | Question | Answer |
|---|---|---|
| `LunaQueueSafety` | two processes, a lease that runs out under its holder | only the last claimer completes or fails an operation (`OneOwner`); fast retries and attempts stay in budget; the queue implements `LeaseQueue` |
| `LunaQueueSplit` | room for the halves of a split, one explicit retry | giving a split operation up never undoes what happened to its row meanwhile |
| `LunaQueueLiveness` | two operations, one process that may die | each is completed, given up or visibly blocked (`EveryOperationSettles`) |
| `DistillationCrash` | a Worker that dies between any two transactions, three events | nothing skipped (`NoBatchSkipped`, `SessionEndCovered`), closed operations leave nothing undone (`CompletedIsDone`), ranges disjoint, checkpoints reusable, and what was said before a SessionEnd is ingested at last or an operation is visibly blocked (`EndedSessionIsHeard`) |
| `DistillationFault` | a database error at any step in the `try` block, a split, an explicit retry, in any combination, two turns | no event is left in a Batch that was given up (`NoEventStranded`); every live consolidation is the one the session's row names; the cursor advances; `LeaseQueue` implemented |
| `DistillationOverlap` | two Workers, one lease that runs out | an event enters one Batch only (`EventsAssignedOnce`) |
| `Intake` | three hooks before an inbox for one file; capture leases; a candidate's promotion between crashes; capacity made from inputs that change | `InboxSafe`, `OutboxKept`, `CandidatesSound`, `CapacityKept` |
| `Upkeep` | a night's dreaming, governance runs, the model's outages, quality items, with crashes and the owner's edits | `DreamingKept`, `GovernanceKept`, `OneOpenIncident`, `IncidentsKept`, `CompactKept` |
| `Memories` | two writers and an editor on two Memories at a limit of one; a purge; the owner's assertions | `VaultSafe`, `AuthorityKept`, `PurgeKept`, `HumanKept` |
| `Serving` | an index built and pruned while readers hold the former; two evaluators for one event; two dispatchers; an installation, an edit, a fault and two cutovers | `IndexSafe`, `InjectionAccounted`, `RemindersKept`, `IntegrationKept` |
| `DistillationSkipped`, `QualityEdited` | expect a violation | section 7 |

The last four passing runs are *suites*. The components of a suite keep no common
state in their modules, so a behaviour of the run is one of a single component,
chosen in the variable `part` at the start while the others stand still: the state
space is the sum of theirs and not the product, and an invariant of the suite is
the conjunction of theirs. Where components do meet (a write of the Vault under
`Governance`, `Quality`, `ArchivePurge` or `HumanKnowledge`), the caller's module has
the whole effect of `writeCanonicalMemory` as one action with its possible refusal,
and `CanonicalVault` shows what that action may assume.

What the compound properties say:

| Property | Parts |
|---|---|
| `InboxSafe` | what a hook reported as captured is in a file, a row or the quarantine; the limit is exceeded by no more files than locks were stolen from live hooks; no sensitive body is stored |
| `OutboxKept` | `CaptureOutbox` implements `LeaseQueue`; only the report of the current token ends a claim; a payload is there while somebody may still be given it |
| `CandidatesSound` | a Memory always has a candidate promoted, or reserved, for it with just the evidence it was written for, and the model's support where the gate demands it; an anomaly is persistent only after two anomalous weeks in a row |
| `CapacityKept` | what ranking leaves out is never protected; a rebalance keeps low water; a retention plan archives only the unprotected above the target and nothing the owner restored |
| `DreamingKept` | no activity is taken as dreamed about unread, no candidate lost or used twice, nothing rolled back written again; no step takes a fact out of a Memory except for a conflicting one |
| `GovernanceKept` | a finished run has applied what it froze; a cursor passes only what was covered; governance replaces only what the model saw; finished stays finished |
| `IncidentsKept` | incidents end exactly when they should, and by no single call (`RecoveryIsExact`); each notice prepared is of a new digest (`EveryNoticeIsNew`) |
| `CompactKept` | no step puts a compact beside a body it was not judged for, nor on what a human wrote |
| `VaultSafe` | `ActiveWithinLimit`, `OneSuccessor` (no fork), `RebuildKeepsRevisions` (the database can be rebuilt from the files) |
| `AuthorityKept` | a human's Memory stays the human's, a tombstone a tombstone |
| `PurgeKept` | a run removes only the content it previewed and staged; what is half purged is resumed |
| `HumanKept` | a settled conflict has the Memory it tells of; only a rename that follows its comparison too late overwrites the owner's later text; an assessment that is stored is not asked for again |
| `IndexSafe` | the active index is whole; no thread serves an index or working set older than the one marked published |
| `InjectionAccounted` | the total of an epoch is the sum of its receipts, each evaluator alone keeps the hard limit of an epoch and repeats nothing recorded, also when an event is observed again; one foreground receipt per event |
| `RemindersKept` | two dispatchers never show one reminder; acknowledged stays so, a late answer of the notifier does not undo a snooze |
| `IntegrationKept` | no command overwrites what others wrote since it looked; a rollback and an uninstall restore what was there, through repairs, upgrades and crashes; native memory and injection are never on at once |

Each property of a passing run has a faulty variant of some definition (the
operators commented "Faulty") under which TLC finds it violated: the property
depends on that detail of the code.

## 5. Bounds and fairness

- Two processes suffice for a takeover: only the current and a former holder
  differ, and a third would be another former holder. Two operations give the
  order between kinds and ages; a split needs two more rows, hence three in
  `LunaQueueSplit`, where the parent is alone.
- `FastRetries` is 1 (6 in the code) and `MaxRecoveries` 1 (2 in the code): each
  bound is reached and exceeded by one in the runs. The theorems hold for every value,
  and `AttemptBudgetAlways` also for the crashes and explicit retries that
  `LunaQueueSafety` leaves out.
- The thresholds of `LunaHealth` are 2 failures over 1 tick, 2 ticks and 3
  schema errors (3 over 2 minutes, 30 minutes, 5 in the code): they keep their
  order and each is reached. `MaxFailures`, `MaxTime`, `MaxIncidents` and
  `MaxTransitions` cut runs off after the second incident.
- Three events give two Batches, a resumed session and a second consolidation;
  `MaxCrashes`, `MaxFaults`, `MaxSplits`, `MaxOverruns`, `MaxHelp` are 0 or 1 and
  allow that fault at every step. `DistillationFault` combines an error, a split and
  a retry and has two turns; there `FastRetries` is 0, so every failure blocks.
- *Intake*: three hooks are one in the critical section, the one that steals its
  lock, and the one that then finds the directory gone; a capacity of one file makes
  the limit bite. Three claims of an event exceed `ClaimLimit` by one. Two
  sources and two candidates give a second evidence generation and a successor after an expiry;
  four windows, an anomaly that ends and returns. A corpus of three over a target of one
  archives twice, which a plan can be interrupted between.
- *Upkeep*: a second revision is the change made meanwhile; one activity, one dream
  and two dreamed Memories give a new Memory and one that is merged into; two governance
  runs over two Memories give a run that covers what the former one did itself. With a
  `RewriteLimit` of 0 the first loss stops a draft; the path of a rewrite is in `QualityEdited`.
- *Memories*: two writers at a limit of one active Memory, three revisions and an
  edit by hand: one revision read, one written by each side. Two archives,
  three versions of a content (previewed, restored, archived again). Three identifiers and
  four texts of human knowledge; two model calls (`MaxCalls`) for one assessment, which a
  loss before the INSERT takes.
- *Serving* (the longest run: two million states, about two and a half minutes): two indexes of two batches, so that one is retired while the other is
  built, and one Worker; one start and one prompt over two epochs; two
  receipts (`MaxReceipts`), which are enough for both evaluators in one epoch and for an event
  observed twice (the theorem holds for any number of them); limits of one token, so that the second
  pack of an epoch passes them; two dispatchers; one edit, one fault and two cutovers
  (or an adoption and a cutover), so that a rollback has an earlier one under it.
- Constants that are `FALSE` in a suite (`SlowHooks`, `LateProtection`, `Overlap`,
  `OwnerBetween`, `SelectDies`, `GovernorsOverlap`, `HumansOverlap`) switch on the
  behaviour of a finding of section 7; everything else the modules describe is on.
- `CHECK_DEADLOCK FALSE` is set where runs end when all rows are final or a bound is
  reached: everywhere but in `Distillation`, whose Worker always has a step.

Fairness is weak but for one conjunct. A Worker goes on (`runWorker` polls for ever,
`worker/main.ts:655-732`, and catches the exceptions of an iteration), an idle one
claims what it can, and deadlines pass because they are clock times. Nothing
makes the model succeed, an operator act, or a session end. In `LunaQueue`, `Claim`
is fair per process and not per operation: that the oldest row is reached
follows from the order of the selection.

In `Distillation` a consolidation orphaned by a crash (section 7) is preferred at
every claim in a model in which delays have no length, and would hide everything
behind it. In the code it cannot: its lease, renewed by each claim, lasts 300 seconds
(`worker/distillation.ts:1202`), while the Worker polls every 1 to 30 seconds
(`worker/main.ts:665-700`), so many claims happen while it cannot be taken. `FairSpec`
says so with `[]<><<Abandoned = {} /\ \E w \in Worker : Claim(w)>>_vars`: again and
again a claim comes while no abandoned operation is claimable. With it
`EndedSessionIsHeard` is checked at three events with one crash, the orphan included.

The suites have no fairness and no liveness: their components advance one step per
iteration of the Worker, and the code bounds neither how long the owner, a model
or the work of other components may hold them up.

## 6. What is proved

The theorems hold for every value of the constants that the named assumptions of
the modules allow: the bounds are natural numbers, and the value that stands for
"nobody" or "nothing" is not one of the things. Where a theorem assumes more, the
table says so. In each module an inductive invariant is proved first; the
properties follow from it. The three-step argument (initial states, every step,
what follows) is the same everywhere, and the step has a lemma per action or group of
actions with the same effect.

| Module | Theorem | States |
|---|---|---|
| `LunaQueueProofs` | `TypeCorrect`, `OneOwnerAlways`, `AttemptBudgetAlways` | `Spec => []` of `TypeOK`, `OneOwner`, `AttemptBudget` |
| | `ImplementsAlways` | `Spec => ImplementsLeaseQueue` |
| `DistillationProofs` | `PipelineInvariant`, `DistillationTypes`, `NoEventStrandedAlways`, `EventsAssignedOnceAlways` | `Spec =>` `[]TypeOK`, `[]NoEventStranded`, `EventsAssignedOnce` |
| | `ImplementsLeaseQueueAlways` | `Spec => ImplementsLeaseQueue` |
| | `RangeInvariant`, `RangesDisjointAlways`, `CursorAdvancesAlways` | `[]RangesDisjoint`, `CursorAdvances`, if `OneAtATime` |
| | `ConsolidationBoundAlways` | `[]ConsolidationBound`, if `OneAtATime` and `MaxCrashes = 0` |
| | `ResultInvariant`, `NoBatchSkippedAlways`, `CompletedIsDoneAlways`, `CheckpointReusableAlways` | `[]` of each property, if `OneAtATime` and `MaxFaults = 0` |
| | `SessionEndCoveredAlways` | `[]SessionEndCovered`, if also `MaxSplits = 0` |
| `VaultProofs` | `OneSuccessorAlways`, `ActiveWithinLimitAlways`, `RebuildKeepsRevisionsAlways`, `VaultSafeAlways` | `Spec => []VaultSafe` and its three parts |
| | `AuthorityKeptAlways` | `Spec => AuthorityKept` |
| `UpkeepProofs` | `OneOpenIncidentAlways`, `RecoveryIsExactAlways`, `EveryNoticeIsNewAlways`, `IncidentsKeptAlways` | of `LunaHealth` |
| | `QualityInvariant`, `CompactKeptAlways` | `QualitySpec => CompactKept` |
| | `GovernanceInvariant`, `GovernanceKeptAlways` | `GovernanceSpec => GovernanceKept`, if `GovernorsOverlap = FALSE` |
| | `DreamingInvariant`, `KnowledgeKeptAlways`, `ItemsSettledAlways` | `DreamingSpec => KnowledgeKept`, and `[]` of `EachInOneItem`, `EndedIsApplied`, `RolledBackStays` |
| | `DreamingKeptAlways` | `DreamingSpec => DreamingKept`, if `SelectDies = FALSE` |
| | `GovernanceTyped` | `GovernanceSpec => []GovernanceTypeOK`, also if governors overlap |
| | `UpkeepTyped` | `AllSpec => []UpkeepTypeOK` of `MCUpkeep` |
| `OwnerProofs` | `PurgeInvariant`, `OnlyOrderedContentAlways` | a run removes only what was previewed and staged |
| | `PurgeKeptAlways` | `PurgeSpec => PurgeKept`, if `LateProtection = FALSE` |
| | `HumanInvariant`, `SettledIsWrittenAlways` | `HumanSpec => []SettledIsWritten` |
| | `HumanKeptAlways` | `HumanSpec => HumanKept`, if `HumansOverlap = FALSE` |
| | `MemoriesTyped` | `AllSpec => []MemoriesTypeOK` of `MCMemories` |
| `RetrievalProofs` | `IndexTypedAlways` | `IndexSpec => []IndexTypeOK`, for any number of index Workers |
| | `IndexInvariant`, `IndexSafeAlways` | `IndexSpec => []IndexSafe`, if there is one index Worker |
| | `ForegroundInvariant`, `InjectionAccountedAlways` | `ForegroundSpec => []InjectionAccounted` |
| `IntegrationProofs` | `IntegrationInvariant`, `IntegrationTyped` | `IntegrationSpec => []IntegrationTypeOK` |
| | `IntegrationKeptAlways` | `IntegrationSpec => IntegrationKept` |
| | `RemindersInvariant`, `RemindersKeptAlways` | `RemindersSpec => RemindersKept` |
| | `ServingTyped` | `AllSpec => []ServingTypeOK` of `MCServing` |
| `IntakeProofs` | `InboxInvariant`, `InboxSafeAlways` | `InboxSpec => []InboxSafe` |
| | `OutboxInvariant`, `OutboxCorrect` | `OutboxSpec => OutboxKept`, with the refinement of `LeaseQueue` |
| | `CandidatesInvariant`, `CandidatesSoundAlways` | `CandidatesSpec /\ MaintenanceSpec => []CandidatesSound`, if `Overlap = FALSE` |
| | `MaintenanceInvariant` | anomalies are of windows in a row |
| | `CorpusInvariant`, `WorkingSetInvariant` | and from them `ProtectedIsRankedAlways`, `LowWaterHeldAlways` |
| | `CapacityKeptAlways` | `CorpusSpec /\ WorkingSetSpec => CapacityKept`, if `OwnerBetween = FALSE` |
| | `CandidatesTypedAlways` | `CandidatesSpec => []CandidatesTypeOK`, also if evaluations overlap |
| | `IntakeTyped` | `AllSpec => []IntakeTypeOK` of `MCIntake` |

None of these hypotheses is a convenience: without it TLC finds the property violated
(section 7 and the observations below it), and the theorem says that nothing else can. One
Worker, evaluation or governor at a time (`OneAtATime`, `Overlap`, `GovernorsOverlap`, one index Worker) is
what the lock of the Worker process (`worker/main.ts`) gives as long as no lease runs out in a
live Worker; one command of the owner at a time (`HumansOverlap`) is how they are typed. The
others name the window of a finding or an observation: `LateProtection`, `OwnerBetween`,
`SelectDies`, and in the pipeline a Worker that dies between the last transaction of a
consolidation and the completion of its operation (`MaxCrashes`), a database error after a
result was stored, which puts the Batch back (`MaxFaults`), and a split, whose children
come after later Batches (`MaxSplits`). Everything else may happen in these theorems too:
crashes, splits, model failures, leases that run out and retries, as often as one likes.

Why the properties need more than themselves:

*The queue.* `OneOwner` compares what a process remembers with a field of the row,
and says nothing about why a token that matches must have been given to that
process. `TokensUnique` adds that every token a process remembers was handed out
before and that no two working processes remember the same one, `LeaseNamed` that a
row names a process exactly while it is in "processing". `Claim` keeps them because it
hands a fresh token out; `Complete` and `Fail` because they clear the name. With
that, a process that passes the lease test of the code is the holder of the abstract
queue, which is all the refinement needs: `StepRefines` has one lemma per action, and
every other action is a stutter. `AttemptBudget` needs to know how each attempt was
paid for (`AttemptsPaid`): a row that is leased to no live owner, or whose lease ran
out, still has room for the attempt of its next claimer, because a crash or an overrun
was counted for it.

*The outbox.* The same with the number of the claim for a token: `TokensHandedOut`
and `LeaseNamed`.

*The pipeline.* Four layers, each on the one below. `Inv`, for any number of Workers:
Batches are numbered without a gap (`Numbered`); each that was not split has an event of its
own and no event is in another (`Filled`), so there is always a number for the next one;
only the operation of a split Batch is given up, and a row names a Worker exactly while it
is leased (`OpsAgree`). `RangeInv`, for one: ranges are made in order (`RangesOrdered`); the
unfinished one follows the cursor or, when the only Batch was ingested on its own meanwhile,
ends where the cursor is (`CursorKnown`); and a Worker that advances the cursor itself works on
the only Batch there is (`WorksOn`, `TwoHalves`), which makes it the first one. That is why
the blind write of the cursor is harmless. `OwnInv` and `BoundInv`: a Worker owns its
operation until it is done (`OwnAt`), and a row is completed only while its Worker is about to
close the operation (`ClosingSoon`), so that no range is queued over a live one. `ResultInv`:
what is distilled is not touched (`Steady`), so that the unfinished range is of distilled
Batches (`DoneRange`) and the results a Worker read are still the ones there are
(`HasDone`). `SessionEndCovered` adds that events are put into Batches in order
(`EventsInOrder`), for which a selection leaves nothing before a SessionEnd behind (`Takes`).

*The Vault.* That no history forks is a fact about contents in flight: what each
unfinished call has read and rendered (`CallsOK`), that contents of one revision have
one author whatever was edited (`Lineage`), that a rendered revision is not yet anywhere
else (`PendingIsNew`), that a row has gone past every revision that was replaced
(`RowsBelow`), and that a body does not come back once a tombstone of its revision is
there (`BuriedStays`). The limit counts rows and admissions together: `SlotsOK` bounds
the cardinality of `Slots`, the active rows that were admitted and the admissions, and
`Admitted` says that a call which believes itself admitted holds one. A rebuild loses
nothing because a revision file is written before the row that names it (`Ready`,
`Recorded`) and is removed only for a Memory that was ordered to be purged
(`NeverPurged`, `Tombstones`).

*Health.* The model is unhealthy exactly while an incident is open (`OpenAgrees`), a probe
is stored exactly since the first success and only a date before the last failure keeps it
waiting (`ProbeKnown`), and no notice says anything yet of the transition that is pending
(`NoticesOld`), so that the next one is new.

*Quality.* A Worker that publishes holds a draft that was judged (`Judged`); items and
bodies are never ahead of the current revision (`ItemsAreOld`, `BodyIsOld`), and a Worker
that took a Memory for an agent's which the human has written since holds a revision older
than the body (`Outrun`), which is what the Vault's comparison then refuses.

*Governance.* A step works on a page of the unfinished run, of the phase it is in
(`OneStep`); runs are made one after the other, and a run that ended did so in its last phase
(`RunsInOrder`); a cursor stands where an earlier run was made (`CursorsBehind`). That no
change is passed over then is `Answered`: the unfinished run has linked or satisfied every
occurrence up to its time, and has frozen every Memory changed since the weekly cursor in a
page, which is applied once the run leaves the phase (`PagesFrozen`).

*Dreaming.* A batch decides from what it read and locks nothing. What saves it is
`DecisionsHold`: each claim has one decision; no listed Memory states yet what the batch still
writes; and a Memory it still revises for the first time has the text that was read, since
the owner's revision makes it the owner's, which is not revised. `MemoriesDiffer` adds that
no two listed Memories state the same, so that what was rolled back under a statement is
alone with it, and `CandidatesMerged` that an item is kept under one of its own members.

*Reminders.* A reminder being shown is not due (`ShownNotDue`), so no second dispatcher
selects it, and what a dispatcher found is in the table (`FoundIsReminder`).

*Purge.* While a body is being removed its staged copy is of the content that was ordered
and its item is open (`BackedUp`), and an item is open only in a run that is
(`OpenInRun`): with these a resumed run removes only what it previewed. `HalfPurgedIsResumed`
needs that no review has opened on a half purged Memory (`Unreviewed`).

*The owner's commands.* Identifiers are given out in order (`InOrder`), each to one
command (`GivenOut`), so that what a command writes is a new Memory; `SoFar` is what a
command has behind it at each of its steps, and stays there whoever else runs. With one
command at a time (`OneCommand`) the predecessor is archived when its successor is written.

*The index.* Marks stay behind the catalog (`MarksBehind`), the active index is whole and as
new as the mark (`ActiveWhole`, `ActiveAsNew`), a build is of the generation it leased
(`BuildOf`), what a thread was given to load is still there (`LoadedOf`) and what pruning has
chosen is retired (`PrunesRetired`).

*The foreground.* The two evaluators read an older total than the one they add to, so the
hard limit is not an invariant of the epoch; it is one of each evaluator alone. `Sound` says
so of what an evaluator has put into an epoch (`Spent`) with the selection it has not recorded
yet (`Pending`), and that a selection repeats nothing of the evaluator's receipts that are
still there (`NothingRepeated`); an evaluator that dies after a receipt loses its selection and
nothing else, so an event observed again keeps both. It rests on a start's pack being given to
an epoch that has no receipt yet, and on `PackLimit <= EpochLimit`. `Rows` keeps receipts apart
by their identities when their items are removed, `ByForeground` ties those of the foreground
to the reservation. That the total is the sum needs the cardinality of a set of pairs
(`Tokens`), since the prover has no sums.

*The inbox.* What a hook reports as captured is stored (`Accepted`), files and rows are of
events that may be stored (`Sorted`), and `RoomKept` counts the files, and the hooks that have
found room for one (`WritersInside`), against the capacity and the thefts, of which there are
at least as many as hooks inside without the lock (`Intruders`).

*Candidates.* A reservation is for the evidence there is and was earned, and a Memory has a
promoted candidate or one reserved for the same evidence (`CandidateSound`), where `Demanded`
is the support the gate asks for; and what an evaluation remembers between two transactions
is still so (`Remembers`), which one evaluation at a time makes true.

*Retention.* An archived or restored Memory has gone past the revision its plan was made
from (`PastPlan`), so no plan archives it twice, and what a tick has checked still holds at
the write (`CheckedStill`) when nobody comes between.

*The working set.* What is left out is neither protected nor fixed (`LeftOut`), although it
was ranked from older rows: a row that is still of the revision that was read is as
protected and fixed as it was then (`ReadBehind`). Low water is a fact about cardinalities:
`FilledUp` says that a ranking which leaves anything out keeps low water in.

*The installation.* A command plans everything from one look at the files and then works
through a list of steps while others write the same files, so the invariant is about what is
left of that list. The list is ordered by a rank of its steps (`InOrder`): each step is
there once, and the first has the lowest rank, so that what is left after it is the rest of
the set; that is how a theorem can speak of lists that are put together from optional
parts. A step that is left keeps what others put into its file as long as they have not
written it again (`WritesKeep`). The cutover's files are each as before or as after it
(`HalfWay`), and of the two memories the one that goes off is written first, also on the way
back (`OffBeforeOn`): never both. A file that an uninstall or a rollback has not restored yet is
still to be written (`Restores`), back to what the manifest or the cutover recorded, and
these are sound (`Recorded`, `Planned`): an entry of the manifest differs from what was there
by MemStore's own part and has a backup of the rest. That a backup is of what the plan
read, although it is copied later, is `Installs`: if somebody wrote between, the file has gone
beyond what the plan read and never comes back to it, so its write is refused and the
manifest that names the backup is never made. An edit between the comparison of the digest
and the rename is lost; `edited` marks that file and the theorem excepts it, as the
property does.

*The suites.* A suite's behaviour is one of a single component, chosen at its start, in which
the others stand still; so it is a behaviour of each component (`IntakeParts`, `UpkeepParts`,
`MemoriesParts`, `ServingParts`), and the type invariant of the suite follows from those of
its components. For candidates, governance and the index these had to be proved again from
weaker invariants: a type must not depend on evaluations, governors or index Workers coming
one at a time, as the properties above do.

What stays with TLC, and why. Liveness (`EveryOperationSettles`, `EndedSessionIsHeard`)
is out of the prover's reach, as are the weak fairness conditions under which it holds. The runs
that expect a violation are counterexamples, and theirs to find. Every other property of a passing run is
stated by a theorem, under the hypotheses in the table.

## 7. Where code and documents disagree

Two runs expect a violation:

| Run | What it shows |
|---|---|
| `DistillationSkipped` | A database error when the last Batch's operation is completed marks a Batch whose result is stored as retrying. The consolidation, claimed first, reads completed Batches only and moves the cursor past it. |
| `QualityEdited` | The summary of a human-authored Memory is stored without a look at the file or the current revision: a text edited meanwhile outside the program is summarised under a revision that never had it. |

The others have a property in the module that TLC finds violated under the constants
named here (the rest as in the suite of the component):

| Module, property | Constants | What happens |
|---|---|---|
| `Distillation`, `ConsolidationBound` | `DistillationFault` with `MaxCrashes = 1` | A Worker dies after the last transaction of a consolidation, the session goes on and its only row is taken by the next generation. Each later claim of the old operation throws and ends the iteration; nothing ever closes it. |
| `Distillation`, `CheckpointReusable` | `DistillationCrash` with `MaxFaults = 1` | A database error when a finished consolidation is closed makes its row unfinished while it holds the final result, which no retry accepts as a checkpoint. |
| `Distillation`, `SessionEndCovered` | `DistillationCrash` with `MaxSplits = 1` | A Batch split after the Batch of its SessionEnd exists: its children are numbered above the cutoff and the consolidation leaves them out. |
| `CaptureInbox`, `WithinCapacity` | `SlowHooks = TRUE` | The lock is stolen from a hook that holds it for two seconds, and the robbed hook then removes the lock of its successor: more files than the limit. |
| `CanonicalVault`, `WritesAreAdmitted` | one Memory, `MaxEdits = 0` | A restore that starts from a file just archived asks for its slot before the row is archived too, and gets none because the Memory counts as active; the slot is given away and the restore commits. |
| `Candidates`, `ReservationEnds` | suite | A Worker that dies after reserving a candidate's promotion leaves it reserved: it does not expire and is not evaluated for other evidence. |
| `HumanKnowledge`, `KeptIsUntouched` | suite | A resolution that dies after writing its Memory leaves the conflict open; the owner may then keep the existing Memory, and both are active. |
| `ArchivePurge`, `HalfPurgedIsResumed` | `LateProtection = TRUE` | A resumed purge whose Memory has become protected is recorded as skipped although half of its files are gone. |
| `CorpusRetention`, `ArchivesOnlyExcess` | `OwnerBetween = TRUE` | A Memory protected between the inventory and the archiving write is archived. |
| `Governance`, `FinishedStays` | `GovernorsOverlap = TRUE` | The failure of a page is written to a run that another Worker has completed, which reopens it. |
| `Governance`, `ReviewedCanBeApplied` | suite | A page that acts on a Memory of the run's own chain the owner has edited since is refused and tried first at every iteration; no later page is reviewed. |
| `Dreaming`, `ClaimedIsRead` | `SelectDies = TRUE` | A Worker that dies while selecting has claimed Sessions without their chunks: the resumed run does not find them eligible and ends, and their activity is never read. |
| `Dreaming`, `DreamedIsListed` | suite (`StepDies = TRUE`) | A Memory is written before the row that lists it. A Worker that dies in between writes it again when it resumes; the first one is listed nowhere and survives the rollback. |
| `IndexPublication`, `IndexSafe` | two `IndexWorkers` | One Worker's pruning deletes the snapshot the other is about to make current. |
| `ForegroundRetrieval`, `FailureNotReplayed` | suite | The Shadow observation records receipts for events whose foreground request was refused, or came too late, before it had reserved them. |
| `ForegroundRetrieval`, `HardLimitKept` | suite | Two evaluators that read the total at the same time pass the hard limit of the epoch together; the transaction of a receipt does not look at it. |
| `ForegroundRetrieval`, `OncePerEpoch` | suite | Two evaluators choose the same Memory for one epoch, and one chosen before its receipt was removed is chosen again. |
| `Reminders`, `DeliveringIsAttended` | suite | A dispatcher that dies leaves a reminder in 'delivering', which no query selects again. |

`RecoveryIsExact` describes an oddity instead of denying it: a success dated at
the start of an iteration is kept as a probe (`COALESCE`, `luna/operations.ts:404`)
even if a failure of the same iteration is later, and then no number of successes
ends the incident until the next failure clears it.

Other observations, of behaviour no document promises otherwise:

- Two evaluations at once may set a promoted candidate back (`Overlap` in `Candidates`,
  `candidates/index.ts:1541`); two imports of one document at once make two Memories
  (`HumansOverlap`, `remember-document.ts:82-184`).
- A Worker that dies between the receipt of a Shadow observation and the end of the
  evaluation (`shadow-worker.ts:266`) observes the event again after five minutes and records
  another receipt; of a start, it opens another epoch.
- Quality items are retried without an attempt budget when the Vault reports a conflict
  (`vault/index.ts:862`).
- `dream apply` of the command line may run beside the Worker's (`dreaming/apply.ts:192-204`).
- An item refused by the Vault leaves its purge run 'failed', which is then resumed
  first for ever (`purge/index.ts:812`).
- The admission of a process that died while restoring a Memory is never released: its file is
  there and its row is not active (`vault/active-capacity.ts:41-47`).
- A foreground thread that could not load its snapshot answers `snapshot_unavailable` until
  the next revision of the index (`retrieval/foreground-ipc.ts:289`).

## 8. What is not modelled

Components without a module: the **model adapter** (`luna/index.ts`: process,
prompts, schemas; its outcomes are inputs), the **admission audit** (records only),
**repair** (gates over checks of other parts), **sensitivity** (patterns in
text; which events are sensitive is the constant `Sensitive`), the **runtime
database** (a transaction is an action, `SQLITE_BUSY` is a fault of `Distillation`), the
MCP server and command line of the **hosts** component and **projects, configuration and
views**. They are input and output, text, or sequential code with little state.

Within the modelled components:

- *Distillation*: Batches requested by `remember` (`source_selector`), several
  sessions at once (they share only the order of the queue, which `LunaQueue` has), sizes of
  events and prompts (any non-empty prefix of the eligible events may be selected).
- *Queue*: `recordLunaHealthProbe`, which only tests call.
- *Capture*: byte limits, redaction, private turns.
- *Candidates*: scores, diversity rules and groups; which evidence is eligible is a choice.
- *Vault*: snapshots and the supersession of several Memories. The plan accepts a window
  between the last check of a file and its rename
  (`src/superpowers/docs/plans/2026-08-06-233222-01-plan-memstore-implementation.md:198-200`):
  an edit of the owner in that window is overwritten. `CanonicalVault` and `HumanKnowledge`
  have it, and their properties allow for it.
- *Capacity*: retention values but for their order. *Governance*: which proposal a review
  makes, evidence pages. *Quality*: the assessment of duplicates (`quality/duplicates.ts`) and
  the category pipelines. *Dreaming*: requested runs, git evidence, reports.
- *Index*: embeddings and contents. *Foreground*: the socket protocol, prefetching, and of
  `packs.ts` and `recall.ts` all scoring and token estimates: a pack is any set the limits allow.
- *Reviews*: what the owner ticks in the inbox. *Purge*: restoring a backup by hand.

Two Workers are modelled in `LunaQueue`, `Distillation`, `Quality`, `CaptureOutbox` and
`CanonicalVault`; elsewhere the rule that one runs is assumed, and the constants above lift
it where that shows something. With two Workers in `Distillation`, one whose lease ran out still writes
its Batch result, the final row of its consolidation and the cursor, because those
transactions do not look at the lease; `DistillationOverlap` checks what holds nevertheless. With the constants of that
run TLC finds each property that section 6 proves under `OneAtATime` violated, `RangesDisjoint` once there
are three events.
