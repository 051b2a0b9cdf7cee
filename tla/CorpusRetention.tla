------------------------------ MODULE CorpusRetention -------------------------------
(***************************************************************************)
(* Competitive capacity archival (src/src/capacity/corpus-retention.ts): when  *)
(* the active memories exceed the high water, a preview names cold unprotected *)
(* ones, and applying it archives them one at a time until the target, over   *)
(* several ticks of the Worker and across its death. Fixed-capacity mode with *)
(* one aggregate; the order of the preview (retention value, priority) is a   *)
(* choice. A plan is numbered by its preview. An earlier episode of pressure  *)
(* may be open at the start.                                                  *)
(***************************************************************************)
EXTENDS Integers, FiniteSets

CONSTANTS
    Corpus,            \* memories
    CorpusLimit,       \* active memories at which pressure begins
    CorpusTarget,      \* active memories archival goes down to
    MaxCorpusRevision, \* bound on the revisions of a Memory
    MaxPlans,          \* bound on the plans
    OwnerBetween       \* may others protect or archive between an item's check and its write

ASSUME CorpusAssumption ==
    /\ IsFiniteSet(Corpus)
    /\ CorpusLimit \in Nat /\ CorpusTarget \in Nat /\ CorpusTarget < CorpusLimit
    /\ MaxCorpusRevision \in Nat /\ MaxPlans \in Nat /\ OwnerBetween \in BOOLEAN

VARIABLES
    corpus,       \* each Memory: active, revision, protection, and the plan that archived it
    pressure,     \* corpus_retention_pressure: the episode goes on to the target
    schedule,     \* corpus_retention_preview_schedule: lease and pending plan
    plans,        \* corpus_retention_plans: the items of each plan, and is it completed
    archiver,     \* the tick that applies a plan
    restored      \* pairs of a plan and a Memory it archived that the owner restored

corpusVars == <<corpus, pressure, schedule, plans, archiver, restored>>

Revisions == 0..MaxCorpusRevision
NoPlan == 0
ArchiverIdle == [pc |-> "idle", plan |-> NoPlan, left |-> {}, item |-> {}]
NoItems == [items |-> {}, revision |-> [m \in Corpus |-> 0], under |-> FALSE,
            recorded |-> FALSE, completed |-> FALSE]

CorpusTypeOK ==
    /\ corpus \in [Corpus -> [active: BOOLEAN, revision: Revisions, protected: BOOLEAN,
                              by: 0..MaxPlans]]
    /\ pressure \in BOOLEAN
    /\ schedule \in [leased: BOOLEAN, pending: 0..MaxPlans]
    /\ plans \in [1..MaxPlans -> [items: SUBSET Corpus, revision: [Corpus -> Revisions],
                                  under: BOOLEAN, recorded: BOOLEAN, completed: BOOLEAN]]
    /\ archiver \in [pc: {"idle", "claimed", "previewed", "apply", "write", "settle"},
                     plan: 0..MaxPlans, left: SUBSET Corpus, item: SUBSET Corpus]
    /\ restored \subseteq (1..MaxPlans) \X Corpus

CorpusInit ==
    /\ \E active \in SUBSET Corpus :
         corpus = [m \in Corpus |-> [active |-> m \in active, revision |-> 0,
                                     protected |-> FALSE, by |-> NoPlan]]
    /\ pressure \in BOOLEAN
    /\ schedule = [leased |-> FALSE, pending |-> NoPlan]
    /\ plans = [p \in 1..MaxPlans |-> NoItems]
    /\ archiver = ArchiverIdle
    /\ restored = {}

ActiveCorpus == {m \in Corpus : corpus[m].active}
Total == Cardinality(ActiveCorpus)
Free == OwnerBetween \/ archiver.pc # "write"

-----------------------------------------------------------------------------
(* Others                                                                   *)

ReviseCorpus(m) ==
    /\ corpus[m].active /\ corpus[m].revision < MaxCorpusRevision
    /\ corpus' = [corpus EXCEPT ![m].revision = @ + 1]
    /\ UNCHANGED <<pressure, schedule, plans, archiver, restored>>

\* A pin, an open review, verification or conflict: rows, not content.
ProtectCorpus(m) ==
    /\ Free
    /\ corpus' = [corpus EXCEPT ![m].protected = ~@]
    /\ UNCHANGED <<pressure, schedule, plans, archiver, restored>>

ArchiveByOwner(m) ==
    /\ Free /\ corpus[m].active /\ corpus[m].revision < MaxCorpusRevision
    /\ corpus' = [corpus EXCEPT ![m].active = FALSE, ![m].revision = @ + 1,
                                        ![m].by = NoPlan]
    /\ UNCHANGED <<pressure, schedule, plans, archiver, restored>>

RestoreByOwner(m) ==
    /\ ~corpus[m].active /\ corpus[m].revision < MaxCorpusRevision
    /\ corpus' = [corpus EXCEPT ![m].active = TRUE, ![m].revision = @ + 1,
                                        ![m].by = NoPlan]
    /\ restored' = IF corpus[m].by = NoPlan THEN restored
                   ELSE restored \cup {<<corpus[m].by, m>>}
    /\ UNCHANGED <<pressure, schedule, plans, archiver>>

-----------------------------------------------------------------------------
(* runScheduledCorpusRetention                                              *)

\* The claim is conditional on the lease; the check times are not modelled.
ClaimSchedule ==
    /\ archiver.pc = "idle" /\ ~schedule.leased
    /\ schedule' = [schedule EXCEPT !.leased = TRUE]
    /\ archiver' = [archiver EXCEPT !.pc = "claimed"]
    /\ UNCHANGED <<corpus, pressure, plans, restored>>

\* The five minutes of the lease of a Worker that died.
LeaseRunsOut ==
    /\ archiver.pc = "idle" /\ schedule.leased
    /\ schedule' = [schedule EXCEPT !.leased = FALSE]
    /\ UNCHANGED <<corpus, pressure, plans, archiver, restored>>

\* A pending plan that is recorded, not completed and not expired is taken up again.
ResumePlan ==
    /\ archiver.pc = "claimed" /\ schedule.pending # NoPlan
    /\ plans[schedule.pending].recorded /\ ~plans[schedule.pending].completed
    /\ archiver' = [pc |-> "apply", plan |-> schedule.pending,
                    left |-> plans[schedule.pending].items, item |-> {}]
    /\ pressure' = plans[schedule.pending].under
    /\ UNCHANGED <<corpus, schedule, plans, restored>>

UnderPressure == Total >= CorpusLimit \/ (pressure /\ Total > CorpusTarget)

\* previewCorpusRetention, recordPressure and the pending digest: as many cold
\* unprotected memories as exceed the target, or fewer.
PreviewPlan ==
    /\ archiver.pc = "claimed"
    /\ \E p \in 1..MaxPlans :
         /\ plans[p] = NoItems /\ \A q \in 1..MaxPlans : plans[q] = NoItems => p <= q
         /\ \E chosen \in SUBSET {m \in ActiveCorpus : ~corpus[m].protected} :
              /\ Cardinality(chosen) <= (IF UnderPressure THEN Total - CorpusTarget ELSE 0)
              /\ plans' = [plans EXCEPT ![p] =
                     [items |-> chosen,
                      revision |-> [m \in Corpus |-> IF m \in chosen THEN corpus[m].revision ELSE 0],
                      under |-> UnderPressure, recorded |-> FALSE, completed |-> FALSE]]
              /\ archiver' = [pc |-> "previewed", plan |-> p, left |-> chosen, item |-> {}]
         /\ schedule' = [schedule EXCEPT !.pending = p]
    /\ pressure' = UnderPressure
    /\ UNCHANGED <<corpus, restored>>

\* applyCorpusRetention previews again and refuses what has changed, or records the plan.
RecordPlan ==
    /\ archiver.pc = "previewed"
    /\ \A m \in archiver.left :
         corpus[m].active /\ ~corpus[m].protected
         /\ corpus[m].revision = plans[archiver.plan].revision[m]
    /\ plans' = [plans EXCEPT ![archiver.plan].recorded = TRUE]
    /\ archiver' = [archiver EXCEPT !.pc = "apply"]
    /\ UNCHANGED <<corpus, pressure, schedule, restored>>

ArchivedBy(m, p) == ~corpus[m].active /\ corpus[m].by = p

\* Faulty variant: an item of a recorded plan is not checked for protection again.
EligibleAsPlanned(m) ==
    corpus[m].active /\ corpus[m].revision = plans[archiver.plan].revision[m]

EligibleStill(m) ==
    /\ corpus[m].active /\ ~corpus[m].protected
    /\ corpus[m].revision = plans[archiver.plan].revision[m]

StillNeeded == plans[archiver.plan].under /\ Total > CorpusTarget

\* One item: archived by this plan already, no longer eligible or no longer needed.
PassItem(m) ==
    /\ archiver.pc = "apply" /\ m \in archiver.left
    /\ ArchivedBy(m, archiver.plan) \/ ~EligibleStill(m) \/ ~StillNeeded
    /\ archiver' = [archiver EXCEPT !.left = @ \ {m}]
    /\ UNCHANGED <<corpus, pressure, schedule, plans, restored>>

CheckItem(m) ==
    /\ archiver.pc = "apply" /\ m \in archiver.left
    /\ EligibleStill(m) /\ StillNeeded
    /\ archiver' = [archiver EXCEPT !.pc = "write", !.item = {m}]
    /\ UNCHANGED <<corpus, pressure, schedule, plans, restored>>

\* writeCanonicalMemory against the content of the plan.
ArchiveItem(m) ==
    /\ archiver.pc = "write" /\ archiver.item = {m}
    /\ corpus[m].active /\ corpus[m].revision < MaxCorpusRevision
    /\ corpus[m].revision = plans[archiver.plan].revision[m]
    /\ corpus' = [corpus EXCEPT ![m].active = FALSE, ![m].revision = @ + 1,
                                        ![m].by = archiver.plan]
    /\ archiver' = [archiver EXCEPT !.pc = "apply", !.left = @ \ {m}, !.item = {}]
    /\ UNCHANGED <<pressure, schedule, plans, restored>>

CompletePlan ==
    /\ archiver.pc = "apply" /\ archiver.left = {}
    /\ plans' = [plans EXCEPT ![archiver.plan].completed = TRUE]
    /\ archiver' = [archiver EXCEPT !.pc = "settle"]
    /\ UNCHANGED <<corpus, pressure, schedule, restored>>

\* The tick ran out of time or a Hook waits: the plan stays pending.
YieldPlan ==
    /\ archiver.pc = "apply" /\ archiver.left # {}
    /\ schedule' = [schedule EXCEPT !.leased = FALSE]
    /\ archiver' = ArchiverIdle
    /\ UNCHANGED <<corpus, pressure, plans, restored>>

SettleSchedule ==
    /\ archiver.pc = "settle"
    /\ schedule' = [leased |-> FALSE, pending |-> NoPlan]
    /\ archiver' = ArchiverIdle
    /\ UNCHANGED <<corpus, pressure, plans, restored>>

\* An error (a stale preview, a refused write) frees the lease and leaves the plan.
DeferSchedule ==
    /\ archiver.pc \in {"claimed", "previewed", "apply", "write"}
    /\ schedule' = [schedule EXCEPT !.leased = FALSE]
    /\ archiver' = ArchiverIdle
    /\ UNCHANGED <<corpus, pressure, plans, restored>>

ArchiverDies ==
    /\ archiver.pc # "idle"
    /\ archiver' = ArchiverIdle
    /\ UNCHANGED <<corpus, pressure, schedule, plans, restored>>

CorpusNext ==
    \/ \E m \in Corpus :
         \/ ReviseCorpus(m) \/ ProtectCorpus(m) \/ ArchiveByOwner(m) \/ RestoreByOwner(m)
         \/ PassItem(m) \/ CheckItem(m) \/ ArchiveItem(m)
    \/ ClaimSchedule \/ LeaseRunsOut \/ ResumePlan \/ PreviewPlan \/ RecordPlan
    \/ CompletePlan \/ YieldPlan \/ SettleSchedule \/ DeferSchedule \/ ArchiverDies

CorpusSpec == CorpusInit /\ [][CorpusNext]_corpusVars

-----------------------------------------------------------------------------
\* What the plan archives is not protected and is above the target, and what the
\* owner restored is not archived again by the plan that archived it, however often the
\* plan is taken up after a Worker died or yielded (corpus-retention.ts, 191-226).
ArchivesOnlyExcess ==
    [][\A m \in Corpus :
         corpus[m].active /\ ~corpus'[m].active /\ corpus'[m].by # NoPlan
           => /\ ~corpus[m].protected
              /\ Total > CorpusTarget
              /\ <<corpus'[m].by, m>> \notin restored]_corpusVars

=============================================================================
