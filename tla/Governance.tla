------------------------------ MODULE Governance ------------------------------
(***************************************************************************)
(* The scheduled review of the memories (src/src/governance).  Due           *)
(* occurrences become obligations, one run answers all that are pending and   *)
(* freezes the revisions it covers; each page is leased, reviewed by the      *)
(* model, applied action by action, and only a finished run moves the         *)
(* cursors.                                                                 *)
(*                                                                         *)
(* A page is one memory (page_size 1) and its review at most one action on it. *)
(***************************************************************************)
EXTENDS Integers, FiniteSets, FiniteSetsExt

CONSTANTS
    Governors,         \* Workers that run governance steps
    LastMemory,        \* memories 1..LastMemory, in the order of their ids
    MaxClock,          \* bound: the clock
    MaxRuns,           \* bound: governance runs
    MaxGoverned,       \* bound: revisions of a memory
    GovernorsOverlap,  \* Workers run at the same time, so a lease can end early
    NoGovernor

ASSUME GovernanceAssumption ==
    /\ LastMemory \in Nat \ {0} /\ MaxClock \in Nat /\ MaxGoverned \in Nat \ {0}
    /\ MaxRuns \in Nat \ {0} /\ GovernorsOverlap \in BOOLEAN /\ NoGovernor \notin Governors

VARIABLES
    clock,        \* now
    cursor,       \* governance_cursors
    obligation,   \* governance_obligations
    run,          \* governance_runs, in the order of their creation
    page,         \* governance_run_members and governance_checkpoints of each run
    ledger,       \* governance_actions: the pages whose action is recorded
    knowledge,    \* the canonical memories
    governor      \* runNextGovernanceStep

governanceVars == <<clock, cursor, obligation, run, page, ledger, knowledge, governor>>

Cadences == {"weekly", "monthly"}
Runs == 1..MaxRuns
Governed == 1..LastMemory
PageKeys == Runs \X Cadences \X Governed
Proposals == {"none", "archive", "review_due"}

\* revision 0: the memory is not a member of the phase.  holder: the step whose token
\* the checkpoint bears.  late: the lease has run out.
NoPage == [revision |-> 0, state |-> "absent", holder |-> NoGovernor, late |-> FALSE,
           proposal |-> "none"]
PageRows ==
    [revision: 0..MaxGoverned, state: {"absent", "prepared", "model_processing", "reviewed", "applied"},
     holder: Governors \cup {NoGovernor}, late: BOOLEAN, proposal: Proposals]
NoRun == [state |-> "absent", kind |-> "weekly", weekly |-> FALSE, phase |-> "finalize", through |-> 0]
Governing == [pc |-> "idle", key |-> <<1, "weekly", 1>>, revision |-> 0]

\* by: what wrote the current revision; chain: the last run its provenance names.
KnowledgeRows ==
    [revision: 1..MaxGoverned, by: {"agent", "owner", "governance"}, chain: 0..MaxRuns,
     archived: BOOLEAN, due: BOOLEAN, revised: 0..MaxClock]

GovernanceTypeOK ==
    /\ clock \in 0..MaxClock /\ cursor \in [Cadences -> 0..MaxClock]
    /\ obligation \in [Cadences \X (1..MaxClock) -> {"absent", "pending", "linked", "satisfied"}]
    /\ run \in [Runs ->
                [state: {"absent", "pending", "processing", "retrying", "blocked", "completed"},
                 kind: Cadences, weekly: BOOLEAN, phase: Cadences \cup {"finalize"},
                 through: 0..MaxClock]]
    /\ page \in [PageKeys -> PageRows] /\ ledger \subseteq PageKeys
    /\ knowledge \in [Governed -> KnowledgeRows]
    /\ governor \in [Governors -> [pc: {"idle", "model", "read", "wrote", "recorded"},
                                   key: PageKeys, revision: 0..MaxGoverned]]

GovernanceInit ==
    /\ clock = 0 /\ cursor = [c \in Cadences |-> 0]
    /\ obligation = [o \in Cadences \X (1..MaxClock) |-> "absent"]
    /\ run = [r \in Runs |-> NoRun] /\ page = [k \in PageKeys |-> NoPage] /\ ledger = {}
    /\ knowledge = [m \in Governed |-> [revision |-> 1, by |-> "agent", chain |-> 0,
                                        archived |-> FALSE, due |-> FALSE, revised |-> 0]]
    /\ governor = [w \in Governors |-> Governing]

UnfinishedRuns == {r \in Runs : run[r].state \in {"pending", "processing", "retrying", "blocked"}}
AloneGoverning(w) == GovernorsOverlap \/ \A v \in Governors \ {w} : governor[v] = Governing

-----------------------------------------------------------------------------
(* The clock and the other writers of the memories                          *)

GovernanceTick ==
    /\ clock < MaxClock
    /\ clock' = clock + 1
    /\ UNCHANGED <<cursor, obligation, run, page, ledger, knowledge, governor>>

\* The owner edits the file and it is reconciled, or another agent revises the memory.
\* No two events share a timestamp: nothing is revised at an instant a run covers.
KnowledgeRevised(m) ==
    /\ knowledge[m].revision < MaxGoverned
    /\ \A r \in Runs : run[r].state # "absent" => run[r].through < clock
    /\ \E writer \in {"agent", "owner"}, archived \in {FALSE, knowledge[m].archived} :
         /\ knowledge[m].by = "owner" => writer = "owner"
         /\ knowledge' = [knowledge EXCEPT ![m].revision = @ + 1, ![m].by = writer,
                                           ![m].archived = archived, ![m].revised = clock]
    /\ UNCHANGED <<clock, cursor, obligation, run, page, ledger, governor>>

-----------------------------------------------------------------------------
(* scheduleDueGovernance                                                    *)

\* dueOccurrences: one cadence is due twice as often as the other.
DueOccurrences(c) == {t \in cursor[c] + 1 .. clock : c = "weekly" \/ t % 2 = 1}

\* Obligations as the transaction leaves them before it links any.
Recorded ==
    [o \in DOMAIN obligation |->
       IF obligation[o] = "absent" /\ o[2] \in DueOccurrences(o[1]) THEN "pending" ELSE obligation[o]]

RecordOccurrences ==
    /\ UnfinishedRuns # {} /\ Recorded # obligation
    /\ obligation' = Recorded
    /\ UNCHANGED <<clock, cursor, run, page, ledger, knowledge, governor>>

\* The members of a phase: what changed since the last weekly run, or everything.
Member(c, kind, weekly, m) ==
    IF c = "weekly" THEN weekly /\ knowledge[m].revised > cursor["weekly"] ELSE kind = "monthly"

ScheduleRun(r) ==
    /\ UnfinishedRuns = {} /\ run[r].state = "absent"
    /\ \A s \in Runs : s < r => run[s].state # "absent"
    /\ LET due(c) == \E t \in 1..MaxClock : Recorded[<<c, t>>] = "pending"
           kind == IF due("monthly") THEN "monthly" ELSE "weekly"
       IN /\ due("weekly") \/ due("monthly")
          /\ obligation' = [o \in DOMAIN obligation |->
                              IF Recorded[o] = "pending" THEN "linked" ELSE Recorded[o]]
          /\ run' = [run EXCEPT ![r] =
                       [state |-> "pending", kind |-> kind, weekly |-> due("weekly"),
                        phase |-> IF due("weekly") THEN "weekly" ELSE "monthly",
                        through |-> clock]]
          /\ page' = [k \in PageKeys |->
                        IF k[1] = r /\ Member(k[2], kind, due("weekly"), k[3])
                        THEN [NoPage EXCEPT !.revision = knowledge[k[3]].revision] ELSE page[k]]
    /\ UNCHANGED <<clock, cursor, ledger, knowledge, governor>>

-----------------------------------------------------------------------------
(* runNextGovernanceStep: the oldest unfinished run; one that waits is taken *)
(* up again once its retry or its recovery is due.                           *)

Takeable(w, r) == governor[w].pc = "idle" /\ AloneGoverning(w) /\ UnfinishedRuns # {} /\ r = Min(UnfinishedRuns)
PagesIn(r, states) ==
    {m \in Governed : LET p == page[<<r, run[r].phase, m>>]
                      IN p.revision # 0 /\ p.state \in states}
PageStates == {"absent", "prepared", "model_processing", "reviewed", "applied"}

\* page_ordinal counts the applied pages.
RemainingPages(r) == PagesIn(r, PageStates \ {"applied"})

AdvancePhase(w, r) ==
    /\ Takeable(w, r) /\ run[r].phase # "finalize"
    /\ RemainingPages(r) = {}
    /\ run' = [run EXCEPT ![r].state = "pending",
                          ![r].phase = IF @ = "weekly" /\ run[r].kind = "monthly" THEN "monthly"
                                       ELSE "finalize"]
    /\ UNCHANGED <<clock, cursor, obligation, page, ledger, knowledge, governor>>

LeaseFree(p) == p.state \in {"absent", "prepared"} \/ (p.state = "model_processing" /\ p.late)

ClaimPage(w, r) ==
    /\ Takeable(w, r) /\ run[r].phase # "finalize"
    /\ PagesIn(r, {"reviewed"}) = {} /\ RemainingPages(r) # {}
    /\ LET key == <<r, run[r].phase, Min(RemainingPages(r))>>
       IN /\ LeaseFree(page[key])
          /\ page' = [page EXCEPT ![key].state = "model_processing", ![key].holder = w,
                                  ![key].late = FALSE]
          /\ governor' = [governor EXCEPT ![w] = [Governing EXCEPT !.pc = "model", !.key = key]]
    /\ run' = [run EXCEPT ![r].state = "processing"]
    /\ UNCHANGED <<clock, cursor, obligation, ledger, knowledge>>

HoldsPage(w) == page[governor[w].key].state = "model_processing" /\ page[governor[w].key].holder = w

\* validateReview: actions are for an agent's memory, as it is now.
Reviewable(key) == {p \in Proposals : p # "none" => knowledge[key[3]].by # "owner"}

PageReviewed(w) ==
    /\ governor[w].pc = "model" /\ HoldsPage(w)
    /\ LET key == governor[w].key
       IN \E proposal \in Reviewable(key) :
            page' = [page EXCEPT ![key].state = "reviewed", ![key].proposal = proposal,
                                 ![key].holder = NoGovernor]
    /\ governor' = [governor EXCEPT ![w] = Governing]
    /\ UNCHANGED <<clock, cursor, obligation, run, ledger, knowledge>>

\* The model, the validation or a database call fails, or the lease is lost: the page
\* is prepared again if it bears the token, the run waits in any case (unless another
\* run is active: one_active_governance_run).
PageFailed(w) ==
    /\ governor[w].pc = "model"
    /\ LET key == governor[w].key
       IN IF UnfinishedRuns \subseteq {key[1]}
          THEN /\ page' = IF HoldsPage(w)
                          THEN [page EXCEPT ![key].state = "prepared", ![key].holder = NoGovernor]
                          ELSE page
               /\ \E state \in {"retrying", "blocked"} : run' = [run EXCEPT ![key[1]].state = state]
          ELSE UNCHANGED <<page, run>>
    /\ governor' = [governor EXCEPT ![w] = Governing]
    /\ UNCHANGED <<clock, cursor, obligation, ledger, knowledge>>

\* recordLunaWorkSuccess fails after the review is stored.
SuccessNotRecorded(w) ==
    /\ governor[w].pc = "model" /\ HoldsPage(w)
    /\ LET key == governor[w].key
       IN /\ page' = [page EXCEPT ![key].state = "reviewed", ![key].holder = NoGovernor]
          /\ \E state \in {"retrying", "blocked"} : run' = [run EXCEPT ![key[1]].state = state]
    /\ governor' = [governor EXCEPT ![w] = Governing]
    /\ UNCHANGED <<clock, cursor, obligation, ledger, knowledge>>

-----------------------------------------------------------------------------
(* applyReviewedCheckpoint and applyAgentAction                             *)

\* The ledger answers for an action it already holds.
ReadCovered(w, r) ==
    /\ Takeable(w, r) /\ run[r].phase # "finalize" /\ PagesIn(r, {"reviewed"}) # {}
    /\ LET key == <<r, run[r].phase, Min(PagesIn(r, {"reviewed"}))>>
           done == page[key].proposal = "none" \/ key \in ledger
       IN governor' = [governor EXCEPT ![w] =
                         [pc |-> IF done THEN "recorded" ELSE "read", key |-> key,
                          revision |-> IF done THEN 0 ELSE knowledge[key[3]].revision]]
    /\ UNCHANGED <<clock, cursor, obligation, run, page, ledger, knowledge>>

DesiredPresent(k, proposal) == IF proposal = "archive" THEN k.archived /\ k.by = "governance" ELSE k.due

\* Faulty: the action is taken on whatever revision the memory has.
OnAnyRevision(key) == TRUE
\* The frozen revision, or one of the run's own chain of revisions.
OnKnownRevision(key) ==
    LET k == knowledge[key[3]]
    IN \/ k.revision = page[key].revision
       \/ k.chain = key[1] /\ \E c \in Cadences : <<key[1], c, key[3]>> \in ledger

\* writeAgentRevision: the revision the run leaves behind bears the run's own time.
ActedOn(k, key) ==
    [k EXCEPT !.revision = @ + 1, !.by = "governance", !.chain = key[1],
              !.revised = run[key[1]].through,
              !.archived = @ \/ page[key].proposal = "archive",
              !.due = @ \/ page[key].proposal = "review_due"]

\* What the step read is still there; otherwise the write throws and the step ends.
ActOnTarget(w) ==
    /\ governor[w].pc = "read"
    /\ LET key == governor[w].key
           k == knowledge[key[3]]
           skipped == DesiredPresent(k, page[key].proposal) \/ ~ OnKnownRevision(key)
           possible == k.by # "owner" /\ k.revision < MaxGoverned
       IN /\ k.revision = governor[w].revision
          /\ skipped \/ possible
          /\ knowledge' = IF skipped THEN knowledge
                          ELSE [knowledge EXCEPT ![key[3]] = ActedOn(k, key)]
    /\ governor' = [governor EXCEPT ![w].pc = "wrote"]
    /\ UNCHANGED <<clock, cursor, obligation, run, page, ledger>>

RecordAction(w) ==
    /\ governor[w].pc = "wrote"
    /\ ledger' = ledger \cup {governor[w].key}
    /\ governor' = [governor EXCEPT ![w].pc = "recorded"]
    /\ UNCHANGED <<clock, cursor, obligation, run, page, knowledge>>

PageApplied(w) ==
    /\ governor[w].pc = "recorded"
    /\ page' = [page EXCEPT ![governor[w].key].state = IF @ = "reviewed" THEN "applied" ELSE @]
    /\ governor' = [governor EXCEPT ![w] = Governing]
    /\ UNCHANGED <<clock, cursor, obligation, run, ledger, knowledge>>

\* The step throws in the middle of the application, or the Worker dies.
StepAborted(w) ==
    /\ governor[w].pc # "idle"
    /\ governor' = [governor EXCEPT ![w] = Governing]
    /\ UNCHANGED <<clock, cursor, obligation, run, page, ledger, knowledge>>

PageLeaseExpires(key) ==
    /\ page[key].state = "model_processing" /\ ~ page[key].late
    /\ \/ GovernorsOverlap
       \/ \A w \in Governors : governor[w] = Governing
    /\ page' = [page EXCEPT ![key].late = TRUE]
    /\ UNCHANGED <<clock, cursor, obligation, run, ledger, knowledge, governor>>

-----------------------------------------------------------------------------
(* finalizeRun                                                              *)

CursorsMoved(r) == {c \in Cadences : IF c = "weekly" THEN run[r].weekly ELSE run[r].kind = "monthly"}

FinalizeRun(w, r) ==
    /\ Takeable(w, r) /\ run[r].phase = "finalize"
    /\ obligation' = [o \in DOMAIN obligation |->
                        IF obligation[o] = "linked" /\ o[2] <= run[r].through THEN "satisfied"
                        ELSE obligation[o]]
    /\ cursor' = [c \in Cadences |-> IF c \in CursorsMoved(r) THEN run[r].through ELSE cursor[c]]
    /\ run' = [run EXCEPT ![r].state = IF @ \in {"pending", "processing"} THEN "completed" ELSE @]
    /\ UNCHANGED <<clock, page, ledger, knowledge, governor>>

-----------------------------------------------------------------------------
GovernanceNext ==
    \/ GovernanceTick \/ RecordOccurrences
    \/ \E m \in Governed : KnowledgeRevised(m)
    \/ \E r \in Runs : ScheduleRun(r)
    \/ \E w \in Governors, r \in Runs :
         AdvancePhase(w, r) \/ ClaimPage(w, r) \/ ReadCovered(w, r) \/ FinalizeRun(w, r)
    \/ \E w \in Governors :
         \/ PageReviewed(w) \/ PageFailed(w) \/ SuccessNotRecorded(w)
         \/ ActOnTarget(w) \/ RecordAction(w) \/ PageApplied(w) \/ StepAborted(w)
    \/ \E key \in PageKeys : PageLeaseExpires(key)

GovernanceSpec == GovernanceInit /\ [][GovernanceNext]_governanceVars

-----------------------------------------------------------------------------
(* Properties                                                               *)

\* A run is finished only when every page it froze is applied (src/src/governance/README.md:
\* "Do not advance successful coverage on failure").
FinishedIsReviewed ==
    \A key \in PageKeys :
      run[key[1]].state = "completed" /\ page[key].revision # 0 => page[key].state = "applied"

\* The coverage of both cadences is complete: what a cursor has passed is satisfied,
\* and a memory changed before the weekly cursor was frozen by a finished run at
\* that revision or later, or the change was governance's own.
CoverageComplete ==
    /\ \A c \in Cadences, t \in 1..MaxClock :
         (c = "weekly" \/ t % 2 = 1) /\ t <= cursor[c] => obligation[<<c, t>>] = "satisfied"
    /\ \A m \in Governed :
         knowledge[m].by # "governance" /\ 0 < knowledge[m].revised /\ knowledge[m].revised <= cursor["weekly"] =>
           \E r \in Runs, c \in Cadences :
             /\ run[r].phase = "finalize" /\ page[<<r, c, m>>].state = "applied"
             /\ page[<<r, c, m>>].revision >= knowledge[m].revision

\* Governance replaces only a revision the model reviewed, or one of the same run's
\* chain: never what the owner wrote, never a change it has not seen.
ActsOnReviewed ==
    [][\A m \in Governed :
         knowledge'[m].revision # knowledge[m].revision /\ knowledge'[m].by = "governance" =>
           \/ \E key \in PageKeys : key[3] = m /\ key[1] = knowledge'[m].chain
                                    /\ page[key].revision = knowledge[m].revision
           \/ knowledge[m].chain = knowledge'[m].chain]_governanceVars

\* A finished run stays finished.
FinishedStays ==
    [][\A r \in Runs : run[r].state = "completed" => run'[r].state = "completed"]_governanceVars

CursorsAdvance ==
    [][\A c \in Cadences : cursor'[c] >= cursor[c]]_governanceVars

\* Nothing reviewed is impossible to apply.
ReviewedCanBeApplied ==
    \A key \in PageKeys :
      LET k == knowledge[key[3]]
      IN page[key].state = "reviewed" /\ page[key].proposal # "none" /\ key \notin ledger
         /\ ~ DesiredPresent(k, page[key].proposal) /\ OnKnownRevision(key) => k.by # "owner"

\* Governance finishes only what it reviewed, covers every change that a cursor has
\* passed, acts only on what the model saw, and never reopens or moves back.
GovernanceKept ==
    /\ []FinishedIsReviewed /\ []CoverageComplete
    /\ ActsOnReviewed /\ FinishedStays /\ CursorsAdvance
=============================================================================
