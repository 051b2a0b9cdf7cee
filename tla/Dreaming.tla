------------------------------- MODULE Dreaming -------------------------------
(***************************************************************************)
(* The nightly run over captured Sessions (src/src/dreaming): a run claims    *)
(* the new segment of each quiet Session, reads its chunks with the model,    *)
(* merges the candidates into items, judges them, and applies the best to     *)
(* canonical memory, comparing them first with what is there.                *)
(*                                                                         *)
(* One project, one chunk for each segment; two candidates of a run that      *)
(* state the same are one.  A memory is the set of statements its text makes. *)
(***************************************************************************)
EXTENDS Integers, FiniteSets

CONSTANTS
    DreamSessions,
    Claims,          \* statements the model extracts
    Known,           \* statements a memory dreaming wrote before may have
    MaxActivity,     \* bound: captured activity of a Session
    MaxDreams,       \* bound: runs
    MaxDreamed,      \* bound: memories
    SelectDies,      \* the stage select can die between two of its statements
    StepDies         \* so can the others

ASSUME DreamingAssumption ==
    /\ IsFiniteSet(Claims) /\ Known # {} /\ MaxActivity \in Nat
    /\ MaxDreams \in Nat \ {0} /\ MaxDreamed \in Nat \ {0}
    /\ SelectDies \in BOOLEAN /\ StepDies \in BOOLEAN

VARIABLES
    activity,     \* capture_events: how far each Session has come
    dream,        \* dream_runs: the stage
    segment,      \* dream_sessions: the last segment claimed of each Session
    chunk,        \* dream_chunks
    proposed,     \* dream_candidates
    item,         \* dream_items
    remembered,   \* canonical memories with their dream_memories rows
    dreamer       \* the batch being applied

dreamVars == <<activity, dream, segment, chunk, proposed, item, remembered, dreamer>>

DreamIds == 1..MaxDreams
DreamedIds == 1..MaxDreamed
ItemIds == DreamIds \X Claims
Statements == Claims \cup Known
Stages == {"select", "extract", "merge", "prepare", "verify", "defend", "tier", "report", "completed"}
\* What applyBatch does with an item.
Verdicts == {"written", "refines", "conflicts", "observed", "review_due", "skipped"}

NoItem == [progress |-> "absent", members |-> {}, tier |-> "none", applied |-> "none"]
\* statement: the statement_key; "merged" is the key of a text of several statements.
NoMemory == [state |-> "absent", facts |-> {}, statement |-> "merged", human |-> FALSE,
             review |-> FALSE, listed |-> FALSE]
\* decided: one decision for each item left; read: the text its target had.
NoBatch == [run |-> 0, decided |-> {}, done |-> {}, revised |-> {}]
Decision == [claim: Claims, what: Verdicts, target: 0..MaxDreamed, read: SUBSET Statements]

DreamingTypeOK ==
    /\ activity \in [DreamSessions -> 0..MaxActivity]
    /\ dream \in [DreamIds -> {"absent"} \cup Stages]
    /\ segment \in [DreamSessions -> [run: 0..MaxDreams, through: 0..MaxActivity]]
    /\ chunk \in [DreamIds \X DreamSessions -> {"absent", "pending", "completed", "failed"}]
    /\ proposed \subseteq ItemIds
    /\ item \in [ItemIds ->
         [progress: {"absent", "merged", "prepared", "verified", "negative", "defended"},
          members: SUBSET Claims, tier: {"none", "inject", "review", "other"},
          applied: {"none", "pending", "failed"} \cup Verdicts]]
    /\ remembered \in [DreamedIds ->
         [state: {"absent", "active", "archived"}, facts: SUBSET Statements,
          statement: Statements \cup {"merged"}, human: BOOLEAN, review: BOOLEAN, listed: BOOLEAN]]
    /\ dreamer \in [run: 0..MaxDreams, decided: SUBSET Decision, done: SUBSET Claims,
                    revised: SUBSET DreamedIds]

DreamingInit ==
    /\ activity = [s \in DreamSessions |-> 0]
    /\ dream = [r \in DreamIds |-> "absent"]
    /\ segment = [s \in DreamSessions |-> [run |-> 0, through |-> 0]]
    /\ chunk = [k \in DreamIds \X DreamSessions |-> "absent"]
    /\ proposed = {} /\ item = [k \in ItemIds |-> NoItem]
    /\ \E k \in Known : remembered = [m \in DreamedIds |->
         IF m = 1 THEN [NoMemory EXCEPT !.state = "active", !.facts = {k}, !.statement = k, !.listed = TRUE]
         ELSE NoMemory]
    /\ dreamer = NoBatch

OpenDream(r) == dream[r] \notin {"absent", "completed"}
\* nextOpenRun: any open run whose backoff is over; the Worker does one step at a time.
Stepping(r, stage) == dreamer = NoBatch /\ dream[r] = stage
Advance(r, stage) == dream' = [dream EXCEPT ![r] = stage]
ItemsAt(r, progress) == {c \in Claims : item[<<r, c>>].progress = progress}

-----------------------------------------------------------------------------
(* Capture, the owner and the rollback command                              *)

SessionContinues(s) ==
    /\ activity[s] < MaxActivity
    /\ activity' = [activity EXCEPT ![s] = @ + 1]
    /\ UNCHANGED <<dream, segment, chunk, proposed, item, remembered, dreamer>>

OwnerRevises(m) ==
    /\ remembered[m].state = "active" /\ ~ remembered[m].human
    /\ remembered' = [remembered EXCEPT ![m].human = TRUE]
    /\ UNCHANGED <<activity, dream, segment, chunk, proposed, item, dreamer>>

\* rollbackDreamMemories: archives the active memories it finds in dream_memories.
RolledBack(m) ==
    /\ remembered[m].state = "active" /\ remembered[m].listed
    /\ remembered' = [remembered EXCEPT ![m].state = "archived"]
    /\ UNCHANGED <<activity, dream, segment, chunk, proposed, item, dreamer>>

-----------------------------------------------------------------------------
(* scheduleDueDreams and the stage select                                   *)

\* eligibleSessions: never one whose last run is still open.
QuietSession(s) ==
    /\ activity[s] > segment[s].through
    /\ segment[s].run # 0 => ~ OpenDream(segment[s].run)

ScheduleDream(r) ==
    /\ dream[r] = "absent" /\ \A q \in DreamIds : q < r => dream[q] # "absent"
    /\ \E s \in DreamSessions : QuietSession(s)
    /\ Advance(r, "select")
    /\ UNCHANGED <<activity, segment, chunk, proposed, item, remembered, dreamer>>

\* Claims the quiet Sessions and enqueues their chunks.  A step that dies has claimed
\* some of them, the last perhaps without its chunk; for the next attempt they are not
\* eligible, and it counts only the chunks it adds itself.
SelectSessions(r) ==
    /\ Stepping(r, "select")
    /\ \E quiet \in SUBSET {s \in DreamSessions : QuietSession(s)} : \E enqueued \in SUBSET quiet :
         /\ segment' = [s \in DreamSessions |->
                          IF s \in quiet THEN [run |-> r, through |-> activity[s]] ELSE segment[s]]
         /\ chunk' = [k \in DOMAIN chunk |->
                        IF k[1] = r /\ k[2] \in enqueued THEN "pending" ELSE chunk[k]]
         /\ \/ enqueued = quiet /\ Advance(r, IF quiet = {} THEN "report" ELSE "extract")
            \/ /\ SelectDies /\ quiet # {} /\ Cardinality(enqueued) + 1 >= Cardinality(quiet)
               /\ UNCHANGED dream
    /\ UNCHANGED <<activity, proposed, item, remembered, dreamer>>

-----------------------------------------------------------------------------
(* The stages extract, merge, prepare, verify, defend and tier              *)

Unread(r) == {s \in DreamSessions : chunk[<<r, s>>] = "pending"}

\* Candidates are inserted one by one before the chunk is completed.
ExtractChunk(r, s) ==
    /\ Stepping(r, "extract") /\ s \in Unread(r)
    /\ \E found \in SUBSET Claims, done \in BOOLEAN :
         /\ done \/ StepDies
         /\ proposed' = proposed \cup ({r} \X found)
         /\ chunk' = [chunk EXCEPT ![<<r, s>>] = IF done THEN "completed" ELSE @]
    /\ UNCHANGED <<activity, dream, segment, item, remembered, dreamer>>

\* The failure that spends the budget of the chunk; the failures before it change only
\* counters.
ChunkFails(r, s) ==
    /\ Stepping(r, "extract") /\ s \in Unread(r)
    /\ chunk' = [chunk EXCEPT ![<<r, s>>] = "failed"]
    /\ UNCHANGED <<activity, dream, segment, proposed, item, remembered, dreamer>>

ExtractionDone(r) ==
    /\ Stepping(r, "extract") /\ Unread(r) = {}
    /\ Advance(r, "merge")
    /\ UNCHANGED <<activity, segment, chunk, proposed, item, remembered, dreamer>>

CandidatesOf(r) == {c \in Claims : <<r, c>> \in proposed}
MembersOf(r) == UNION {item[<<r, c>>].members : c \in Claims}
Unassigned(r) == CandidatesOf(r) \ MembersOf(r)

\* The model puts some candidates of one claim type into one item; what it left out
\* stays as items of its own.
MergeCandidates(r) ==
    /\ Stepping(r, "merge") /\ Unassigned(r) # {}
    /\ \E group \in SUBSET Unassigned(r), lead \in Unassigned(r), same \in SUBSET Unassigned(r) :
         /\ lead \in same /\ same \subseteq group
         /\ item' = [k \in ItemIds |->
              IF k[1] # r \/ k[2] \notin (group \ same) \cup {lead} THEN item[k]
              ELSE [NoItem EXCEPT !.progress = "merged",
                                  !.members = IF k[2] = lead THEN same ELSE {k[2]}]]
    /\ UNCHANGED <<activity, dream, segment, chunk, proposed, remembered, dreamer>>

MergedAll(r) == Unassigned(r) = {}

MergeDone(r) ==
    /\ Stepping(r, "merge") /\ MergedAll(r)
    /\ Advance(r, "prepare")
    /\ UNCHANGED <<activity, segment, chunk, proposed, item, remembered, dreamer>>

\* One item of a batch: a stage that fails leaves its other items for the next step.
Progresses(r, c, progress) == item' = [item EXCEPT ![<<r, c>>].progress = progress]

JudgeItems(r, stage, from, to, next) ==
    /\ Stepping(r, stage)
    /\ \/ \E c \in ItemsAt(r, from), p \in to : Progresses(r, c, p) /\ UNCHANGED dream
       \/ ItemsAt(r, from) = {} /\ Advance(r, next) /\ UNCHANGED item
    /\ UNCHANGED <<activity, segment, chunk, proposed, remembered, dreamer>>

PrepareItems(r) == JudgeItems(r, "prepare", "merged", {"prepared"}, "verify")
VerifyItems(r) == JudgeItems(r, "verify", "prepared", {"verified", "negative"}, "defend")
DefendItems(r) == JudgeItems(r, "defend", "negative", {"defended"}, "tier")

KnownAs(c) == {m \in DreamedIds : remembered[m].listed /\ remembered[m].statement = c}

\* tierOf; markApplyPending queues the items to inject, and the items to review whose
\* statement dreaming wrote.
TierItems(r) ==
    /\ Stepping(r, "tier")
    /\ \E tier \in [Claims -> {"inject", "review", "other"}] :
         item' = [k \in ItemIds |->
           IF k[1] # r \/ item[k].progress = "absent" THEN item[k]
           ELSE [item[k] EXCEPT !.tier = tier[k[2]],
                                !.applied = IF \/ tier[k[2]] = "inject"
                                               \/ tier[k[2]] = "review" /\ KnownAs(k[2]) # {}
                                            THEN "pending" ELSE @]]
    /\ Advance(r, "report")
    /\ UNCHANGED <<activity, segment, chunk, proposed, remembered, dreamer>>

-----------------------------------------------------------------------------
(* The stage report: applyBatch                                             *)

Queued(r) == {c \in Claims : item[<<r, c>>].applied = "pending"}
\* activeMemories: what an item is compared with.
Comparable == {m \in DreamedIds :
    remembered[m].state = "active" /\ (remembered[m].human \/ remembered[m].listed)}
Decide(c, what, m) == [claim |-> c, what |-> what, target |-> m,
                       read |-> IF m = 0 THEN {} ELSE remembered[m].facts]

\* By its statement key, or by the model against the memories there are; a memory the
\* owner wrote is never revised.
Decisions(r, c) ==
    IF item[<<r, c>>].tier = "review"
    THEN {Decide(c, IF remembered[m].state = "active" THEN "review_due" ELSE "skipped", m)
            : m \in KnownAs(c)} \cup
         {Decide(c, "skipped", 0) : m \in IF KnownAs(c) = {} THEN {0} ELSE {}}
    ELSE IF KnownAs(c) # {}
    THEN {Decide(c, IF remembered[m].state = "active" THEN "observed" ELSE "skipped", m)
            : m \in KnownAs(c)}
    ELSE {Decide(c, "written", 0)} \cup
         {Decide(c, IF remembered[m].human THEN "skipped" ELSE what, m)
            : what \in {"refines", "conflicts", "observed"}, m \in Comparable}

\* Reads the memories and asks the model; nothing is locked from here on.
BeginApply(r) ==
    /\ Stepping(r, "report") /\ Queued(r) # {}
    /\ \E decided \in SUBSET UNION {Decisions(r, c) : c \in Queued(r)} :
         /\ \A c \in Queued(r) : Cardinality({d \in decided : d.claim = c}) = 1
         /\ dreamer' = [NoBatch EXCEPT !.run = r, !.decided = decided]
    /\ UNCHANGED <<activity, dream, segment, chunk, proposed, item, remembered>>

Applying == dreamer.run # 0
\* The new memories are written before the revisions.
DueDecisions ==
    LET todo == {d \in dreamer.decided : d.claim \notin dreamer.done}
        new == {d \in todo : d.what = "written"}
    IN IF new = {} THEN todo ELSE new
Decided(d) == dreamer' = [dreamer EXCEPT !.done = @ \cup {d.claim}]
UnusedId(m) == remembered[m].state = "absent" /\ \A n \in DreamedIds : n < m => remembered[n].state # "absent"

\* Faulty: every refinement was merged with the text the batch began with.
RevisedTwice(m) == FALSE
RevisedAlready(m) == m \in dreamer.revised

\* A second revision of a memory by one batch is written as a memory of its own.
WritesNew(d) == d.what = "written" \/ (d.what \in {"refines", "conflicts"} /\ RevisedAlready(d.target))

\* The canonical file, and then its dream_memories row.
WriteNew(d) ==
    /\ Applying /\ d \in DueDecisions /\ WritesNew(d)
    /\ \E m \in DreamedIds : UnusedId(m) /\
         remembered' = [remembered EXCEPT ![m] =
           [NoMemory EXCEPT !.state = "active", !.facts = {d.claim}, !.statement = d.claim, !.listed = TRUE]]
    /\ Decided(d)
    /\ UNCHANGED <<activity, dream, segment, chunk, proposed, item>>

\* A worker that dies between the two leaves the item pending.
WriteUnlisted(d) ==
    /\ StepDies /\ Applying /\ d \in DueDecisions /\ WritesNew(d)
    /\ \E m \in DreamedIds : UnusedId(m) /\
         remembered' = [remembered EXCEPT ![m] =
           [NoMemory EXCEPT !.state = "active", !.facts = {d.claim}, !.statement = d.claim]]
    /\ dreamer' = NoBatch
    /\ UNCHANGED <<activity, dream, segment, chunk, proposed, item>>

\* revise reads the memory again, but writes the text merged from the first reading.
Revise(d) ==
    /\ Applying /\ d \in DueDecisions /\ ~ WritesNew(d)
    /\ d.what \in {"refines", "conflicts"} /\ ~ remembered[d.target].human
    /\ LET facts == IF d.what = "refines" THEN d.read \cup {d.claim} ELSE {d.claim}
       IN remembered' = [remembered EXCEPT
            ![d.target].facts = facts, ![d.target].review = FALSE,
            ![d.target].statement = IF facts = {d.claim} THEN d.claim ELSE "merged"]
    /\ dreamer' = [dreamer EXCEPT !.done = @ \cup {d.claim}, !.revised = @ \cup {d.target}]
    /\ UNCHANGED <<activity, dream, segment, chunk, proposed, item>>

ReviewDue(d) ==
    /\ Applying /\ d \in DueDecisions /\ d.what = "review_due" /\ ~ remembered[d.target].human
    /\ remembered' = [remembered EXCEPT ![d.target].review = TRUE]
    /\ Decided(d)
    /\ UNCHANGED <<activity, dream, segment, chunk, proposed, item>>

\* Observed, nothing to do, or refused by the canonical write: the item fails.
LeftAlone(d) ==
    /\ Applying /\ d \in DueDecisions /\ ~ WritesNew(d)
    /\ d.what \in {"refines", "conflicts", "review_due"} => remembered[d.target].human
    /\ Decided(d)
    /\ UNCHANGED <<activity, dream, segment, chunk, proposed, item, remembered>>

\* The outcomes are stored once all are known.
FinishApply ==
    /\ Applying /\ DueDecisions = {}
    /\ item' = [k \in ItemIds |->
         IF k[1] = dreamer.run /\ k[2] \in dreamer.done
         THEN [item[k] EXCEPT !.applied = (CHOOSE d \in dreamer.decided : d.claim = k[2]).what]
         ELSE item[k]]
    /\ dreamer' = NoBatch
    /\ UNCHANGED <<activity, dream, segment, chunk, proposed, remembered>>

ApplyDies ==
    /\ StepDies /\ Applying /\ dreamer' = NoBatch
    /\ UNCHANGED <<activity, dream, segment, chunk, proposed, item, remembered>>

CompleteDream(r) ==
    /\ Stepping(r, "report") /\ Queued(r) = {}
    /\ Advance(r, "completed")
    /\ UNCHANGED <<activity, segment, chunk, proposed, item, remembered, dreamer>>

-----------------------------------------------------------------------------
DreamingNext ==
    \/ \E s \in DreamSessions : SessionContinues(s)
    \/ \E m \in DreamedIds : OwnerRevises(m) \/ RolledBack(m)
    \/ \E r \in DreamIds :
         \/ ScheduleDream(r) \/ SelectSessions(r)
         \/ \E s \in DreamSessions : ExtractChunk(r, s) \/ ChunkFails(r, s)
         \/ ExtractionDone(r) \/ MergeCandidates(r) \/ MergeDone(r)
         \/ PrepareItems(r) \/ VerifyItems(r) \/ DefendItems(r) \/ TierItems(r)
         \/ BeginApply(r) \/ CompleteDream(r)
    \/ \E d \in dreamer.decided :
         WriteNew(d) \/ WriteUnlisted(d) \/ Revise(d) \/ ReviewDue(d) \/ LeftAlone(d)
    \/ FinishApply \/ ApplyDies

DreamingSpec == DreamingInit /\ [][DreamingNext]_dreamVars

-----------------------------------------------------------------------------
(* Properties                                                               *)

\* No activity is taken as dreamed about without being read: the segment a run claimed has
\* a chunk of that run, and none is left unread when extraction is over.
ClaimedIsRead ==
    \A r \in DreamIds, s \in DreamSessions :
      /\ segment[s].run = r /\ dream[r] # "select" => chunk[<<r, s>>] # "absent"
      /\ dream[r] \notin {"absent", "select", "extract"} => chunk[<<r, s>>] # "pending"

\* Merging never loses a candidate and never uses one twice.
EachInOneItem ==
    \A r \in DreamIds :
      /\ \A c, d \in Claims : c # d => item[<<r, c>>].members \cap item[<<r, d>>].members = {}
      /\ dream[r] \notin {"absent", "select", "extract", "merge"} => Unassigned(r) = {}

\* A run that ended left no item to apply.
EndedIsApplied == \A r \in DreamIds : dream[r] = "completed" => Queued(r) = {}

\* What dreaming knows to have been rolled back, it does not write again.
RolledBackStays ==
    \A m, n \in DreamedIds :
      remembered[m].state = "archived" /\ remembered[m].listed /\ remembered[m].statement # "merged"
        /\ remembered[n].state = "active" /\ remembered[n].listed
        => remembered[n].statement # remembered[m].statement

\* All of it together: no activity unread, no candidate lost or used twice, no item left
\* behind, nothing rolled back written again, across Worker deaths in every step.
DreamingSafe == ClaimedIsRead /\ EachInOneItem /\ EndedIsApplied /\ RolledBackStays

\* Dreaming never takes a fact out of a memory, except to put a conflicting one in its
\* place; and never touches what the owner wrote.
KnowledgeKept ==
    [][\A m \in DreamedIds :
         /\ \/ remembered[m].facts \subseteq remembered'[m].facts
            \/ \E d \in dreamer.decided : d.what = "conflicts" /\ d.target = m
                                        /\ d.claim \in dreamer'.done \ dreamer.done
         /\ remembered[m].human => remembered'[m].facts = remembered[m].facts]_dreamVars

\* Every memory dreaming wrote can be rolled back.  It does not hold with StepDies: the
\* file is written before the row that lists it.
DreamedIsListed ==
    \A m \in DreamedIds : remembered[m].state = "active" /\ ~ remembered[m].human
                            => remembered[m].listed

\* DreamingSafe in every state, and no step that takes knowledge away.
DreamingKept == []DreamingSafe /\ KnowledgeKept
=============================================================================
