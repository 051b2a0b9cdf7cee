----------------------------- MODULE Distillation -----------------------------
(***************************************************************************)
(* How the Worker turns the captured events of one session into memory     *)
(* candidates: src/worker/distillation.ts, in the order in which           *)
(* runWorkerOnce of src/worker/main.ts calls it.                           *)
(*                                                                         *)
(* Events are collected in Batches; each Batch is distilled by the model;  *)
(* a Batch that ends the session makes a range of Batches ready to be      *)
(* consolidated by a second model call, whose candidates are ingested; the *)
(* cursor then moves to the end of the range.  A session of one Batch is   *)
(* ingested directly.                                                      *)
(*                                                                         *)
(* SQLite transactions are atomic actions; between two of them the Worker  *)
(* may die, another Worker may run, and time may pass.  The field "at" of a*)
(* Worker names the next transaction or model call of its program.         *)
(***************************************************************************)
EXTENDS Integers, FiniteSets, FiniteSetsExt

CONSTANTS
  Worker, NoWorker,
  Turn,            \* turn identities of the session
  MaxEvents,       \* bound: events ever captured, in order of created_at
  FastRetries,     \* retries before an operation is blocked
  MaxCrashes,      \* bound: Workers that die in the middle of an iteration
  MaxFaults,       \* bound: database errors inside the try block (SQLITE_BUSY)
  MaxSplits,       \* bound: Batches split after an unusable model answer
  MaxOverruns,     \* bound: leases that run out under a live Worker
  MaxHelp          \* bound: explicit retries and recovery probes

ASSUME DistillationAssumption ==
  /\ {MaxEvents, FastRetries, MaxCrashes, MaxFaults, MaxSplits, MaxOverruns, MaxHelp}
       \subseteq Nat
  /\ NoWorker \notin Worker /\ Turn # {}

Event == 1..MaxEvents
\* batch_ordinal + 1; a Batch's operation has its number.
Batch == 1..(MaxEvents + MaxSplits)
\* Operations of kind consolidate_session: one for each range ever queued, MaxEvents
\* of them at most (bound).
Ranges == (MaxEvents + MaxSplits + 1)..(2 * MaxEvents + MaxSplits)
Op == Batch \cup Ranges

VARIABLES
  event,      \* capture_events and distillation_batch_events
  batch,      \* distillation_batches
  op,         \* luna_operations
  range,      \* payload of each consolidation operation
  cons,       \* the row of session_consolidations
  cursor,     \* the row of session_distillation_cursors
  ingested,   \* Batches whose candidates reached createAgentCandidate
  worker,     \* where each Worker is
  spent       \* how much of each bound is used up

vars == <<event, batch, op, range, cons, cursor, ingested, worker, spent>>
\* Everything but the Worker that moves.
store == <<event, batch, op, range, cons, cursor, ingested, spent>>

NoRange == [gen |-> 0, from |-> 0, through |-> 0]
NoResult == [kind |-> "null", input |-> {}]
Live == {"pending", "processing", "retrying", "blocked"}
Owned == [state |-> "pending", by |-> NoWorker, due |-> FALSE, tries |-> 0, local |-> FALSE]
Start == [at |-> "recover", op |-> 0, try |-> FALSE, selected |-> {},
          input |-> {}, category |-> "none", failed |-> "none"]

Init ==
  /\ event = [e \in Event |-> [kind |-> "absent", turn |-> CHOOSE t \in Turn : TRUE,
                               done |-> FALSE, batch |-> 0]]
  /\ batch = [b \in Batch |-> [state |-> "absent", split |-> FALSE, version |-> 0]]
  /\ op = [o \in Op |-> [Owned EXCEPT !.state = "absent"]]
  /\ range = [r \in Ranges |-> NoRange]
  /\ cons = [op |-> 0, state |-> "absent", result |-> NoResult]
  /\ cursor = [gen |-> 0, through |-> 0]
  /\ ingested = {}
  /\ worker = [w \in Worker |-> Start]
  /\ spent = [crashes |-> 0, faults |-> 0, splits |-> 0, overruns |-> 0, help |-> 0]

-----------------------------------------------------------------------------
(***************************************************************************)
(* The session.                                                            *)
(***************************************************************************)
EventsOf(b) == {e \in Event : event[e].batch = b}
Batches == {b \in Batch : batch[b].state # "absent" /\ ~batch[b].split}
HasSessionEnd(b) == \E e \in EventsOf(b) : event[e].kind = "end"
LifecycleOnly(events) == \A e \in events : event[e].kind = "end"

Unassigned == {e \in Event : event[e].kind # "absent" /\ event[e].batch = 0}
EndingsFrom(e) == {d \in Event : d >= e /\ event[d].kind = "end"}

\* selectFirstEligibleDistillationEvent.  A SessionEnd makes every event up to
\* it eligible; the size, the age or a Stop of its turn may make others so.
FirstEligible(f) ==
  /\ f \in Unassigned
  /\ \A e \in Unassigned : e < f => EndingsFrom(e) = {} /\ event[e].turn # event[f].turn

\* The rows prepareNextDistillationBatch reads for it.
Rows(f) == {e \in Unassigned : IF EndingsFrom(f) # {} THEN e <= Min(EndingsFrom(f))
                               ELSE event[e].turn = event[f].turn}

\* maximumEvents and maximumRetainedBytes keep a non-empty prefix of them.
Selections == UNION {{{e \in Rows(f) : e <= last} : last \in Rows(f)} :
                       f \in {e \in Event : FirstEligible(e)}}

NextBatch == Cardinality({b \in Batch : batch[b].state # "absent"}) + 1

\* The part of a session that closes with its last SessionEnd.
Cutoff == Max({b \in Batches : HasSessionEnd(b)} \cup {0})
InRange(from, through) == {b \in Batches : from <= b /\ b <= through}

\* Faulty: does not wait for every Batch, or for the current consolidation.
ReadyTooEarly ==
  Cutoff > cursor.through /\ (cons.op = 0 \/ cons.state = "completed")
ReadyTwice ==
  /\ Cutoff > cursor.through
  /\ \A b \in InRange(cursor.through + 1, Cutoff) : batch[b].state = "completed"

\* queueConsolidationIfReady.
Ready ==
  /\ Cutoff > cursor.through
  /\ \A b \in InRange(cursor.through + 1, Cutoff) : batch[b].state = "completed"
  /\ cons.op = 0 \/ cons.state = "completed"

\* Faulty: off by one.
RangeFromCursor == [gen |-> cursor.gen + 1, from |-> cursor.through, through |-> Cutoff]
NewRange == [gen |-> cursor.gen + 1, from |-> cursor.through + 1, through |-> Cutoff]
\* The UNIQUE idempotency key of its operation is taken.
KeyTaken == \E r \in Ranges : op[r].state # "absent" /\ range[r] = NewRange
Unused == {r \in Ranges : op[r].state = "absent"}
NextRange == Min(Unused)

\* The Batch results a consolidation is given.
Results(r) == {<<b, batch[b].version>> :
                 b \in {c \in InRange(range[r].from, range[r].through) :
                          batch[c].state = "completed"}}

Owns(w) ==
  /\ worker[w].op # 0
  /\ op[worker[w].op].state = "processing" /\ op[worker[w].op].by = w

Goto(w, at) == worker' = [worker EXCEPT ![w].at = at]

\* An exception: inside the try block it is a local failure of the
\* operation, outside it ends the iteration.
Throw(w) == worker' = [worker EXCEPT ![w] =
  IF worker[w].try THEN [worker[w] EXCEPT !.at = "fail", !.category = "local"] ELSE Start]

Finished(o) == [op EXCEPT ![o].state = "completed", ![o].by = NoWorker,
                          ![o].due = FALSE, ![o].local = FALSE]

-----------------------------------------------------------------------------
(***************************************************************************)
(* The environment: hooks capture events of the session in any order, also *)
(* after a SessionEnd (a resumed session, or the synthetic SessionEnd of   *)
(* captureAbandonedSessionEnd).                                            *)
(***************************************************************************)
Capture(e, kind, turn) ==
  /\ event[e].kind = "absent" /\ \A d \in Event : d < e => event[d].kind # "absent"
  /\ event' = [event EXCEPT ![e].kind = kind, ![e].turn = turn]
  /\ UNCHANGED <<batch, op, range, cons, cursor, ingested, worker, spent>>

(***************************************************************************)
(* One iteration of the Worker.                                            *)
(***************************************************************************)

\* recoverNextBlockedLifecycleOnlyBatch.
BlockedLifecycleOnly(b) ==
  op[b].state = "blocked" /\ EventsOf(b) # {} /\ LifecycleOnly(EventsOf(b))

Recover(w) ==
  /\ worker[w].at = "recover"
  /\ Goto(w, "prepare")
  /\ \/ /\ ~\E b \in Batch : BlockedLifecycleOnly(b)
        /\ UNCHANGED store
     \/ \E b \in Batch :
          /\ BlockedLifecycleOnly(b)
          /\ batch' = [batch EXCEPT ![b].state = "completed", ![b].version = @ + 1]
          /\ event' = [e \in Event |-> [event[e] EXCEPT !.done = @ \/ event[e].batch = b]]
          /\ op' = Finished(b)
          /\ UNCHANGED <<range, cons, cursor, ingested, spent>>

\* prepareNextDistillationBatch, first connection.
Select(w) ==
  /\ worker[w].at = "prepare"
  /\ UNCHANGED store
  /\ \/ /\ \A e \in Unassigned : EndingsFrom(e) = {}
        /\ Goto(w, "queue")
     \/ \E s \in Selections :
          worker' = [worker EXCEPT ![w].at = "assign", ![w].selected = s]

\* The events are still pending and unassigned; faulty: not asked again.
AvailableBefore(s) == s \subseteq Event
StillAvailable(s) == s \subseteq Unassigned

\* Its transaction: create the Batch unless an event was taken meanwhile.
Assign(w) ==
  LET s == worker[w].selected
      lifecycleOnly == LifecycleOnly(s)
  IN
  /\ worker[w].at = "assign"
  /\ worker' = [worker EXCEPT ![w].at = "queue", ![w].selected = {}]
  /\ \/ /\ ~StillAvailable(s)
        /\ UNCHANGED <<event, batch, op>>
     \/ /\ StillAvailable(s)
        /\ event' = [e \in Event |-> IF e \in s
             THEN [event[e] EXCEPT !.batch = NextBatch, !.done = lifecycleOnly] ELSE event[e]]
        /\ batch' = [batch EXCEPT ![NextBatch].state =
                        IF lifecycleOnly THEN "completed" ELSE "queued"]
        /\ op' = [op EXCEPT ![NextBatch].state =
                     IF lifecycleOnly THEN "completed" ELSE "pending"]
  /\ UNCHANGED <<range, cons, cursor, ingested, spent>>

\* Faulty: keeps the result of the generation before, or a state the row
\* cannot have.
QueueRangeKeepsResult ==
  /\ op' = [op EXCEPT ![NextRange] = Owned]
  /\ range' = [range EXCEPT ![NextRange] = NewRange]
  /\ cons' = [cons EXCEPT !.op = NextRange, !.state = "queued"]
  /\ UNCHANGED <<event, batch, cursor, ingested, spent>>

QueueRangePending ==
  /\ op' = [op EXCEPT ![NextRange] = Owned]
  /\ range' = [range EXCEPT ![NextRange] = NewRange]
  /\ cons' = [op |-> NextRange, state |-> "pending", result |-> NoResult]
  /\ UNCHANGED <<event, batch, cursor, ingested, spent>>

\* The operation and the row of a new generation.
QueueRange ==
  /\ op' = [op EXCEPT ![NextRange] = Owned]
  /\ range' = [range EXCEPT ![NextRange] = NewRange]
  /\ cons' = [op |-> NextRange, state |-> "queued", result |-> NoResult]
  /\ UNCHANGED <<event, batch, cursor, ingested, spent>>

QueueIfReady(w, next) ==
  \/ ~Ready /\ Goto(w, next) /\ UNCHANGED store
  \/ Ready /\ ~KeyTaken /\ Unused # {} /\ Goto(w, next) /\ QueueRange
  \/ Ready /\ KeyTaken /\ Throw(w) /\ UNCHANGED store

\* Faulty: relies on finalizeCompletedBatch to queue the range.
PollNothing(w) == worker[w].at = "queue" /\ Goto(w, "claim") /\ UNCHANGED store

\* prepareNextSessionConsolidation.
Poll(w) == worker[w].at = "queue" /\ QueueIfReady(w, "claim")

\* claimLunaOperation (module LunaQueue): consolidations first.
Claimable(o) ==
  \/ op[o].state = "pending"
  \/ op[o].state \in {"processing", "retrying", "blocked"} /\ op[o].due
Selected(o) ==
  /\ Claimable(o)
  /\ \A p \in Op \ {o} : Claimable(p) =>
       \/ o \in Ranges /\ p \in Batch
       \/ (o \in Ranges <=> p \in Ranges) /\ o < p

Claim(w) ==
  /\ worker[w].at = "claim"
  /\ \/ /\ ~\E o \in Op : Claimable(o)
        /\ Goto(w, "recover")
        /\ UNCHANGED op
     \/ \E o \in Op :
          /\ Selected(o)
          /\ op' = [op EXCEPT ![o].state = "processing", ![o].by = w, ![o].due = FALSE,
                               ![o].tries = IF @ > FastRetries THEN @ ELSE @ + 1]
          /\ worker' = [worker EXCEPT ![w].at = "bind", ![w].op = o]
  /\ UNCHANGED <<event, batch, range, cons, cursor, ingested, spent>>

\* runNextLunaWork: was the result persisted before a crash?
Bind(w) ==
  LET o == worker[w].op IN
  /\ worker[w].at = "bind"
  /\ UNCHANGED store
  /\ \/ o \in Batch /\ batch[o].state = "completed" /\ Goto(w, "finalize")
     \/ o \in Batch /\ batch[o].state # "completed" /\ Goto(w, "mark")
     \/ o \in Ranges /\ cons.op # o /\ Throw(w)
     \/ o \in Ranges /\ cons.op = o /\ cons.state = "completed" /\ Goto(w, "complete")
     \/ o \in Ranges /\ cons.op = o /\ cons.state # "completed" /\ Goto(w, "mark")

Mark(w) ==
  LET o == worker[w].op IN
  /\ worker[w].at = "mark"
  /\ worker' = [worker EXCEPT ![w].try = TRUE, ![w].at = IF o \in Batch THEN "distill" ELSE "load"]
  /\ IF o \in Batch
     THEN batch' = [batch EXCEPT ![o].state = "processing"] /\ UNCHANGED cons
     ELSE cons' = (IF cons.op = o THEN [cons EXCEPT !.state = "processing"] ELSE cons)
          /\ UNCHANGED batch
  /\ UNCHANGED <<event, op, range, cursor, ingested, spent>>

\* The model answers, or a LunaInvocationError is thrown.
ModelFails(w, category) ==
  /\ worker[w].at \in {"distill", "consolidate"}
  /\ worker' = [worker EXCEPT ![w].at = "fail", ![w].category = category]
  /\ UNCHANGED store

Distill(w) == worker[w].at = "distill" /\ Goto(w, "persist") /\ UNCHANGED store

\* The transaction that stores a Batch result; it does not look at the lease.
Persist(w) ==
  LET b == worker[w].op IN
  /\ worker[w].at = "persist"
  /\ batch' = [batch EXCEPT ![b].state = "completed", ![b].version = @ + 1]
  /\ event' = [e \in Event |-> [event[e] EXCEPT !.done = @ \/ event[e].batch = b]]
  /\ Goto(w, "finalize")
  /\ UNCHANGED <<op, range, cons, cursor, ingested, spent>>

\* Faulty: does not count the Batches of the session.
FinalizeAsSingle(w) ==
  /\ worker[w].at = "finalize"
  /\ UNCHANGED store
  /\ Goto(w, IF \E b \in Batches : HasSessionEnd(b) THEN "ingest" ELSE "complete")

\* finalizeCompletedBatch: its read, then what it decided.
Finalize(w) ==
  LET ended == \E b \in Batches : HasSessionEnd(b)
      single == Cardinality(Batches) = 1
  IN
  /\ worker[w].at = "finalize"
  /\ UNCHANGED store
  /\ IF batch[worker[w].op].state # "completed" THEN Throw(w)
     ELSE Goto(w, IF ~ended THEN "complete" ELSE IF single THEN "ingest" ELSE "queueBatch")

QueueAfterBatch(w) == worker[w].at = "queueBatch" /\ QueueIfReady(w, "complete")

IngestBatch(w) ==
  /\ worker[w].at = "ingest"
  /\ ingested' = ingested \cup {worker[w].op}
  /\ Goto(w, "cursor")
  /\ UNCHANGED <<event, batch, op, range, cons, cursor, spent>>

AdvanceCursor(w) ==
  /\ worker[w].at = "cursor"
  /\ cursor' = IF cursor.through < worker[w].op
               THEN [gen |-> cursor.gen + 1, through |-> worker[w].op] ELSE cursor
  /\ Goto(w, "complete")
  /\ UNCHANGED <<event, batch, op, range, cons, ingested, spent>>

\* A consolidation reads its row and the results of its range.
Load(w) ==
  LET r == worker[w].op
      saved == cons.result
  IN
  /\ worker[w].at = "load"
  /\ UNCHANGED store
  /\ IF cons.op # r \/ (saved.kind # "null" /\ saved # [kind |-> "checkpoint", input |-> Results(r)])
     THEN Throw(w)
     ELSE worker' = [worker EXCEPT ![w].input = Results(r),
                       ![w].at = IF saved.kind = "null" THEN "consolidate" ELSE "pages"]

Consolidate(w) == worker[w].at = "consolidate" /\ Goto(w, "checkpoint") /\ UNCHANGED store

\* The model's answer is stored only under a lease that still holds.
Checkpoint(w) ==
  /\ worker[w].at = "checkpoint"
  /\ \/ /\ Owns(w) /\ cons.op = worker[w].op
        /\ cons' = [cons EXCEPT !.result = [kind |-> "checkpoint", input |-> worker[w].input]]
        /\ Goto(w, "pages")
     \/ /\ ~(Owns(w) /\ cons.op = worker[w].op)
        /\ Throw(w)
        /\ UNCHANGED cons
  /\ UNCHANGED <<event, batch, op, range, cursor, ingested, spent>>

\* Every page of candidates is ingested; a replay creates none twice.
IngestPages(w) ==
  /\ worker[w].at = "pages"
  /\ ingested' = ingested \cup {result[1] : result \in worker[w].input}
  /\ Goto(w, "finish")
  /\ UNCHANGED <<event, batch, op, range, cons, cursor, spent>>

\* Faulty: the generation or the whole cursor is forgotten.
FinishKeepsGeneration(w) ==
  LET r == worker[w].op IN
  /\ worker[w].at = "finish"
  /\ cons' = [cons EXCEPT !.state = "completed", !.result = [kind |-> "final", input |-> {}]]
  /\ cursor' = [cursor EXCEPT !.through = range[r].through]
  /\ Goto(w, "complete")
  /\ UNCHANGED <<event, batch, op, range, ingested, spent>>

FinishWithoutCursor(w) ==
  /\ worker[w].at = "finish"
  /\ cons' = [cons EXCEPT !.state = "completed", !.result = [kind |-> "final", input |-> {}]]
  /\ Goto(w, "complete")
  /\ UNCHANGED <<event, batch, op, range, cursor, ingested, spent>>

\* The last transaction; the cursor is written whatever it holds.
Finish(w) ==
  LET r == worker[w].op IN
  /\ worker[w].at = "finish"
  /\ cons' = IF cons.op = r
             THEN [cons EXCEPT !.state = "completed", !.result = [kind |-> "final", input |-> {}]]
             ELSE cons
  /\ cursor' = [gen |-> range[r].gen, through |-> range[r].through]
  /\ Goto(w, "complete")
  /\ UNCHANGED <<event, batch, op, range, ingested, spent>>

\* completeLunaOperation.
Complete(w) ==
  /\ worker[w].at = "complete"
  /\ \/ Owns(w) /\ op' = Finished(worker[w].op) /\ worker' = [worker EXCEPT ![w] = Start]
     \/ ~Owns(w) /\ Throw(w) /\ UNCHANGED op
  /\ UNCHANGED <<event, batch, range, cons, cursor, ingested, spent>>

\* failLunaOperation or failLunaOperationLocally; without the lease it throws
\* out of the catch block.
FailOperation(w) ==
  LET o == worker[w].op
      category == worker[w].category
  IN
  /\ worker[w].at = "fail"
  /\ \/ /\ ~Owns(w)
        /\ worker' = [worker EXCEPT ![w] = Start]
        /\ UNCHANGED op
     \/ \E state \in {"retrying", "blocked"} :
          /\ Owns(w)
          /\ state = "blocked" \/ op[o].tries <= FastRetries
          /\ state = "retrying" \/ category = "model" \/ op[o].tries > FastRetries
          /\ op' = [op EXCEPT ![o].state = state, ![o].by = NoWorker, ![o].due = FALSE,
                               ![o].local = (category = "local")]
          /\ worker' = [worker EXCEPT ![w].at = "mirror", ![w].failed = state]
  /\ UNCHANGED <<event, batch, range, cons, cursor, ingested, spent>>

\* The Batch or the consolidation gets the state of its operation.
Mirror(w) ==
  LET o == worker[w].op
      failed == worker[w].failed
  IN
  /\ worker[w].at = "mirror"
  /\ IF o \in Batch
     THEN batch' = [batch EXCEPT ![o].state = failed] /\ UNCHANGED cons
     ELSE cons' = (IF cons.op = o THEN [cons EXCEPT !.state = failed] ELSE cons)
          /\ UNCHANGED batch
  /\ worker' = [worker EXCEPT ![w] =
       IF worker[w].category = "schema_invalid" /\ o \in Batch
       THEN [worker[w] EXCEPT !.at = "split"] ELSE Start]
  /\ UNCHANGED <<event, op, range, cursor, ingested, spent>>

\* splitLargeSchemaInvalidBatch: two children take the events over.
NotSplit(w) ==
  /\ worker[w].at = "split"
  /\ worker' = [worker EXCEPT ![w] = Start]
  /\ UNCHANGED store

\* The operation of the parent, unless somebody took it up again; faulty: always.
GivenUpAnyway(o) == TRUE
GivenUp(o) == op[o].state \in {"retrying", "blocked"}

\* The Batch an event of b goes to; faulty: the second half stays behind.
LeftHalf(b, at, e) == IF e <= at THEN NextBatch ELSE b
ChildOf(b, at, e) == IF e <= at THEN NextBatch ELSE NextBatch + 1

Split(w, at) ==
  LET b == worker[w].op
      left == {e \in EventsOf(b) : e <= at}
      child == {NextBatch, NextBatch + 1}
  IN
  /\ worker[w].at = "split" /\ spent.splits < MaxSplits
  /\ ~batch[b].split
  /\ left # {} /\ left # EventsOf(b)
  /\ event' = [e \in Event |-> IF event[e].batch = b
       THEN [event[e] EXCEPT !.batch = ChildOf(b, at, e)]
       ELSE event[e]]
  /\ batch' = [c \in Batch |->
       IF c = b THEN [batch[b] EXCEPT !.state = "blocked", !.split = TRUE]
       ELSE IF c \in child THEN [batch[c] EXCEPT !.state = "queued"] ELSE batch[c]]
  /\ op' = [o \in Op |->
       IF o = b /\ GivenUp(b)
       THEN [op[b] EXCEPT !.state = "dead_letter", !.due = FALSE]
       ELSE IF o \in child THEN Owned ELSE op[o]]
  /\ spent' = [spent EXCEPT !.splits = @ + 1]
  /\ worker' = [worker EXCEPT ![w] = Start]
  /\ UNCHANGED <<range, cons, cursor, ingested>>

-----------------------------------------------------------------------------
(***************************************************************************)
(* What goes wrong, and what helps.                                        *)
(***************************************************************************)
Crash(w) ==
  /\ worker[w].at # "recover" /\ spent.crashes < MaxCrashes
  /\ worker' = [worker EXCEPT ![w] = Start]
  /\ spent' = [spent EXCEPT !.crashes = @ + 1]
  /\ UNCHANGED <<event, batch, op, range, cons, cursor, ingested>>

\* A database step inside the try block throws and changes nothing.
Fault(w) ==
  /\ worker[w].try /\ spent.faults < MaxFaults
  /\ worker[w].at \in {"persist", "finalize", "queueBatch", "ingest", "cursor", "load",
                       "checkpoint", "pages", "finish", "complete"}
  /\ Throw(w)
  /\ spent' = [spent EXCEPT !.faults = @ + 1]
  /\ UNCHANGED <<event, batch, op, range, cons, cursor, ingested>>

\* A lease or a retry delay runs out; after six hours a blocked operation
\* whose model call failed may be probed.
TimePasses(o) ==
  LET held == \E w \in Worker : Owns(w) /\ worker[w].op = o
      probe == op[o].state = "blocked"
  IN
  /\ op[o].state \in {"processing", "retrying", "blocked"} /\ ~op[o].due
  /\ held => spent.overruns < MaxOverruns
  /\ probe => ~op[o].local /\ spent.help < MaxHelp
  /\ op' = [op EXCEPT ![o].due = TRUE]
  /\ spent' = [spent EXCEPT !.overruns = @ + (IF held THEN 1 ELSE 0),
                            !.help = @ + (IF probe THEN 1 ELSE 0)]
  /\ UNCHANGED <<event, batch, range, cons, cursor, ingested, worker>>

\* retryOperation: the operation alone is queued again.
Retry(o) ==
  /\ op[o].state \in {"blocked", "retrying"} /\ spent.help < MaxHelp
  /\ op' = [op EXCEPT ![o].state = "pending", ![o].due = FALSE, ![o].tries = 0]
  /\ spent' = [spent EXCEPT !.help = @ + 1]
  /\ UNCHANGED <<event, batch, range, cons, cursor, ingested, worker>>

Step(w) ==
  \/ Recover(w) \/ Select(w) \/ Assign(w) \/ Poll(w) \/ Claim(w) \/ Bind(w) \/ Mark(w)
  \/ Distill(w) \/ Persist(w) \/ Finalize(w) \/ QueueAfterBatch(w)
  \/ IngestBatch(w) \/ AdvanceCursor(w)
  \/ Load(w) \/ Consolidate(w) \/ Checkpoint(w) \/ IngestPages(w) \/ Finish(w)
  \/ Complete(w)
  \/ \E category \in {"model", "schema_invalid"} : ModelFails(w, category)
  \/ FailOperation(w) \/ Mirror(w) \/ NotSplit(w)
  \/ \E at \in Event : Split(w, at)

Next ==
  \/ \E w \in Worker : Step(w) \/ Crash(w) \/ Fault(w)
  \/ \E e \in Event, kind \in {"content", "end"}, turn \in Turn : Capture(e, kind, turn)
  \/ \E o \in Op : TimePasses(o) \/ Retry(o)

Spec == Init /\ [][Next]_vars

(***************************************************************************)
(* runWorker polls for ever, and leases and delays run out.  A lease lasts *)
(* for many polls (distillation.ts:1202), so that an operation that throws *)
(* whenever it is claimed is not in the way at every one of them.          *)
(***************************************************************************)
Abandoned == {o \in Ranges : Claimable(o) /\ cons.op # o}

FairSpec ==
  /\ Spec
  /\ \A w \in Worker : WF_vars(Step(w))
  /\ \A o \in Op : WF_vars(op[o].state # "blocked" /\ TimePasses(o))
  /\ []<><<Abandoned = {} /\ \E w \in Worker : Claim(w)>>_vars

-----------------------------------------------------------------------------
BatchState == {"absent", "queued", "processing", "retrying", "blocked", "completed"}
Place == {"recover", "prepare", "assign", "queue", "claim", "bind", "mark", "distill",
          "persist", "finalize", "queueBatch", "ingest", "cursor", "load", "consolidate",
          "checkpoint", "pages", "finish", "complete", "fail", "mirror", "split"}

TypeOK ==
  /\ event \in [Event -> [kind: {"absent", "content", "end"}, turn: Turn,
                          done: BOOLEAN, batch: Batch \cup {0}]]
  /\ batch \in [Batch -> [state: BatchState, split: BOOLEAN, version: Nat]]
  /\ op \in [Op -> [state: Live \cup {"absent", "completed", "dead_letter"},
                    by: Worker \cup {NoWorker}, due: BOOLEAN, tries: 0..FastRetries + 1,
                    local: BOOLEAN]]
  /\ range \in [Ranges -> [gen: Nat, from: Batch \cup {0}, through: Batch \cup {0}]]
  /\ cons.op \in Ranges \cup {0} /\ cons.state \in BatchState
  /\ cons.result.kind \in {"null", "checkpoint", "final"}
  /\ cons.result.input \subseteq Batch \X Nat
  /\ cursor \in [gen: Nat, through: Batch \cup {0}]
  /\ ingested \subseteq Batch
  /\ \A w \in Worker :
       /\ worker[w].at \in Place /\ worker[w].op \in Op \cup {0}
       /\ worker[w].selected \subseteq Event

(***************************************************************************)
(* The cursor never passes a Batch whose candidates were not ingested: a   *)
(* range is consolidated from every Batch in it (distillation.ts:1356).    *)
(***************************************************************************)
NoBatchSkipped == \A b \in Batches : b <= cursor.through => b \in ingested

(***************************************************************************)
(* Once the cursor has passed the Batch of a SessionEnd, what the session  *)
(* said before that SessionEnd has been ingested.                          *)
(***************************************************************************)
SessionEndCovered ==
  \A e \in Event :
    event[e].kind = "end" /\ event[e].batch \in 1..cursor.through =>
      \A d \in Event : d < e /\ event[d].kind = "content" => event[d].batch \in ingested

(***************************************************************************)
(* Nothing is called done before it is: an event is marked completed, and  *)
(* so given up to retention (capture/retention.ts), only when its Batch is *)
(* distilled; a completed operation's Batch has its result, and its range  *)
(* is behind the cursor.                                                   *)
(***************************************************************************)
CompletedIsDone ==
  /\ \A e \in Event : event[e].done => batch[event[e].batch].state = "completed"
  /\ \A b \in Batch : op[b].state = "completed" => batch[b].state = "completed"
  /\ \A r \in Ranges : op[r].state = "completed" => range[r].through <= cursor.through

(***************************************************************************)
(* Ranges are consolidated one after the other and none overlaps another,  *)
(* so that no key is used twice.                                           *)
(***************************************************************************)
RangesDisjoint ==
  \A r, s \in Ranges :
    op[r].state # "absent" /\ op[s].state # "absent" /\ r < s =>
      range[r].through < range[s].from /\ range[r].gen < range[s].gen

(***************************************************************************)
(* An event belongs to a Batch that will be distilled: a split moves all   *)
(* events of the Batch it gives up (distillation.ts:1070).                 *)
(***************************************************************************)
NoEventStranded ==
  \A e \in Event : event[e].batch # 0 =>
    /\ event[e].batch \in Batches
    /\ op[event[e].batch].state # "dead_letter"

(***************************************************************************)
(* Two Workers that selected the same events do not both put them into a   *)
(* Batch: an event changes its Batch only when that Batch is split.        *)
(***************************************************************************)
EventsAssignedOnce ==
  [][\A e \in Event : event[e].batch # 0 /\ event'[e].batch # event[e].batch =>
       batch'[event[e].batch].split]_vars

(***************************************************************************)
(* Every consolidation that may still be claimed is the one the session's  *)
(* row is bound to; any other is refused for ever (distillation.ts:1232).  *)
(***************************************************************************)
ConsolidationBound == \A r \in Ranges : op[r].state \in Live => cons.op = r

(***************************************************************************)
(* An unfinished consolidation can reuse what its row has stored: nothing, *)
(* or a checkpoint of just the Batch results it will read.                 *)
(***************************************************************************)
CheckpointReusable ==
  cons.op # 0 /\ cons.state # "completed" =>
    cons.result \in {NoResult, [kind |-> "checkpoint", input |-> Results(cons.op)]}

(***************************************************************************)
(* The cursor never moves back, so nothing is consolidated again.          *)
(***************************************************************************)
CursorAdvances ==
  [][cursor' # cursor => cursor'.gen > cursor.gen /\ cursor'.through >= cursor.through]_vars

(***************************************************************************)
(* The pipeline keeps the promises of LeaseQueue for its operations,       *)
(* including those it inserts and closes outside the queue's own code.     *)
(***************************************************************************)
Queue == INSTANCE LeaseQueue WITH
  state <- [o \in Op |-> op[o].state],
  holder <- [o \in Op |-> op[o].by]

ImplementsLeaseQueue == Queue!LQSpec

(***************************************************************************)
(* What a session said before a SessionEnd is ingested at last, or one of  *)
(* its operations is blocked where an operator can see it.                 *)
(***************************************************************************)
Heard(e) == \A d \in Event : d < e /\ event[d].kind = "content" => event[d].batch \in ingested

EndedSessionIsHeard ==
  \A e \in Event : event[e].kind = "end" ~> Heard(e) \/ \E o \in Op : op[o].state = "blocked"
=============================================================================
