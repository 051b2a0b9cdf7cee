------------------------------ MODULE LunaQueue ------------------------------
(***************************************************************************)
(* The durable queue of background model operations, src/luna/operations.ts*)
(* and src/luna/recovery-policy.ts: the table luna_operations and the      *)
(* processes that claim, complete and fail its rows.                       *)
(*                                                                         *)
(* A row is claimed under a fresh lease token; a process remembers only    *)
(* the operation and the token it was given.  Every write is one SQLite    *)
(* transaction, hence one action.  Wall-clock conditions are abstracted to *)
(* one flag per row: "due" says that the deadline the row waits for in its *)
(* state has passed (next_retry_at, lease_until, or updated_at plus the    *)
(* six-hour cooldown), and TimePasses sets it.                             *)
(***************************************************************************)
EXTENDS Integers, FiniteSets

CONSTANTS
  MaxOps,          \* rows ever inserted, numbered in order of created_at
  Worker,          \* processes that call claimLunaOperation
  NoWorker,
  FastRetries,     \* retrySeconds.length
  MaxRecoveries,   \* maximumConnectionRecoveryAttempts
  MaxCrashes,      \* bound: processes that die holding an operation
  MaxOverruns,     \* bound: leases that run out under a live process
  MaxManual        \* bound: explicit retries by the operator

ASSUME LunaQueueAssumption ==
  /\ MaxOps \in Nat /\ FastRetries \in Nat /\ MaxRecoveries \in Nat
  /\ MaxCrashes \in Nat /\ MaxOverruns \in Nat /\ MaxManual \in Nat
  /\ NoWorker \notin Worker

Op == 1..MaxOps
Kind == {"consolidate_session", "distill_batch"}
Category == {"transient", "authentication", "schema_invalid",
             "invalid_configuration", "input_too_large", "local_processing"}
\* last_error_category, as far as the recovery policy tells it apart.
ErrorClass == {"none", "transient", "authentication", "other"}
RawClass(category) == category    \* faulty: the class is not derived
ClassOf(category) ==
  IF category \in {"transient", "authentication"} THEN category ELSE "other"

Live == {"pending", "processing", "retrying", "blocked"}
RowState == Live \cup {"absent", "completed", "dead_letter"}
Phase == {"idle", "working", "splitting"}

VARIABLES
  row,        \* luna_operations
  mem,        \* what each process holds in memory
  nextToken,  \* the next lease token randomUUID will return
  healthy,    \* luna_health_state.state = 'healthy'
  crashes, overruns, manual

vars == <<row, mem, nextToken, healthy, crashes, overruns, manual>>
budgets == <<crashes, overruns, manual>>

NoToken == 0
Row == [state: RowState, kind: Kind, token: Nat, by: Worker \cup {NoWorker}, attempts: Nat,
        recoveries: Nat, category: ErrorClass, due: BOOLEAN, evidence: BOOLEAN]
Memory == [phase: Phase, op: Op \cup {0}, token: Nat]

NoRow == [state |-> "absent", kind |-> "distill_batch", token |-> NoToken,
          by |-> NoWorker, attempts |-> 0, recoveries |-> 0,
          category |-> "none", due |-> FALSE, evidence |-> FALSE]
Idle == [phase |-> "idle", op |-> 0, token |-> NoToken]

Init ==
  /\ row = [o \in Op |-> NoRow]
  /\ mem = [w \in Worker |-> Idle]
  /\ nextToken = 1
  /\ healthy = TRUE
  /\ crashes = 0 /\ overruns = 0 /\ manual = 0

-----------------------------------------------------------------------------
(***************************************************************************)
(* The recovery policy.                                                    *)
(***************************************************************************)

\* modelRetryDecision: the state a failed row goes to.
RetryDecision(attempts, recoveries, retryable) ==
  IF ~retryable \/ recoveries > 0 \/ attempts > FastRetries
  THEN "blocked" ELSE "retrying"

Retryable(category) ==
  category \in {"transient", "schema_invalid", "local_processing"}

\* Faulty: probes without end.
CandidateForEver(r) ==
  /\ r.state = "blocked"
  /\ \/ r.category = "authentication" /\ r.attempts >= 1
     \/ r.category = "transient" /\ (r.attempts > FastRetries \/ r.recoveries > 0)

\* recoveryCandidateSql: blocked rows an automatic probe may still take.
RecoveryCandidate(r) ==
  /\ r.state = "blocked"
  /\ \/ r.category = "authentication" /\ r.attempts >= 1
     \/ r.category = "transient" /\ (r.attempts > FastRetries \/ r.recoveries > 0)
  /\ r.recoveries < MaxRecoveries

\* Faulty: a lease that ran out is not taken over.
EligibleUnleased(r) ==
  \/ r.state = "pending"
  \/ r.state = "retrying" /\ r.due
  \/ RecoveryCandidate(r) /\ r.due /\ healthy /\ r.evidence

\* The WHERE clause of claimLunaOperation's selection.
Eligible(r) ==
  \/ r.state = "pending"
  \/ r.state \in {"retrying", "processing"} /\ r.due
  \/ RecoveryCandidate(r) /\ r.due /\ healthy /\ r.evidence

\* Its ORDER BY: consolidations first, then the oldest row.
Before(o, p) ==
  \/ row[o].kind = "consolidate_session" /\ row[p].kind = "distill_batch"
  \/ row[o].kind = row[p].kind /\ o < p

Selected(o) ==
  /\ Eligible(row[o])
  /\ \A p \in Op \ {o} : Eligible(row[p]) => Before(o, p)

\* Faulty: the token is not compared.
OwnsByState(w) ==
  /\ mem[w].phase = "working"
  /\ row[mem[w].op].state = "processing"

\* The WHERE clause that guards completion and failure.
Owns(w) ==
  /\ mem[w].phase = "working"
  /\ row[mem[w].op].state = "processing"
  /\ row[mem[w].op].token = mem[w].token

\* modelRecoveryEvidenceSql: last_success_at > updated_at, for the rows in
\* "later".  Only the selection of blocked rows reads it, so only theirs is kept.
WithEvidence(rows, later) ==
  [o \in Op |-> [rows[o] EXCEPT !.evidence = (rows[o].state = "blocked" /\ o \in later)]]

-----------------------------------------------------------------------------
(***************************************************************************)
(* Operations.                                                             *)
(***************************************************************************)

\* INSERT of a pending row (rows are numbered in the order of created_at).
Enqueue(o, k) ==
  /\ row[o].state = "absent"
  /\ \A p \in Op : p < o => row[p].state # "absent"
  /\ row' = [row EXCEPT ![o] = [NoRow EXCEPT !.state = "pending", !.kind = k]]
  /\ UNCHANGED <<mem, nextToken, healthy, budgets>>

\* claimLunaOperation: select and lease in one transaction.
Claim(w, o) ==
  /\ mem[w].phase = "idle"
  /\ Selected(o)
  /\ row' = [row EXCEPT ![o] =
       [@ EXCEPT !.recoveries = row[o].recoveries
                                  + (IF row[o].state = "blocked" THEN 1 ELSE 0),
                 !.state = "processing", !.attempts = row[o].attempts + 1,
                 !.token = nextToken, !.by = w, !.due = FALSE,
                 !.evidence = FALSE]]
  /\ mem' = [mem EXCEPT ![w] = [phase |-> "working", op |-> o, token |-> nextToken]]
  /\ nextToken' = nextToken + 1
  /\ UNCHANGED <<healthy, budgets>>

\* completeLunaOperation.
Complete(w) ==
  /\ Owns(w)
  /\ LET o == mem[w].op IN
       row' = WithEvidence(
                [row EXCEPT ![o] = [@ EXCEPT !.state = "completed", !.token = NoToken,
                     !.by = NoWorker, !.category = "none", !.due = FALSE]], Op)
  /\ mem' = [mem EXCEPT ![w] = Idle]
  /\ healthy' \in {healthy, TRUE}
  /\ UNCHANGED <<nextToken, budgets>>

\* failLunaOperation, and failLunaOperationLocally for "local_processing".
\* A schema_invalid failure of a Batch goes on to the split.
Fail(w, category) ==
  /\ Owns(w)
  /\ LET o == mem[w].op
         r == row[o]
     IN /\ row' = [row EXCEPT ![o] =
              [@ EXCEPT !.state = RetryDecision(r.attempts, r.recoveries,
                                                Retryable(category)),
                        !.token = NoToken, !.by = NoWorker,
                        !.category = ClassOf(category), !.due = FALSE, !.evidence = FALSE]]
        /\ mem' = [mem EXCEPT ![w] =
              IF category = "schema_invalid" /\ r.kind = "distill_batch"
              THEN [phase |-> "splitting", op |-> o, token |-> NoToken] ELSE Idle]
  /\ healthy' \in CASE category = "local_processing" -> {healthy}
                    [] category \in {"authentication", "invalid_configuration"} -> {FALSE}
                    [] OTHER -> {healthy, FALSE}
  /\ UNCHANGED <<nextToken, budgets>>

\* Faulty: gives up a row that was finished meanwhile.
GivenUpAnyway(r) == TRUE

\* state IN ('retrying', 'blocked')
GivenUp(r) == r.state \in {"retrying", "blocked"}

\* splitLargeSchemaInvalidBatch: the failed row is given up only if nobody
\* took it meanwhile, the two halves are queued in any case.
Split(w, c) ==
  /\ mem[w].phase = "splitting"
  /\ {c, c + 1} \subseteq Op
  /\ \A p \in Op : row[p].state = "absent" <=> p >= c
  /\ LET o == mem[w].op IN
       row' = [p \in Op |->
                 IF p = o /\ GivenUp(row[o])
                 THEN [row[o] EXCEPT !.state = "dead_letter", !.due = FALSE,
                                     !.evidence = FALSE]
                 ELSE IF p \in {c, c + 1} THEN [NoRow EXCEPT !.state = "pending"]
                 ELSE row[p]]
  /\ mem' = [mem EXCEPT ![w] = Idle]
  /\ UNCHANGED <<nextToken, healthy, budgets>>

\* The Batch is small, or was split before.
NotSplit(w) ==
  /\ mem[w].phase = "splitting"
  /\ mem' = [mem EXCEPT ![w] = Idle]
  /\ UNCHANGED <<row, nextToken, healthy, budgets>>

\* "Luna operation lease is not owned.": the process gives up its work.
LoseLease(w) ==
  /\ mem[w].phase = "working" /\ ~Owns(w)
  /\ mem' = [mem EXCEPT ![w] = Idle]
  /\ UNCHANGED <<row, nextToken, healthy, budgets>>

\* The process dies, or an iteration of it ends in an exception.
Crash(w) ==
  /\ mem[w].phase # "idle" /\ crashes < MaxCrashes
  /\ mem' = [mem EXCEPT ![w] = Idle]
  /\ crashes' = crashes + 1
  /\ UNCHANGED <<row, nextToken, healthy, overruns, manual>>

\* The deadline the row waits for passes; a lease may run out while its
\* holder is still waiting for the model.
TimePasses(o) ==
  /\ row[o].state \in {"processing", "retrying", "blocked"} /\ ~row[o].due
  /\ LET held == \E w \in Worker : Owns(w) /\ mem[w].op = o
     IN /\ held => overruns < MaxOverruns
        /\ overruns' = overruns + (IF held THEN 1 ELSE 0)
  /\ row' = [row EXCEPT ![o].due = TRUE]
  /\ UNCHANGED <<mem, nextToken, healthy, crashes, manual>>

\* retryOperation of src/operations/maintenance.ts on one row, and
\* retryBlockedLunaOperations on all blocked ones: a new retry epoch.
Retry(again) ==
  /\ manual < MaxManual
  /\ again # {}
  /\ \/ again = {o \in Op : row[o].state = "blocked"}
     \/ \E o \in Op : again = {o} /\ row[o].state \in {"blocked", "retrying"}
  /\ row' = [o \in Op |-> IF o \in again
                          THEN [row[o] EXCEPT !.state = "pending", !.attempts = 0,
                                  !.recoveries = 0, !.due = FALSE, !.evidence = FALSE]
                          ELSE row[o]]
  /\ manual' = manual + 1
  /\ UNCHANGED <<mem, nextToken, healthy, crashes, overruns>>

\* Faulty: closes the row in any state.
CloseAnyLifecycleOnly(o) ==
  /\ row[o].state # "absent" /\ row[o].kind = "distill_batch"
  /\ row' = [row EXCEPT ![o] = [@ EXCEPT !.state = "completed",
                             !.category = "none", !.due = FALSE, !.evidence = FALSE]]
  /\ UNCHANGED <<mem, nextToken, healthy, budgets>>

\* recoverNextBlockedLifecycleOnlyBatch closes a blocked row without a model.
CloseLifecycleOnly(o) ==
  /\ row[o].state = "blocked" /\ row[o].kind = "distill_batch"
  /\ row' = [row EXCEPT ![o] = [@ EXCEPT !.state = "completed",
                             !.category = "none", !.due = FALSE, !.evidence = FALSE]]
  /\ UNCHANGED <<mem, nextToken, healthy, budgets>>

\* recordLunaWorkSuccess and recordLunaWorkFailure: governance, quality and
\* duplicate work shares the model's health with this queue.  It dates a
\* success at the start of the Worker's iteration, so last_success_at is
\* later than the updated_at of only some of the rows, or even moves back.
OtherWorkSucceeds ==
  /\ \E later \in SUBSET Op : row' = WithEvidence(row, later)
  /\ healthy' \in {healthy, TRUE}
  /\ UNCHANGED <<mem, nextToken, budgets>>

OtherWorkFails ==
  /\ healthy' = FALSE
  /\ UNCHANGED <<row, mem, nextToken, budgets>>

Work(w) == \/ Complete(w) \/ LoseLease(w) \/ NotSplit(w)
           \/ \E category \in Category : Fail(w, category)
           \/ \E c \in Op : Split(w, c)

Next ==
  \/ \E w \in Worker : Work(w) \/ Crash(w) \/ \E o \in Op : Claim(w, o)
  \/ \E o \in Op : TimePasses(o) \/ CloseLifecycleOnly(o)
                   \/ \E k \in Kind : Enqueue(o, k)
  \/ \E again \in SUBSET Op : Retry(again)
  \/ OtherWorkSucceeds \/ OtherWorkFails

Spec == Init /\ [][Next]_vars

(***************************************************************************)
(* A process that claimed a row goes on with it, an idle one claims what   *)
(* it can (runWorker polls without end), and the clock advances.           *)
(***************************************************************************)
Fairness ==
  /\ \A w \in Worker : WF_vars(Work(w)) /\ WF_vars(\E o \in Op : Claim(w, o))
  /\ \A o \in Op : WF_vars(TimePasses(o))

FairSpec == Spec /\ Fairness

-----------------------------------------------------------------------------
TypeOK ==
  /\ row \in [Op -> Row]
  /\ mem \in [Worker -> Memory]
  /\ nextToken \in Nat \ {0}
  /\ healthy \in BOOLEAN
  /\ crashes \in Nat /\ overruns \in Nat /\ manual \in Nat

(***************************************************************************)
(* However leases run out and are taken over, the only process that can    *)
(* still complete or fail an operation is the one it was last leased to:   *)
(* every other process that ever claimed it holds a token the row no       *)
(* longer has (operations.ts:490, 640).                                    *)
(***************************************************************************)
OneOwner == \A w \in Worker : Owns(w) => row[mem[w].op].by = w

(***************************************************************************)
(* Within one retry epoch the model is called for an operation at most     *)
(* seven times plus once per recovery probe, of which there are at most    *)
(* two; only a crash or an overrun lease adds an attempt.                  *)
(***************************************************************************)
AttemptBudget ==
  \A o \in Op :
    /\ row[o].recoveries <= MaxRecoveries
    /\ row[o].attempts <= FastRetries + 1 + row[o].recoveries + crashes + overruns

(***************************************************************************)
(* The queue implements LeaseQueue: only the latest claimer of a row ever  *)
(* completes or fails it, and a finished row is never taken up again.      *)
(***************************************************************************)
Abstract == INSTANCE LeaseQueue WITH
  state <- [o \in Op |-> row[o].state],
  holder <- [o \in Op |-> row[o].by]

ImplementsLeaseQueue == Abstract!LQSpec

(***************************************************************************)
(* A queued operation does not stay in flight for ever: it is completed,   *)
(* given up for its halves, or blocked where an operator can see it, even  *)
(* if its process dies.                                                    *)
(***************************************************************************)
EveryOperationSettles ==
  \A o \in Op : row[o].state = "pending" ~>
    row[o].state \in {"completed", "dead_letter", "blocked"}
=============================================================================
