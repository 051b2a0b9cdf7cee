--------------------------- MODULE LunaQueueProofs ---------------------------
(***************************************************************************)
(* Theorems about LunaQueue, for any number of operations, Workers, leases *)
(* that run out, crashes and retries.                                      *)
(***************************************************************************)
EXTENDS LunaQueue, TLAPS

(***************************************************************************)
(* Why at most one process owns an operation: a token is handed out once,  *)
(* so no two processes that work hold the same one.                        *)
(***************************************************************************)
TokensUnique ==
  /\ \A w \in Worker : mem[w].token < nextToken
  /\ \A w \in Worker : mem[w].phase = "working" => mem[w].op \in Op
  /\ \A w \in Worker : mem[w].phase = "splitting" => mem[w].op \in Op
  /\ \A v, w \in Worker :
       mem[v].phase = "working" /\ mem[w].phase = "working"
         /\ mem[v].token = mem[w].token => v = w

(***************************************************************************)
(* A row names a process exactly while it is leased.                       *)
(***************************************************************************)
LeaseNamed ==
  \A o \in Op : row[o].by # NoWorker <=> row[o].state = "processing"

Inv == TypeOK /\ TokensUnique /\ LeaseNamed /\ OneOwner

-----------------------------------------------------------------------------
(***************************************************************************)
(* The literals the operations write belong to the types of their columns. *)
(***************************************************************************)
LEMMA Literals ==
  /\ \A s \in Live : s \in RowState
  /\ {"pending", "processing", "retrying", "blocked"} \subseteq Live
  /\ {"absent", "completed", "dead_letter"} \subseteq RowState
  /\ "none" \in ErrorClass /\ "distill_batch" \in Kind
  /\ NoToken \in Nat /\ NoWorker \in Worker \cup {NoWorker}
  /\ {"idle", "working", "splitting"} \subseteq Phase
  BY DEF Live, RowState, ErrorClass, Kind, NoToken, Phase

(***************************************************************************)
(* The helpers keep the types of the columns they compute.                 *)
(***************************************************************************)
LEMMA ClassType == ASSUME NEW category \in Category PROVE ClassOf(category) \in ErrorClass
  BY DEF ClassOf, Category, ErrorClass

LEMMA DecisionType ==
  ASSUME NEW a, NEW r, NEW retryable
  PROVE  RetryDecision(a, r, retryable) \in {"blocked", "retrying"}
  BY DEF RetryDecision

LEMMA RecordTypes == NoRow \in Row /\ Idle \in Memory
  BY Literals DEF NoRow, Row, Idle, Memory

\* What Complete makes of the rows, before the evidence is brought up to date.
Done(o) == [row EXCEPT ![o] = [@ EXCEPT !.state = "completed", !.token = NoToken,
                     !.by = NoWorker, !.category = "none", !.due = FALSE]]

LEMMA DoneType ==
  ASSUME TypeOK, NEW o \in Op
  PROVE  /\ Done(o) \in [Op -> Row]
         /\ Done(o)[o].state = "completed" /\ Done(o)[o].by = NoWorker
<1>1. row[o] \in Row /\ row \in [Op -> Row]
  BY DEF TypeOK
<1>2. [row[o] EXCEPT !.state = "completed", !.token = NoToken, !.by = NoWorker,
                     !.category = "none", !.due = FALSE] \in Row
  BY <1>1, Literals DEF Row
<1>3. [row[o] EXCEPT !.state = "completed", !.token = NoToken, !.by = NoWorker,
                     !.category = "none", !.due = FALSE].state = "completed"
  BY <1>1 DEF Row
<1>4. [row[o] EXCEPT !.state = "completed", !.token = NoToken, !.by = NoWorker,
                     !.category = "none", !.due = FALSE].by = NoWorker
  BY <1>1 DEF Row
<1> QED BY <1>1, <1>2, <1>3, <1>4 DEF Done

LEMMA EvidenceKeeps ==
  ASSUME NEW rows \in [Op -> Row], NEW later, NEW p \in Op
  PROVE  /\ WithEvidence(rows, later)[p].state = rows[p].state
         /\ WithEvidence(rows, later)[p].by = rows[p].by
         /\ WithEvidence(rows, later)[p].attempts = rows[p].attempts
         /\ WithEvidence(rows, later)[p].recoveries = rows[p].recoveries
  BY DEF WithEvidence, Row

LEMMA EvidenceType ==
  ASSUME NEW rows \in [Op -> Row], NEW later
  PROVE  WithEvidence(rows, later) \in [Op -> Row]
  BY DEF WithEvidence, Row

(***************************************************************************)
(* Every step keeps the types of the tables and of the processes' memory.  *)
(***************************************************************************)
LEMMA TypeStep == Inv /\ [Next]_vars => TypeOK'
<1> SUFFICES ASSUME Inv, [Next]_vars PROVE TypeOK'
  OBVIOUS
<1> USE DEF TypeOK, Inv
<1>1. ASSUME NEW o \in Op, NEW k \in Kind, Enqueue(o, k) PROVE TypeOK'
  <2>1. [NoRow EXCEPT !.state = "pending", !.kind = k] \in Row
    BY RecordTypes, Literals DEF Row
  <2> QED BY <1>1, <2>1 DEF Enqueue, budgets
<1>2. ASSUME NEW w \in Worker, NEW o \in Op, Claim(w, o) PROVE TypeOK'
  <2>1. row' \in [Op -> Row]
    <3> DEFINE recoveries == row[o].recoveries + (IF row[o].state = "blocked" THEN 1 ELSE 0)
    <3>1. row[o] \in Row /\ recoveries \in Nat /\ row[o].attempts + 1 \in Nat
      BY DEF Row
    <3> HIDE DEF recoveries
    <3>2. [row[o] EXCEPT !.recoveries = recoveries, !.state = "processing",
             !.attempts = row[o].attempts + 1, !.token = nextToken, !.by = w,
             !.due = FALSE, !.evidence = FALSE] \in Row
      BY <3>1, Literals DEF Row
    <3> QED BY <1>2, <3>2 DEF Claim, recoveries
  <2>2. mem' \in [Worker -> Memory]
    BY <1>2, Literals DEF Claim, Memory
  <2> QED BY <1>2, <2>1, <2>2 DEF Claim, budgets
<1>3. ASSUME NEW w \in Worker, Complete(w) PROVE TypeOK'
  <2>1. row' = WithEvidence(Done(mem[w].op), Op)
    BY <1>3 DEF Complete, Done
  <2>2. mem[w].op \in Op
    BY <1>3 DEF Complete, Owns, TokensUnique
  <2>5. row' \in [Op -> Row]
    BY <2>1, <2>2, DoneType, EvidenceType
  <2>6. mem' \in [Worker -> Memory]
    BY <1>3, RecordTypes DEF Complete
  <2> QED BY <1>3, <2>5, <2>6 DEF Complete, budgets
<1>4. ASSUME NEW w \in Worker, NEW category \in Category, Fail(w, category) PROVE TypeOK'
  <2> DEFINE r == row[mem[w].op]
             s == RetryDecision(r.attempts, r.recoveries, Retryable(category))
  <2>1. mem[w].op \in Op /\ r \in Row
    BY <1>4 DEF Fail, Owns, TokensUnique
  <2>2. s \in RowState
    BY DecisionType, Literals
  <2>3. row' = [row EXCEPT ![mem[w].op] =
              [r EXCEPT !.state = s, !.token = NoToken, !.by = NoWorker,
                        !.category = ClassOf(category), !.due = FALSE, !.evidence = FALSE]]
    BY <1>4 DEF Fail
  <2> HIDE DEF s, r
  <2>4. [r EXCEPT !.state = s, !.token = NoToken, !.by = NoWorker,
                  !.category = ClassOf(category), !.due = FALSE, !.evidence = FALSE] \in Row
    BY <2>1, <2>2, ClassType, Literals DEF Row
  <2>5. row' \in [Op -> Row]
    BY <2>3, <2>4
  <2>6. mem' \in [Worker -> Memory]
    BY <1>4, <2>1, RecordTypes, Literals DEF Fail, Memory
  <2>7. healthy' \in BOOLEAN
    BY <1>4 DEF Fail
  <2> QED BY <1>4, <2>5, <2>6, <2>7 DEF Fail, budgets
<1>5. ASSUME NEW w \in Worker, NEW c \in Op, Split(w, c) PROVE TypeOK'
  <2>1. \A o \in Op : [row[o] EXCEPT !.state = "dead_letter", !.due = FALSE,
                                      !.evidence = FALSE] \in Row
    BY Literals DEF Row
  <2>2. [NoRow EXCEPT !.state = "pending"] \in Row
    BY RecordTypes, Literals DEF Row
  <2>3. row' \in [Op -> Row]
    BY <1>5, <2>1, <2>2 DEF Split
  <2>4. mem' \in [Worker -> Memory]
    BY <1>5, RecordTypes DEF Split
  <2> QED BY <1>5, <2>3, <2>4 DEF Split, budgets
<1>6. ASSUME NEW w \in Worker, NotSplit(w) \/ LoseLease(w) \/ Crash(w) PROVE TypeOK'
  <2>1. mem' \in [Worker -> Memory]
    BY <1>6, RecordTypes DEF NotSplit, LoseLease, Crash
  <2> QED BY <1>6, <2>1 DEF NotSplit, LoseLease, Crash, budgets
<1>7. ASSUME NEW o \in Op, TimePasses(o) PROVE TypeOK'
  <2>1. row' \in [Op -> Row]
    BY <1>7 DEF TimePasses, Row
  <2> QED BY <1>7, <2>1 DEF TimePasses
<1>8. ASSUME NEW o \in Op, CloseLifecycleOnly(o) PROVE TypeOK'
  <2>1. [row[o] EXCEPT !.state = "completed", !.category = "none", !.due = FALSE,
                       !.evidence = FALSE] \in Row
    BY Literals DEF Row
  <2> QED BY <1>8, <2>1 DEF CloseLifecycleOnly, budgets
<1>9. ASSUME NEW again \in SUBSET Op, Retry(again) PROVE TypeOK'
  <2>1. \A o \in Op : [row[o] EXCEPT !.state = "pending", !.attempts = 0,
             !.recoveries = 0, !.due = FALSE, !.evidence = FALSE] \in Row
    BY Literals DEF Row
  <2>2. row' \in [Op -> Row]
    BY <1>9, <2>1 DEF Retry
  <2>3. manual' = manual + 1 /\ UNCHANGED <<mem, nextToken, healthy, crashes, overruns>>
    BY <1>9 DEF Retry
  <2> QED BY <2>2, <2>3
<1>10. CASE OtherWorkSucceeds
  <2>1. row' \in [Op -> Row]
    BY <1>10, EvidenceType DEF OtherWorkSucceeds
  <2> QED BY <1>10, <2>1 DEF OtherWorkSucceeds, budgets
<1>11. CASE OtherWorkFails
  BY <1>11 DEF OtherWorkFails, budgets
<1>12. CASE UNCHANGED vars
  BY <1>12 DEF vars, budgets
<1> QED
  BY <1>1, <1>2, <1>3, <1>4, <1>5, <1>6, <1>7, <1>8, <1>9, <1>10, <1>11, <1>12
  DEF Next, Work

(***************************************************************************)
(* A claim takes a token nobody has; no other step gives a process one.    *)
(***************************************************************************)
LEMMA TokensStep == Inv /\ [Next]_vars => TokensUnique'
<1> SUFFICES ASSUME Inv, [Next]_vars PROVE TokensUnique'
  OBVIOUS
<1> USE DEF Inv, TypeOK, TokensUnique
<1>1. ASSUME NEW w \in Worker, NEW o \in Op, Claim(w, o) PROVE TokensUnique'
  <2>1. nextToken' = nextToken + 1
        /\ mem' = [mem EXCEPT ![w] = [phase |-> "working", op |-> o, token |-> nextToken]]
    BY <1>1 DEF Claim
  <2>2. \A v \in Worker : mem[v].token \in Nat
    BY DEF Memory
  <2> QED BY <2>1, <2>2
<1>2. ASSUME NEW w \in Worker,
             \/ mem' = [mem EXCEPT ![w] = Idle]
             \/ \E o \in Op : mem' = [mem EXCEPT ![w] =
                                       [phase |-> "splitting", op |-> o, token |-> NoToken]],
             nextToken' = nextToken
      PROVE  TokensUnique'
  BY <1>2 DEF Idle, NoToken
<1>3. ASSUME UNCHANGED <<mem, nextToken>> PROVE TokensUnique'
  BY <1>3
<1>4. ASSUME NEW w \in Worker, Work(w) \/ Crash(w) PROVE TokensUnique'
  <2>1. CASE Complete(w) \/ LoseLease(w) \/ NotSplit(w) \/ Crash(w)
    BY <1>2, <2>1 DEF Complete, LoseLease, NotSplit, Crash
  <2>2. ASSUME NEW category \in Category, Fail(w, category) PROVE TokensUnique'
    <3>1. mem[w].op \in Op
      BY <2>2 DEF Fail, Owns
    <3> QED BY <1>2, <2>2, <3>1 DEF Fail
  <2>3. ASSUME NEW c \in Op, Split(w, c) PROVE TokensUnique'
    BY <1>2, <2>3 DEF Split
  <2> QED BY <1>4, <2>1, <2>2, <2>3 DEF Work
<1>5. ASSUME NEW o \in Op, TimePasses(o) \/ CloseLifecycleOnly(o)
                            \/ \E k \in Kind : Enqueue(o, k)
      PROVE  TokensUnique'
  BY <1>3, <1>5 DEF TimePasses, CloseLifecycleOnly, Enqueue
<1>6. ASSUME NEW again \in SUBSET Op, Retry(again) PROVE TokensUnique'
  BY <1>3, <1>6 DEF Retry
<1>7. CASE OtherWorkSucceeds \/ OtherWorkFails
  BY <1>3, <1>7 DEF OtherWorkSucceeds, OtherWorkFails
<1>8. CASE UNCHANGED vars
  BY <1>3, <1>8 DEF vars
<1> QED
  BY <1>1, <1>4, <1>5, <1>6, <1>7, <1>8 DEF Next

(***************************************************************************)
(* Every step but a claim leaves a lease as it is or ends it, and gives no *)
(* process an operation to work on.                                        *)
(***************************************************************************)
LeaseKept(o) ==
  \/ /\ row[o].state = "processing" /\ row'[o].state = "processing"
     /\ row'[o].by = row[o].by /\ row'[o].token = row[o].token
  \/ row'[o].state # "processing" /\ row'[o].by = NoWorker

WorkKept(w) == mem'[w].phase = "working" => mem'[w] = mem[w]

LEMMA OtherStep ==
  ASSUME Inv, [Next]_vars, ~\E w \in Worker, o \in Op : Claim(w, o)
  PROVE  (\A o \in Op : LeaseKept(o)) /\ (\A w \in Worker : WorkKept(w))
<1> USE DEF Inv, TypeOK, LeaseNamed, LeaseKept, WorkKept
<1>1. ASSUME NEW p \in Op PROVE LeaseKept(p)
  <2>1. ASSUME NEW o \in Op, NEW k \in Kind, Enqueue(o, k) PROVE LeaseKept(p)
    BY <2>1 DEF Enqueue, NoRow, Row
  <2>2. ASSUME NEW w \in Worker, Complete(w) PROVE LeaseKept(p)
    BY <2>2 DEF Complete, WithEvidence, Row
  <2>3. ASSUME NEW w \in Worker, NEW category \in Category, Fail(w, category)
        PROVE  LeaseKept(p)
    <3>1. CASE mem[w].op = p
      <4>1. row'[p] = [row[p] EXCEPT !.state = RetryDecision(row[p].attempts,
                     row[p].recoveries, Retryable(category)),
                     !.token = NoToken, !.by = NoWorker,
                     !.category = ClassOf(category), !.due = FALSE, !.evidence = FALSE]
        BY <2>3, <3>1 DEF Fail
      <4>2. RetryDecision(row[p].attempts, row[p].recoveries, Retryable(category))
              \in {"blocked", "retrying"}
        BY DecisionType
      <4> QED BY <4>1, <4>2 DEF Row
    <3>2. CASE mem[w].op # p
      BY <2>3, <3>2 DEF Fail, Row
    <3> QED BY <3>1, <3>2
  <2>4. ASSUME NEW w \in Worker, NEW c \in Op, Split(w, c) PROVE LeaseKept(p)
    BY <2>4 DEF Split, NoRow, Row, GivenUp
  <2>5. ASSUME NEW o \in Op, TimePasses(o) PROVE LeaseKept(p)
    BY <2>5 DEF TimePasses, Row
  <2>6. ASSUME NEW o \in Op, CloseLifecycleOnly(o) PROVE LeaseKept(p)
    BY <2>6 DEF CloseLifecycleOnly, Row
  <2>7. ASSUME NEW again \in SUBSET Op, Retry(again) PROVE LeaseKept(p)
    <3>1. row'[p] = IF p \in again
                    THEN [row[p] EXCEPT !.state = "pending", !.attempts = 0,
                            !.recoveries = 0, !.due = FALSE, !.evidence = FALSE]
                    ELSE row[p]
      BY <2>7 DEF Retry
    <3>2. p \in again => row[p].state \in {"blocked", "retrying"}
      BY <2>7 DEF Retry
    <3> QED BY <3>1, <3>2 DEF Row
  <2>8. CASE OtherWorkSucceeds
    BY <2>8 DEF OtherWorkSucceeds, WithEvidence, Row
  <2>9. CASE UNCHANGED row
    BY <2>9
  <2>10. CASE \/ \E w \in Worker : LoseLease(w) \/ NotSplit(w) \/ Crash(w)
              \/ OtherWorkFails \/ UNCHANGED vars
    BY <2>9, <2>10 DEF LoseLease, NotSplit, Crash, OtherWorkFails, vars
  <2> QED
    BY <2>1, <2>2, <2>3, <2>4, <2>5, <2>6, <2>7, <2>8, <2>10 DEF Next, Work
<1>2. ASSUME NEW v \in Worker PROVE WorkKept(v)
  <2>1. ASSUME NEW w \in Worker, Complete(w) \/ LoseLease(w) \/ NotSplit(w) \/ Crash(w)
        PROVE  WorkKept(v)
    <3>1. mem' = [mem EXCEPT ![w] = Idle]
      BY <2>1 DEF Complete, LoseLease, NotSplit, Crash
    <3> QED BY <3>1 DEF Idle
  <2>2. ASSUME NEW w \in Worker, NEW category \in Category, Fail(w, category)
        PROVE  WorkKept(v)
    BY <2>2 DEF Fail, Idle
  <2>3. ASSUME NEW w \in Worker, NEW c \in Op, Split(w, c) PROVE WorkKept(v)
    BY <2>3 DEF Split, Idle
  <2>4. CASE UNCHANGED mem
    BY <2>4
  <2>5. CASE \/ \E o \in Op : TimePasses(o) \/ CloseLifecycleOnly(o)
                              \/ \E k \in Kind : Enqueue(o, k)
             \/ \E again \in SUBSET Op : Retry(again)
             \/ OtherWorkSucceeds \/ OtherWorkFails \/ UNCHANGED vars
    BY <2>4, <2>5 DEF TimePasses, CloseLifecycleOnly, Enqueue, Retry, OtherWorkSucceeds,
                      OtherWorkFails, vars
  <2> QED
    BY <2>1, <2>2, <2>3, <2>5 DEF Next, Work
<1> QED BY <1>1, <1>2

(***************************************************************************)
(* The row goes on naming the only process that can finish it.             *)
(***************************************************************************)
LEMMA LeaseStep == Inv /\ [Next]_vars => LeaseNamed' /\ OneOwner'
<1> SUFFICES ASSUME Inv, [Next]_vars PROVE LeaseNamed' /\ OneOwner'
  OBVIOUS
<1>1. ASSUME NEW w \in Worker, NEW o \in Op, Claim(w, o) PROVE LeaseNamed' /\ OneOwner'
  <2> USE DEF Inv, TypeOK
  <2>1. row'[o].state = "processing" /\ row'[o].by = w /\ row'[o].token = nextToken
    BY <1>1 DEF Claim, Row
  <2>2. \A p \in Op \ {o} : row'[p] = row[p]
    BY <1>1 DEF Claim
  <2>3. mem' = [mem EXCEPT ![w] = [phase |-> "working", op |-> o, token |-> nextToken]]
    BY <1>1 DEF Claim
  <2>4. LeaseNamed'
    BY <2>1, <2>2, LunaQueueAssumption DEF LeaseNamed
  <2>5. ASSUME NEW v \in Worker, Owns(v)' PROVE row'[mem'[v].op].by = v
    <3>1. CASE v = w
      BY <2>1, <2>3, <3>1
    <3>2. CASE v # w
      <4>1. mem'[v] = mem[v] /\ mem[v].phase = "working" /\ mem[v].op \in Op
        BY <2>3, <2>5, <3>2 DEF Owns, TokensUnique
      <4>2. mem[v].token # nextToken
        BY DEF TokensUnique, Memory
      <4>3. mem[v].op # o
        BY <2>1, <2>5, <4>1, <4>2 DEF Owns
      <4> QED BY <2>2, <2>5, <4>1, <4>3 DEF Owns, OneOwner
    <3> QED BY <3>1, <3>2
  <2> QED BY <2>4, <2>5 DEF OneOwner
<1>2. CASE ~\E w \in Worker, o \in Op : Claim(w, o)
  <2>1. (\A o \in Op : LeaseKept(o)) /\ (\A w \in Worker : WorkKept(w))
    BY <1>2, OtherStep
  <2>2. LeaseNamed'
    BY <2>1 DEF LeaseKept, LeaseNamed, Inv
  <2>3. ASSUME NEW v \in Worker, Owns(v)' PROVE row'[mem'[v].op].by = v
    <3>1. mem'[v] = mem[v] /\ mem[v].phase = "working" /\ mem[v].op \in Op
      BY <2>1, <2>3 DEF WorkKept, Owns, Inv, TokensUnique
    <3> QED BY <2>1, <2>3, <3>1 DEF LeaseKept, Owns, OneOwner, Inv
  <2> QED BY <2>2, <2>3 DEF OneOwner
<1> QED BY <1>1, <1>2

LEMMA InvInit == Init => Inv
<1> SUFFICES ASSUME Init PROVE Inv
  OBVIOUS
<1>1. TypeOK
  BY RecordTypes DEF Init, TypeOK
<1>2. TokensUnique
  BY DEF Init, TokensUnique, Idle, NoToken
<1>3. LeaseNamed /\ OneOwner
  BY DEF Init, LeaseNamed, OneOwner, Owns, NoRow, Idle
<1> QED BY <1>1, <1>2, <1>3 DEF Inv

LEMMA InvStep == Inv /\ [Next]_vars => Inv'
  BY TypeStep, TokensStep, LeaseStep DEF Inv

(***************************************************************************)
(* The inductive invariant, and the types as a part of it.                 *)
(***************************************************************************)
THEOREM InvAlways == Spec => []Inv
  BY InvInit, InvStep, PTL DEF Spec

(***************************************************************************)
(* The rows of luna_operations and the processes' memory keep their types. *)
(***************************************************************************)
THEOREM TypeCorrect == Spec => []TypeOK
<1>1. Inv => TypeOK
  BY DEF Inv
<1> QED BY <1>1, InvAlways, PTL

(***************************************************************************)
(* Only the process an operation was last leased to can complete or fail   *)
(* it, whatever leases ran out and were taken over: claimLunaOperation     *)
(* writes a fresh token and the UPDATEs that finish a row ask for it       *)
(* (operations.ts:490, 553, 640).                                          *)
(***************************************************************************)
THEOREM OneOwnerAlways == Spec => []OneOwner
<1>1. Inv => OneOwner
  BY DEF Inv
<1> QED BY <1>1, InvAlways, PTL

-----------------------------------------------------------------------------
(***************************************************************************)
(* A row that waits for a fast retry is within the first budget, which the  *)
(* bound on all attempts rests on.                                         *)
(***************************************************************************)
RetriesInBudget ==
  \A o \in Op : row[o].state = "retrying" =>
    row[o].attempts <= FastRetries /\ row[o].recoveries = 0

LEMMA BudgetStep == Inv /\ RetriesInBudget /\ [Next]_vars => RetriesInBudget'
<1> SUFFICES ASSUME Inv, RetriesInBudget, [Next]_vars, NEW p \in Op,
                    row'[p].state = "retrying"
             PROVE  row'[p].attempts <= FastRetries /\ row'[p].recoveries = 0
  BY DEF RetriesInBudget
<1> USE DEF Inv, TypeOK, RetriesInBudget
<1> DEFINE Kept == /\ row[p].state = "retrying"
                   /\ row'[p].attempts = row[p].attempts
                   /\ row'[p].recoveries = row[p].recoveries
<1>1. Kept => row'[p].attempts <= FastRetries /\ row'[p].recoveries = 0
  OBVIOUS
<1>2. ASSUME NEW o \in Op, NEW k \in Kind, Enqueue(o, k) PROVE Kept
  BY <1>2 DEF Enqueue, NoRow, Row
<1>3. ASSUME NEW w \in Worker, NEW o \in Op, Claim(w, o) PROVE Kept
  BY <1>3 DEF Claim, Row
<1>4. ASSUME NEW w \in Worker, Complete(w) PROVE Kept
  <2>1. row' = WithEvidence(Done(mem[w].op), Op) /\ mem[w].op \in Op
    BY <1>4 DEF Complete, Done, Owns, TokensUnique
  <2>2. Done(mem[w].op) \in [Op -> Row] /\ Done(mem[w].op)[mem[w].op].state = "completed"
    BY <2>1, DoneType
  <2>3. mem[w].op # p
    BY <2>1, <2>2, EvidenceKeeps
  <2>4. Done(mem[w].op)[p] = row[p]
    BY <2>3 DEF Done
  <2> QED BY <2>1, <2>2, <2>4, EvidenceKeeps
<1>5. ASSUME NEW w \in Worker, NEW category \in Category, Fail(w, category), mem[w].op # p
      PROVE  Kept
  BY <1>5 DEF Fail, Row
<1>6. ASSUME NEW w \in Worker, NEW category \in Category, Fail(w, category), mem[w].op = p
      PROVE  row'[p].attempts <= FastRetries /\ row'[p].recoveries = 0
  <2>1. row[p].attempts \in Nat /\ row[p].recoveries \in Nat /\ FastRetries \in Nat
    BY LunaQueueAssumption DEF Row
  <2>2. row'[p] = [row[p] EXCEPT !.state = RetryDecision(row[p].attempts,
                     row[p].recoveries, Retryable(category)),
                     !.token = NoToken, !.by = NoWorker,
                     !.category = ClassOf(category), !.due = FALSE, !.evidence = FALSE]
    BY <1>6 DEF Fail
  <2>3. /\ RetryDecision(row[p].attempts, row[p].recoveries, Retryable(category)) = "retrying"
        /\ row'[p].attempts = row[p].attempts /\ row'[p].recoveries = row[p].recoveries
    BY <2>2 DEF Row
  <2>4. ~(row[p].recoveries > 0) /\ ~(row[p].attempts > FastRetries)
    BY <2>3 DEF RetryDecision
  <2> QED BY <2>1, <2>3, <2>4
<1>7. ASSUME NEW w \in Worker, NEW c \in Op, Split(w, c) PROVE Kept
  BY <1>7 DEF Split, NoRow, Row
<1>8. ASSUME NEW o \in Op, TimePasses(o) PROVE Kept
  BY <1>8 DEF TimePasses, Row
<1>9. ASSUME NEW o \in Op, CloseLifecycleOnly(o) PROVE Kept
  BY <1>9 DEF CloseLifecycleOnly, Row
<1>10. ASSUME NEW again \in SUBSET Op, Retry(again) PROVE Kept
  <2>1. row'[p] = IF p \in again
                  THEN [row[p] EXCEPT !.state = "pending", !.attempts = 0,
                          !.recoveries = 0, !.due = FALSE, !.evidence = FALSE]
                  ELSE row[p]
    BY <1>10 DEF Retry
  <2> QED BY <2>1 DEF Row
<1>11. CASE OtherWorkSucceeds
  BY <1>11 DEF OtherWorkSucceeds, WithEvidence, Row
<1>12. CASE UNCHANGED row
  BY <1>12
<1>13. CASE \/ \E w \in Worker : LoseLease(w) \/ NotSplit(w) \/ Crash(w)
            \/ OtherWorkFails \/ UNCHANGED vars
  BY <1>12, <1>13, <1>1 DEF LoseLease, NotSplit, Crash, OtherWorkFails, vars
<1> HIDE DEF Kept
<1> QED
  BY <1>1, <1>2, <1>3, <1>4, <1>5, <1>6, <1>7, <1>8, <1>9, <1>10, <1>11, <1>13 DEF Next, Work

-----------------------------------------------------------------------------
(***************************************************************************)
(* Every attempt beyond the budget is paid for: a row that is leased to no  *)
(* live owner, or whose lease ran out, still has the attempt that its next  *)
(* claimer makes, because a crash or an overrun was counted for it.         *)
(***************************************************************************)
Held(o) == \E w \in Worker : Owns(w) /\ mem[w].op = o

Allowed(o) == FastRetries + 1 + row[o].recoveries + crashes + overruns

AttemptsPaid(o) ==
  /\ row[o].recoveries <= MaxRecoveries
  /\ row[o].state = "pending" => row[o].attempts = 0
  /\ row[o].attempts <= Allowed(o)
  /\ row[o].state = "processing" /\ (row[o].due \/ ~Held(o)) => row[o].attempts + 1 <= Allowed(o)

AttemptsInv == \A o \in Op : AttemptsPaid(o)

LEMMA Counted ==
  ASSUME TypeOK, NEW p \in Op
  PROVE  /\ row[p].attempts \in Nat /\ row[p].recoveries \in Nat /\ row[p].due \in BOOLEAN
         /\ crashes \in Nat /\ overruns \in Nat /\ FastRetries \in Nat /\ MaxRecoveries \in Nat
         /\ row[p] \in Row /\ row \in [Op -> Row]
<1>1. row[p] \in Row
  BY DEF TypeOK
<1> QED BY <1>1, LunaQueueAssumption DEF TypeOK, Row

(***************************************************************************)
(* A row that a step leaves alone, and whose owner it leaves alone.         *)
(***************************************************************************)
LEMMA PaidStays ==
  ASSUME TypeOK, NEW p \in Op, AttemptsPaid(p),
         row'[p].state = row[p].state, row'[p].attempts = row[p].attempts,
         row'[p].recoveries = row[p].recoveries, row'[p].due = row[p].due,
         crashes' \in Nat, overruns' \in Nat, crashes' >= crashes, overruns' >= overruns,
         Held(p) => Held(p)'
  PROVE  AttemptsPaid(p)'
<1>1. Allowed(p) <= Allowed(p)' /\ Allowed(p) \in Nat /\ Allowed(p)' \in Nat
  BY Counted DEF Allowed
<1> QED BY <1>1, Counted DEF AttemptsPaid

(***************************************************************************)
(* A process that holds a row goes on holding it when row and process are   *)
(* left alone.                                                              *)
(***************************************************************************)
LEMMA HeldStays ==
  ASSUME NEW p \in Op, row'[p].state = row[p].state, row'[p].token = row[p].token,
         \A v \in Worker : Owns(v) /\ mem[v].op = p => mem'[v] = mem[v]
  PROVE  Held(p) => Held(p)'
<1> SUFFICES ASSUME NEW v \in Worker, Owns(v), mem[v].op = p
             PROVE  Owns(v)' /\ mem'[v].op = p
  BY DEF Held
<1> QED BY DEF Owns

(***************************************************************************)
(* The claim that counts the attempt.                                       *)
(***************************************************************************)
LEMMA ClaimPays ==
  ASSUME Inv, RetriesInBudget, NEW w \in Worker, NEW p \in Op, AttemptsPaid(p), Claim(w, p)
  PROVE  AttemptsPaid(p)'
<1>1. /\ row[p].attempts \in Nat /\ row[p].recoveries \in Nat
      /\ crashes \in Nat /\ overruns \in Nat /\ FastRetries \in Nat /\ MaxRecoveries \in Nat
      /\ row[p] \in Row /\ row \in [Op -> Row] /\ mem \in [Worker -> Memory]
  BY Counted DEF Inv, TypeOK
<1> DEFINE probe == IF row[p].state = "blocked" THEN 1 ELSE 0
<1>2. /\ row'[p].attempts = row[p].attempts + 1 /\ row'[p].state = "processing"
      /\ row'[p].recoveries = row[p].recoveries + probe
      /\ row'[p].due = FALSE /\ row'[p].token = nextToken
      /\ UNCHANGED <<crashes, overruns>>
  BY <1>1 DEF Claim, Row, budgets
<1>3. Held(p)'
  <2>1. mem'[w] = [phase |-> "working", op |-> p, token |-> nextToken]
    BY <1>1 DEF Claim
  <2>2. Owns(w)' /\ mem'[w].op = p
    BY <1>2, <2>1 DEF Owns
  <2> QED BY <2>2 DEF Held
<1>4. Eligible(row[p])
  BY DEF Claim, Selected
<1>5. row[p].attempts + 1 <= FastRetries + 1 + row[p].recoveries + probe + crashes + overruns
      /\ row[p].recoveries + probe <= MaxRecoveries
  <2>1. CASE row[p].state = "pending"
    BY <1>1, <2>1 DEF AttemptsPaid
  <2>2. CASE row[p].state = "retrying"
    BY <1>1, <2>2 DEF AttemptsPaid, RetriesInBudget
  <2>3. CASE row[p].state = "processing" /\ row[p].due
    BY <1>1, <2>3 DEF AttemptsPaid, Allowed
  <2>4. CASE row[p].state = "blocked"
    <3>1. row[p].recoveries < MaxRecoveries
      BY <1>4, <2>4 DEF Eligible, RecoveryCandidate
    <3> QED BY <1>1, <2>4, <3>1 DEF AttemptsPaid, Allowed
  <2> QED BY <1>4, <2>1, <2>2, <2>3, <2>4 DEF Eligible, RecoveryCandidate
<1> QED BY <1>1, <1>2, <1>3, <1>5 DEF AttemptsPaid, Allowed

LEMMA EvidenceLeaves ==
  ASSUME NEW rows \in [Op -> Row], NEW later, NEW p \in Op
  PROVE  /\ WithEvidence(rows, later)[p].due = rows[p].due
         /\ WithEvidence(rows, later)[p].token = rows[p].token
  BY DEF WithEvidence, Row

LEMMA AttemptsStep == Inv /\ RetriesInBudget /\ AttemptsInv /\ [Next]_vars => AttemptsInv'
<1> SUFFICES ASSUME Inv, RetriesInBudget, AttemptsInv, [Next]_vars, NEW p \in Op
             PROVE  AttemptsPaid(p)'
  BY DEF AttemptsInv
<1>1. /\ row[p].attempts \in Nat /\ row[p].recoveries \in Nat /\ row[p].due \in BOOLEAN
      /\ crashes \in Nat /\ overruns \in Nat /\ FastRetries \in Nat /\ MaxRecoveries \in Nat
      /\ row[p] \in Row /\ row \in [Op -> Row] /\ mem \in [Worker -> Memory]
      /\ AttemptsPaid(p) /\ TypeOK
  BY Counted DEF Inv, TypeOK, AttemptsInv
<1> DEFINE Left == /\ row'[p].state = row[p].state /\ row'[p].attempts = row[p].attempts
                   /\ row'[p].recoveries = row[p].recoveries /\ row'[p].due = row[p].due
                   /\ row'[p].token = row[p].token
           Fresh == /\ row'[p].attempts = 0 /\ row'[p].recoveries = 0
                    /\ row'[p].state = "pending"
           Ended == /\ row'[p].attempts = row[p].attempts
                    /\ row'[p].recoveries = row[p].recoveries
                    /\ row'[p].state \notin {"pending", "processing"}
           Spent == /\ crashes' \in Nat /\ overruns' \in Nat
                    /\ crashes' >= crashes /\ overruns' >= overruns
           Owners == \A v \in Worker : Owns(v) /\ mem[v].op = p => mem'[v] = mem[v]
<1>2. Left /\ Spent /\ Owners => AttemptsPaid(p)'
  <2> SUFFICES ASSUME Left, Spent, Owners PROVE AttemptsPaid(p)'
    OBVIOUS
  <2>1. Held(p) => Held(p)'
    BY HeldStays
  <2> QED BY <1>1, <2>1, PaidStays
<1>3. Fresh /\ Spent => AttemptsPaid(p)'
  BY <1>1 DEF AttemptsPaid, Allowed
<1>4. Ended /\ Spent => AttemptsPaid(p)'
  BY <1>1 DEF AttemptsPaid, Allowed
<1>5. UNCHANGED <<crashes, overruns>> => Spent
  BY <1>1
<1>6. UNCHANGED row => Left
  OBVIOUS
<1>7. ASSUME NEW o \in Op, NEW k \in Kind, Enqueue(o, k) PROVE AttemptsPaid(p)'
  <2>1. Spent /\ Owners
    BY <1>1, <1>7 DEF Enqueue, budgets
  <2>2. CASE o = p
    <3>1. Fresh
      BY <1>1, <1>7, <2>2 DEF Enqueue, NoRow
    <3> QED BY <1>3, <2>1, <3>1
  <2>3. CASE o # p
    <3>1. Left
      BY <1>1, <1>7, <2>3 DEF Enqueue
    <3> QED BY <1>2, <2>1, <3>1
  <2> QED BY <2>2, <2>3
<1>8. ASSUME NEW w \in Worker, NEW o \in Op, Claim(w, o) PROVE AttemptsPaid(p)'
  <2>1. CASE o = p
    BY <1>1, <1>8, <2>1, ClaimPays
  <2>2. CASE o # p
    <3>1. Left
      BY <1>1, <1>8, <2>2 DEF Claim
    <3>2. Spent /\ Owners
      BY <1>1, <1>8 DEF Claim, Owns, budgets
    <3> QED BY <1>2, <3>1, <3>2
  <2> QED BY <2>1, <2>2
<1>9. ASSUME NEW w \in Worker, Complete(w) PROVE AttemptsPaid(p)'
  <2>1. row' = WithEvidence(Done(mem[w].op), Op) /\ mem[w].op \in Op
    BY <1>9 DEF Complete, Done, Owns, Inv, TokensUnique
  <2>2. Done(mem[w].op) \in [Op -> Row] /\ Done(mem[w].op)[mem[w].op].state = "completed"
    BY <1>1, <2>1, DoneType
  <2>3. Spent
    BY <1>1, <1>9 DEF Complete, budgets
  <2>4. CASE mem[w].op = p
    <3>1. /\ Done(p)[p].attempts = row[p].attempts /\ Done(p)[p].recoveries = row[p].recoveries
      BY <1>1 DEF Done, Row
    <3>2. Ended
      BY <2>1, <2>2, <2>4, <3>1, EvidenceKeeps
    <3> QED BY <1>4, <2>3, <3>2
  <2>5. CASE mem[w].op # p
    <3>1. Done(mem[w].op)[p] = row[p]
      BY <2>5 DEF Done
    <3>2. Left
      BY <2>1, <2>2, <3>1, EvidenceKeeps, EvidenceLeaves
    <3>3. Owners
      BY <1>1, <1>9, <2>5 DEF Complete
    <3> QED BY <1>2, <2>3, <3>2, <3>3
  <2> QED BY <2>4, <2>5
<1>10. ASSUME NEW w \in Worker, NEW category \in Category, Fail(w, category)
       PROVE  AttemptsPaid(p)'
  <2>1. Spent
    BY <1>1, <1>10 DEF Fail, budgets
  <2>2. CASE mem[w].op = p
    <3> DEFINE s == RetryDecision(row[p].attempts, row[p].recoveries, Retryable(category))
    <3>1. s \in {"blocked", "retrying"}
      BY DecisionType
    <3>2. row'[p] = [row[p] EXCEPT !.state = s, !.token = NoToken, !.by = NoWorker,
                       !.category = ClassOf(category), !.due = FALSE, !.evidence = FALSE]
      BY <1>1, <1>10, <2>2 DEF Fail
    <3> HIDE DEF s
    <3>3. Ended
      BY <1>1, <3>1, <3>2 DEF Row
    <3> QED BY <1>4, <2>1, <3>3
  <2>3. CASE mem[w].op # p
    <3>1. Left /\ Owners
      BY <1>1, <1>10, <2>3 DEF Fail
    <3> QED BY <1>2, <2>1, <3>1
  <2> QED BY <2>2, <2>3
<1>11. ASSUME NEW w \in Worker, NEW c \in Op, Split(w, c) PROVE AttemptsPaid(p)'
  <2>1. Spent /\ Owners
    BY <1>1, <1>11 DEF Split, Owns, budgets
  <2>2. Left \/ Fresh \/ Ended
    BY <1>1, <1>11 DEF Split, NoRow, Row
  <2> QED BY <1>2, <1>3, <1>4, <2>1, <2>2
<1>12. ASSUME NEW o \in Op, TimePasses(o) PROVE AttemptsPaid(p)'
  <2>1. overruns' = overruns + (IF Held(o) THEN 1 ELSE 0) /\ UNCHANGED <<mem, crashes>>
    BY <1>12 DEF TimePasses, Held
  <2>2. Spent /\ Owners
    BY <1>1, <2>1
  <2>3. CASE o # p
    <3>1. Left
      BY <1>1, <1>12, <2>3 DEF TimePasses
    <3> QED BY <1>2, <2>2, <3>1
  <2>4. CASE o = p
    <3>1. /\ row'[p].state = row[p].state /\ row'[p].attempts = row[p].attempts
          /\ row'[p].recoveries = row[p].recoveries
          /\ row[p].state # "pending"
      BY <1>1, <1>12, <2>4 DEF TimePasses, Row
    <3>2. CASE Held(p)
      <4>1. overruns' = overruns + 1
        BY <2>1, <2>4, <3>2
      <4> QED BY <1>1, <2>1, <3>1, <4>1 DEF AttemptsPaid, Allowed
    <3>3. CASE ~Held(p)
      BY <1>1, <2>1, <2>4, <3>1, <3>3 DEF AttemptsPaid, Allowed
    <3> QED BY <3>2, <3>3
  <2> QED BY <2>3, <2>4
<1>13. ASSUME NEW o \in Op, CloseLifecycleOnly(o) PROVE AttemptsPaid(p)'
  <2>1. Spent /\ Owners
    BY <1>1, <1>13 DEF CloseLifecycleOnly, budgets
  <2>2. Left \/ Ended
    BY <1>1, <1>13 DEF CloseLifecycleOnly, Row
  <2> QED BY <1>2, <1>4, <2>1, <2>2
<1>14. ASSUME NEW again \in SUBSET Op, Retry(again) PROVE AttemptsPaid(p)'
  <2>1. Spent /\ Owners
    <3>1. UNCHANGED <<mem, crashes, overruns>>
      BY <1>14 DEF Retry
    <3> QED BY <1>1, <3>1
  <2>2. row'[p] = IF p \in again
                  THEN [row[p] EXCEPT !.state = "pending", !.attempts = 0,
                          !.recoveries = 0, !.due = FALSE, !.evidence = FALSE]
                  ELSE row[p]
    BY <1>14 DEF Retry
  <2>3. Left \/ Fresh
    BY <1>1, <2>2 DEF Row
  <2> QED BY <1>2, <1>3, <2>1, <2>3
<1>15. CASE OtherWorkSucceeds
  <2>1. Spent /\ Owners
    BY <1>1, <1>15 DEF OtherWorkSucceeds, budgets
  <2>2. PICK later \in SUBSET Op : row' = WithEvidence(row, later)
    BY <1>15 DEF OtherWorkSucceeds
  <2>3. Left
    BY <1>1, <2>2, EvidenceKeeps, EvidenceLeaves
  <2> QED BY <1>2, <2>1, <2>3
<1>16. ASSUME NEW w \in Worker, LoseLease(w) \/ NotSplit(w) PROVE AttemptsPaid(p)'
  <2>1. UNCHANGED <<row, crashes, overruns>> /\ ~Owns(w)
    BY <1>16 DEF LoseLease, NotSplit, Owns, budgets
  <2>2. mem' = [mem EXCEPT ![w] = Idle]
    BY <1>16 DEF LoseLease, NotSplit
  <2>3. Spent /\ Left /\ Owners
    BY <1>1, <2>1, <2>2
  <2> QED BY <1>2, <2>3
<1>17. ASSUME NEW w \in Worker, Crash(w) PROVE AttemptsPaid(p)'
  <2>1. crashes' = crashes + 1 /\ UNCHANGED <<row, overruns>>
    BY <1>17 DEF Crash
  <2> QED BY <1>1, <2>1 DEF AttemptsPaid, Allowed
<1>18. CASE OtherWorkFails \/ UNCHANGED vars
  <2>1. UNCHANGED <<row, mem, crashes, overruns>>
    BY <1>18 DEF OtherWorkFails, vars, budgets
  <2>2. Spent /\ Left /\ Owners
    BY <1>1, <2>1
  <2> QED BY <1>2, <2>2
<1> HIDE DEF Left, Fresh, Ended, Spent, Owners
<1> QED BY <1>7, <1>8, <1>9, <1>10, <1>11, <1>12, <1>13, <1>14, <1>15, <1>16, <1>17, <1>18
        DEF Next, Work

(***************************************************************************)
(* Within one retry epoch an operation is tried at most seven times, once   *)
(* more for each of at most two probes, and once more for each crash and    *)
(* each lease that ran out under a live process.                            *)
(***************************************************************************)
THEOREM AttemptBudgetAlways == Spec => []AttemptBudget
<1>1. Init => AttemptsInv
  <2> SUFFICES ASSUME Init, NEW o \in Op PROVE AttemptsPaid(o)
    BY DEF AttemptsInv
  <2>1. row[o] = NoRow /\ crashes = 0 /\ overruns = 0
    BY DEF Init
  <2>2. FastRetries \in Nat /\ MaxRecoveries \in Nat
    BY LunaQueueAssumption
  <2> QED BY <2>1, <2>2 DEF AttemptsPaid, Allowed, NoRow
<1>2. AttemptsInv => AttemptBudget
  BY DEF AttemptsInv, AttemptsPaid, Allowed, AttemptBudget
<1>3. Init => RetriesInBudget
  BY DEF Init, RetriesInBudget, NoRow
<1>4. Spec => []RetriesInBudget
  BY <1>3, InvAlways, BudgetStep, PTL DEF Spec
<1> QED BY <1>1, <1>2, <1>4, InvAlways, AttemptsStep, PTL DEF Spec

-----------------------------------------------------------------------------
(***************************************************************************)
(* The steps of the abstract queue, written on rows.                       *)
(***************************************************************************)
OnlyChanges(o, s, by) ==
  /\ row'[o].state = s /\ row'[o].by = by
  /\ \A p \in Op \ {o} : row'[p].state = row[p].state /\ row'[p].by = row[p].by

Unchanged == \A p \in Op : row'[p].state = row[p].state /\ row'[p].by = row[p].by

LEMMA Changes ==
  ASSUME NEW o \in Op, NEW s, NEW by, OnlyChanges(o, s, by)
  PROVE  /\ [p \in Op |-> row'[p].state] = [[p \in Op |-> row[p].state] EXCEPT ![o] = s]
         /\ [p \in Op |-> row'[p].by] = [[p \in Op |-> row[p].by] EXCEPT ![o] = by]
  BY DEF OnlyChanges

LEMMA Stutters ==
  ASSUME Unchanged
  PROVE  UNCHANGED Abstract!lqVars
  BY DEF Unchanged, Abstract!lqVars

LEMMA ClaimRefines ==
  ASSUME Inv, NEW w \in Worker, NEW o \in Op, Claim(w, o)
  PROVE  Abstract!Claim(w, o)
<1> USE DEF Inv, TypeOK
<1>1. row[o].state \in {"pending", "processing", "retrying", "blocked"}
  BY DEF Claim, Selected, Eligible, RecoveryCandidate
<1>2. OnlyChanges(o, "processing", w)
  BY DEF Claim, OnlyChanges, Row
<1> QED BY <1>1, <1>2, Changes DEF Abstract!Claim

LEMMA CompleteRefines ==
  ASSUME Inv, NEW w \in Worker, NEW o \in Op, o = mem[w].op, Complete(w)
  PROVE  Abstract!Release(w, o)
<1>1. row[o].state = "processing" /\ row[o].by = w
  BY DEF Complete, Owns, Inv, TokensUnique, OneOwner
<1>2. OnlyChanges(o, "completed", NoWorker)
  <2>1. row' = WithEvidence(Done(o), Op)
    BY DEF Complete, Done
  <2>2. /\ Done(o) \in [Op -> Row]
        /\ Done(o)[o].state = "completed" /\ Done(o)[o].by = NoWorker
    BY <1>1, DoneType DEF Inv
  <2>3. \A p \in Op \ {o} : Done(o)[p] = row[p]
    BY DEF Done, Inv, TypeOK
  <2> QED BY <1>1, <2>1, <2>2, <2>3, EvidenceKeeps DEF OnlyChanges
<1> QED
  BY <1>1, <1>2, Changes DEF Abstract!Release

LEMMA FailRefines ==
  ASSUME Inv, NEW w \in Worker, NEW o \in Op, o = mem[w].op,
         NEW category \in Category, Fail(w, category)
  PROVE  Abstract!Release(w, o)
<1> DEFINE s == RetryDecision(row[o].attempts, row[o].recoveries, Retryable(category))
<1>1. row[o].state = "processing" /\ row[o].by = w
  BY DEF Fail, Owns, Inv, TokensUnique, OneOwner
<1>2. s \in {"blocked", "retrying"}
  BY DecisionType
<1>3. OnlyChanges(o, s, NoWorker)
  <2>1. row' = [row EXCEPT ![o] = [row[o] EXCEPT !.state = s, !.token = NoToken,
                  !.by = NoWorker, !.category = ClassOf(category), !.due = FALSE,
                  !.evidence = FALSE]]
    BY DEF Fail
  <2> HIDE DEF s
  <2>2. row[o] \in Row /\ row \in [Op -> Row]
    BY <1>1 DEF Inv, TypeOK
  <2>3. row'[o] = [row[o] EXCEPT !.state = s, !.token = NoToken,
                  !.by = NoWorker, !.category = ClassOf(category), !.due = FALSE,
                  !.evidence = FALSE]
    BY <1>1, <2>1, <2>2
  <2>4. row'[o].state = s /\ row'[o].by = NoWorker
    BY <2>2, <2>3 DEF Row
  <2>5. \A p \in Op \ {o} : row'[p] = row[p]
    BY <2>1, <2>2
  <2> QED BY <2>4, <2>5 DEF OnlyChanges
<1> HIDE DEF s
<1>4. /\ [p \in Op |-> row'[p].state] = [[p \in Op |-> row[p].state] EXCEPT ![o] = s]
      /\ [p \in Op |-> row'[p].by] = [[p \in Op |-> row[p].by] EXCEPT ![o] = NoWorker]
  BY <1>1, <1>3, Changes
<1>5. s \in {"completed", "retrying", "blocked"}
  BY <1>2
<1> QED
  BY <1>1, <1>4, <1>5 DEF Abstract!Release

(***************************************************************************)
(* A split gives the failed row up, unless somebody took or finished it    *)
(* meanwhile: then only the halves are new.                                *)
(***************************************************************************)
LEMMA SplitRefines ==
  ASSUME Inv, NEW w \in Worker, NEW c \in Op, Split(w, c)
  PROVE  Abstract!LQNext
<1> DEFINE o == mem[w].op
           half == {c, c + 1}
<1> USE DEF Inv, TypeOK
<1>1. o \in Op /\ half \in SUBSET Op
  BY DEF Split, TokensUnique
<1>2. \A p \in half : row[p].state = "absent"
  BY <1>1 DEF Split, Op
<1>3. row' = [p \in Op |->
                 IF p = o /\ GivenUp(row[o])
                 THEN [row[o] EXCEPT !.state = "dead_letter", !.due = FALSE,
                                     !.evidence = FALSE]
                 ELSE IF p \in half THEN [NoRow EXCEPT !.state = "pending"]
                 ELSE row[p]]
  BY DEF Split
<1> HIDE DEF o, half
<1>4. \A p \in Op : row'[p].by = row[p].by
  <2>1. \A p \in half : row[p].by = NoWorker
    BY <1>1, <1>2 DEF LeaseNamed
  <2> QED BY <1>1, <1>3, <2>1 DEF Row, NoRow
<1>5. CASE GivenUp(row[o])
  <2>1. \A p \in Op : row'[p].state = IF p = o THEN "dead_letter"
                             ELSE IF p \in half THEN "pending" ELSE row[p].state
    BY <1>1, <1>3, <1>5 DEF Row, NoRow
  <2>2. Abstract!GiveUp(o, half)
    BY <1>1, <1>2, <1>4, <1>5, <2>1 DEF Abstract!GiveUp, GivenUp
  <2> QED BY <1>1, <2>2 DEF Abstract!LQNext
<1>6. CASE ~GivenUp(row[o])
  <2>1. \A p \in Op : row'[p].state = IF p \in half THEN "pending" ELSE row[p].state
    BY <1>1, <1>3, <1>6 DEF Row, NoRow
  <2>2. Abstract!Enqueue(half, "pending")
    BY <1>1, <1>2, <1>4, <2>1 DEF Abstract!Enqueue
  <2> QED BY <1>1, <2>2 DEF Abstract!LQNext
<1> QED BY <1>5, <1>6

LEMMA RetryRefines ==
  ASSUME Inv, NEW again \in SUBSET Op, Retry(again)
  PROVE  Abstract!Requeue(again)
<1> USE DEF Inv, TypeOK
<1>1. \A o \in again : row[o].state \in {"retrying", "blocked"}
  BY DEF Retry
<1>2. \A p \in Op : /\ row'[p].state = (IF p \in again THEN "pending" ELSE row[p].state)
                    /\ row'[p].by = row[p].by
  BY DEF Retry, Row
<1> QED BY <1>1, <1>2 DEF Abstract!Requeue

LEMMA EnqueueRefines ==
  ASSUME Inv, NEW o \in Op, NEW k \in Kind, Enqueue(o, k)
  PROVE  Abstract!Enqueue({o}, "pending")
<1> USE DEF Inv, TypeOK
<1>1. row[o].by = NoWorker /\ row[o].state = "absent"
  BY DEF Enqueue, LeaseNamed
<1>2. OnlyChanges(o, "pending", row[o].by)
  BY <1>1 DEF Enqueue, OnlyChanges, NoRow
<1> QED BY <1>1, <1>2 DEF Abstract!Enqueue, OnlyChanges

LEMMA CloseRefines ==
  ASSUME Inv, NEW o \in Op, CloseLifecycleOnly(o)
  PROVE  Abstract!Close({o})
<1>1. row[o].state = "blocked" /\ OnlyChanges(o, "completed", row[o].by)
  BY DEF CloseLifecycleOnly, OnlyChanges, Inv, TypeOK, Row
<1> QED BY <1>1, Changes DEF Abstract!Close, OnlyChanges

(***************************************************************************)
(* Every step of the queue is a step of the abstract one or a stutter.     *)
(***************************************************************************)
LEMMA StepRefines ==
  ASSUME Inv, [Next]_vars
  PROVE  [Abstract!LQNext]_(Abstract!lqVars)
<1>1. ASSUME NEW w \in Worker, NEW o \in Op, Claim(w, o) PROVE Abstract!LQNext
  BY <1>1, ClaimRefines DEF Abstract!LQNext
<1>2. ASSUME NEW w \in Worker, Work(w) \/ Crash(w)
      PROVE  [Abstract!LQNext]_(Abstract!lqVars)
  <2>1. ASSUME NEW o \in Op, Abstract!Release(w, o) PROVE Abstract!LQNext
    BY <2>1 DEF Abstract!LQNext
  <2>2. CASE Complete(w)
    <3>1. mem[w].op \in Op
      BY <2>2 DEF Complete, Owns, Inv, TokensUnique
    <3>2. PICK o \in Op : o = mem[w].op
      BY <3>1
    <3>3. Abstract!Release(w, o)
      BY <2>2, <3>2, CompleteRefines
    <3> QED BY <2>1, <3>3
  <2>3. ASSUME NEW category \in Category, Fail(w, category) PROVE Abstract!LQNext
    <3>1. mem[w].op \in Op
      BY <2>3 DEF Fail, Owns, Inv, TokensUnique
    <3>2. PICK o \in Op : o = mem[w].op
      BY <3>1
    <3>3. Abstract!Release(w, o)
      BY <2>3, <3>2, FailRefines
    <3> QED BY <2>1, <3>3
  <2>4. ASSUME NEW c \in Op, Split(w, c) PROVE Abstract!LQNext
    BY <2>4, SplitRefines
  <2>5. CASE LoseLease(w) \/ NotSplit(w) \/ Crash(w)
    BY <2>5, Stutters DEF LoseLease, NotSplit, Crash, Unchanged
  <2> QED BY <1>2, <2>2, <2>3, <2>4, <2>5 DEF Work
<1>3. ASSUME NEW o \in Op, TimePasses(o) PROVE UNCHANGED Abstract!lqVars
  <2>1. Unchanged
    BY <1>3 DEF TimePasses, Unchanged, Inv, TypeOK, Row
  <2> QED BY <2>1, Stutters
<1>4. ASSUME NEW o \in Op, CloseLifecycleOnly(o) PROVE Abstract!LQNext
  <2>1. {o} \in SUBSET Op
    OBVIOUS
  <2> QED BY <1>4, <2>1, CloseRefines DEF Abstract!LQNext
<1>5. ASSUME NEW o \in Op, NEW k \in Kind, Enqueue(o, k) PROVE Abstract!LQNext
  <2>1. {o} \in SUBSET Op
    OBVIOUS
  <2> QED BY <1>5, <2>1, EnqueueRefines DEF Abstract!LQNext
<1>6. ASSUME NEW again \in SUBSET Op, Retry(again) PROVE Abstract!LQNext
  BY <1>6, RetryRefines DEF Abstract!LQNext
<1>7. CASE OtherWorkSucceeds
  <2>1. Unchanged
    BY <1>7, EvidenceKeeps DEF OtherWorkSucceeds, Unchanged, Inv, TypeOK
  <2> QED BY <2>1, Stutters
<1>8. CASE OtherWorkFails \/ UNCHANGED vars
  BY <1>8, Stutters DEF OtherWorkFails, vars, Unchanged
<1> QED
  BY <1>1, <1>2, <1>3, <1>4, <1>5, <1>6, <1>7, <1>8 DEF Next

(***************************************************************************)
(* The durable queue keeps the promises of LeaseQueue: only a leased row   *)
(* is finished or fails, a claim may take a lease away, and a completed or *)
(* given-up operation is never taken up again.                             *)
(***************************************************************************)
THEOREM ImplementsAlways == Spec => ImplementsLeaseQueue
<1>1. Init => Abstract!LQInit
  BY DEF Init, NoRow, Abstract!LQInit
<1>2. Inv /\ [Next]_vars => [Abstract!LQNext]_(Abstract!lqVars)
  BY StepRefines
<1> QED BY <1>1, <1>2, InvAlways, PTL DEF Spec, ImplementsLeaseQueue, Abstract!LQSpec
=============================================================================
