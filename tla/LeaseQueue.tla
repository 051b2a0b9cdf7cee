----------------------------- MODULE LeaseQueue -----------------------------
(***************************************************************************)
(* What a queue of leased operations promises, whatever decides when an    *)
(* operation may be claimed, retried or given up.                          *)
(*                                                                         *)
(*   - Only the Worker holding the current lease of an operation may       *)
(*     complete it or report its failure.                                  *)
(*   - A claim takes the lease away from whoever held it.                  *)
(*   - "completed" and "dead_letter" are final.                            *)
(*                                                                         *)
(* LunaQueue (the retry policy of src/luna/operations.ts) and Distillation *)
(* (the pipeline of src/worker/distillation.ts) are shown to implement it, *)
(* and so is CaptureOutbox (the events of src/capture/index.ts).           *)
(***************************************************************************)
CONSTANTS Op, Worker, NoWorker   \* NoWorker is none of the Workers

VARIABLES
  state,    \* state of each operation
  holder    \* the Worker holding its lease, or NoWorker

lqVars == <<state, holder>>

OpState == {"absent", "pending", "processing", "retrying", "blocked",
            "completed", "dead_letter"}

Final == {"completed", "dead_letter"}

LQTypeOK ==
  /\ state \in [Op -> OpState]
  /\ holder \in [Op -> Worker \cup {NoWorker}]

LQInit ==
  /\ state = [o \in Op |-> "absent"]
  /\ holder = [o \in Op |-> NoWorker]

(***************************************************************************)
(* New operations appear; one that needs no model call is born completed.  *)
(***************************************************************************)
Enqueue(new, s) ==
  /\ s \in {"pending", "completed"}
  /\ \A o \in new : state[o] = "absent"
  /\ state' = [o \in Op |-> IF o \in new THEN s ELSE state[o]]
  /\ UNCHANGED holder

Claim(w, o) ==
  /\ state[o] \in {"pending", "processing", "retrying", "blocked"}
  /\ state' = [state EXCEPT ![o] = "processing"]
  /\ holder' = [holder EXCEPT ![o] = w]

(***************************************************************************)
(* The holder lets go of the operation: it is done, or will be retried, or *)
(* waits for help, or is given up.                                         *)
(***************************************************************************)
Release(w, o) ==
  /\ state[o] = "processing"
  /\ holder[o] = w
  /\ \E s \in {"completed", "retrying", "blocked", "dead_letter"} :
       state' = [state EXCEPT ![o] = s]
  /\ holder' = [holder EXCEPT ![o] = NoWorker]

(***************************************************************************)
(* Nobody holds these operations: an operator queues them again, a         *)
(* deterministic rule closes some, a split one is given up and replaced by *)
(* new ones.                                                               *)
(***************************************************************************)
Requeue(again) ==
  /\ \A o \in again : state[o] \in {"retrying", "blocked"}
  /\ state' = [o \in Op |-> IF o \in again THEN "pending" ELSE state[o]]
  /\ UNCHANGED holder

Close(done) ==
  /\ \A o \in done : state[o] \in {"pending", "blocked"}
  /\ state' = [o \in Op |-> IF o \in done THEN "completed" ELSE state[o]]
  /\ UNCHANGED holder

GiveUp(o, new) ==
  /\ state[o] \in {"retrying", "blocked"}
  /\ \A n \in new : state[n] = "absent"
  /\ state' = [p \in Op |-> IF p = o THEN "dead_letter"
                            ELSE IF p \in new THEN "pending" ELSE state[p]]
  /\ UNCHANGED holder

LQNext ==
  \/ \E new \in SUBSET Op, s \in {"pending", "completed"} : Enqueue(new, s)
  \/ \E again \in SUBSET Op : Requeue(again)
  \/ \E done \in SUBSET Op : Close(done)
  \/ \E o \in Op :
       \/ \E w \in Worker : Claim(w, o) \/ Release(w, o)
       \/ \E new \in SUBSET Op : GiveUp(o, new)

LQSpec == LQInit /\ [][LQNext]_lqVars

-----------------------------------------------------------------------------
(***************************************************************************)
(* An operation is leased exactly while it is being processed.             *)
(***************************************************************************)
LeasedIffProcessing ==
  \A o \in Op : holder[o] # NoWorker <=> state[o] = "processing"

(***************************************************************************)
(* A finished operation is never taken up again.                           *)
(***************************************************************************)
FinalForGood ==
  [][\A o \in Op : state[o] \in Final => state'[o] = state[o]]_lqVars
=============================================================================
