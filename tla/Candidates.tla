------------------------------ MODULE Candidates ------------------------------
(***************************************************************************)
(* The life of a proposed memory (src/src/candidates, worker/governance,     *)
(* worker/candidate-maintenance): evidence is merged into the candidate of    *)
(* its fingerprint, the Promotion Gate judges it, with or without an answer   *)
(* of the model, a passed gate reserves the candidate, writes the canonical  *)
(* memory and promotes, and what is never promoted expires.                  *)
(*                                                                         *)
(* One fingerprint; its candidates follow one another.  Every evidence is    *)
(* eligible and new to a candidate that lacks it, so the evidence generation  *)
(* is the number of sources.                                                *)
(***************************************************************************)
EXTENDS Integers, FiniteSets

CONSTANTS
    Evaluators,      \* Workers that evaluate candidates
    Sources,         \* evidence by its source identity
    MaxCandidates,   \* bound: candidates of the fingerprint
    Overlap          \* Workers run at the same time

ASSUME CandidatesAssumption ==
    /\ IsFiniteSet(Sources) /\ MaxCandidates \in Nat \ {0}
    /\ Overlap \in BOOLEAN

VARIABLES
    evidenceRow,          \* memory_candidates with evidence, waiters and obligations
    memory,       \* the canonical memory of the candidate's reserved identity
    operation,    \* luna_operations of kind semantic_assessment
    assessment,   \* semantic_assessments, by evidence generation
    evaluator     \* runNextCandidateAssessment, prepareNextCandidateEvaluation

candidateVars == <<evidenceRow, memory, operation, assessment, evaluator>>

CandidateIds == 1..MaxCandidates
EvidenceGenerations == 1..Cardinality(Sources)
Answers == {"supported", "contradicted", "wanting"}

\* plain: one source is enough without the model's assessment.
NoCandidate == [state |-> "absent", plain |-> FALSE, sources |-> {}, reserved |-> 0, evaluated |-> FALSE,
                waiter |-> 0, obligation |-> "absent", aged |-> FALSE]
CandidateRows ==
    [state: {"absent", "waiting", "promoted", "rejected", "expired", "purged"},
     plain: BOOLEAN, sources: SUBSET Sources, reserved: 0..Cardinality(Sources), evaluated: BOOLEAN,
     waiter: 0..Cardinality(Sources),
     obligation: {"absent", "pending", "completed", "cancelled"}, aged: BOOLEAN]

\* from: the evidence generation it was written for.
NotCreated == [from |-> 0, revised |-> FALSE]
NotEvaluating == [pc |-> "idle", candidate |-> 1, operation |-> 0, answer |-> "none",
                  generation |-> 0]

CandidatesTypeOK ==
    /\ evidenceRow \in [CandidateIds -> CandidateRows]
    /\ memory \in [CandidateIds -> [from: 0..Cardinality(Sources), revised: BOOLEAN]]
    /\ operation \in [CandidateIds \X EvidenceGenerations ->
                        {"absent", "open", "blocked", "completed"}]
    /\ assessment \in [CandidateIds \X EvidenceGenerations -> Answers \cup {"none"}]
    /\ evaluator \in [Evaluators ->
         [pc: {"idle", "claimed", "picked", "loaded", "read", "reserved", "written",
               "unassessed", "done"},
          candidate: CandidateIds, operation: 0..Cardinality(Sources),
          answer: Answers \cup {"none"}, generation: 0..Cardinality(Sources)]]

CandidatesInit ==
    /\ evidenceRow = [k \in CandidateIds |-> NoCandidate]
    /\ memory = [k \in CandidateIds |-> NotCreated]
    /\ operation = [key \in CandidateIds \X EvidenceGenerations |-> "absent"]
    /\ assessment = [key \in CandidateIds \X EvidenceGenerations |-> "none"]
    /\ evaluator = [w \in Evaluators |-> NotEvaluating]

GenerationOf(k) == Cardinality(evidenceRow[k].sources)
LiveCandidate(k) == evidenceRow[k].state \in {"waiting", "promoted", "rejected"}

\* One Worker does one thing at a time.
Alone == Overlap \/ \A w \in Evaluators : evaluator[w] = NotEvaluating

-----------------------------------------------------------------------------
(* createAgentCandidate: a duplicate merges into the live candidate of its     *)
(* fingerprint, a tombstone absorbs evidence it has seen.                     *)

\* Faulty: evidence joins a candidate whose promotion is under way.
MergeableAlways(k) == LiveCandidate(k)
Mergeable(k) == LiveCandidate(k) /\ evidenceRow[k].reserved = 0

MergeEvidence(k, e) ==
    /\ Alone
    /\ Mergeable(k) /\ e \notin evidenceRow[k].sources
    /\ evidenceRow' = [evidenceRow EXCEPT ![k].sources = @ \cup {e}, ![k].evaluated = FALSE,
                          ![k].aged = FALSE,
                          ![k].obligation = IF @ = "pending" THEN "cancelled" ELSE @]
    /\ UNCHANGED <<memory, operation, assessment, evaluator>>

Absorbed(e) ==
    \E k \in CandidateIds : /\ evidenceRow[k].state = "expired" /\ e \in evidenceRow[k].sources
                            /\ \A j \in CandidateIds : j > k => evidenceRow[j].state # "expired"

CreateCandidate(k, e) ==
    /\ Alone
    /\ evidenceRow[k].state = "absent"
    /\ \A j \in CandidateIds : j < k => evidenceRow[j].state \in {"expired", "purged"}
    /\ ~ Absorbed(e)
    /\ \E plain \in BOOLEAN :
         evidenceRow' = [evidenceRow EXCEPT ![k] = [NoCandidate EXCEPT !.state = "waiting", !.plain = plain,
                                                       !.sources = {e}]]
    /\ UNCHANGED <<memory, operation, assessment, evaluator>>

-----------------------------------------------------------------------------
(* Expiration                                                               *)

CandidateAges(k) ==
    /\ LiveCandidate(k) /\ ~ evidenceRow[k].aged
    /\ evidenceRow' = [evidenceRow EXCEPT ![k].aged = TRUE]
    /\ UNCHANGED <<memory, operation, assessment, evaluator>>

Unpromoted(k) == evidenceRow[k].state = "waiting" /\ evidenceRow[k].reserved = 0

ScheduleExpiration(k) ==
    /\ Alone
    /\ Unpromoted(k) /\ evidenceRow[k].aged /\ evidenceRow[k].obligation \in {"absent", "cancelled"}
    /\ evidenceRow' = [evidenceRow EXCEPT ![k].obligation = "pending"]
    /\ UNCHANGED <<memory, operation, assessment, evaluator>>

ExpireCandidate(k) ==
    /\ Alone
    /\ Unpromoted(k) /\ evidenceRow[k].evaluated /\ evidenceRow[k].obligation = "pending" /\ evidenceRow[k].aged
    /\ evidenceRow' = [evidenceRow EXCEPT ![k].state = "expired", ![k].obligation = "completed"]
    /\ UNCHANGED <<memory, operation, assessment, evaluator>>

PurgeTombstone(k) ==
    /\ Alone
    /\ evidenceRow[k].state = "expired"
    /\ ~ \E j \in CandidateIds : j = k + 1 /\ LiveCandidate(j)
    /\ evidenceRow' = [evidenceRow EXCEPT ![k] = [NoCandidate EXCEPT !.state = "purged"]]
    /\ assessment' = [key \in DOMAIN assessment |->
                        IF key[1] = k THEN "none" ELSE assessment[key]]
    /\ UNCHANGED <<memory, operation, evaluator>>

-----------------------------------------------------------------------------
(* What is evaluated                                                        *)

\* advanceCandidateReevaluationBackfill: judged before its evidence could be assessed.
Reopen(k) ==
    /\ Alone
    /\ evidenceRow[k].state = "waiting" /\ evidenceRow[k].evaluated
    /\ assessment[<<k, GenerationOf(k)>>] = "none"
    /\ evidenceRow' = [evidenceRow EXCEPT ![k].evaluated = FALSE]
    /\ UNCHANGED <<memory, operation, assessment, evaluator>>

\* resumeCapacityCandidates, when there are slots again.
ResumeWaiter(k) ==
    /\ Alone
    /\ evidenceRow[k].waiter # 0 /\ evidenceRow[k].state = "waiting" /\ evidenceRow[k].evaluated
    /\ evidenceRow' = [evidenceRow EXCEPT ![k].evaluated = FALSE]
    /\ UNCHANGED <<memory, operation, assessment, evaluator>>

PickCandidate(w, k) ==
    /\ Alone /\ evaluator[w] = NotEvaluating
    /\ Unpromoted(k) /\ ~ evidenceRow[k].evaluated
    /\ operation[<<k, GenerationOf(k)>>] \notin {"open", "blocked"}
    /\ evaluator' = [evaluator EXCEPT ![w] =
                       [NotEvaluating EXCEPT !.pc = "picked", !.candidate = k]]
    /\ UNCHANGED <<evidenceRow, memory, operation, assessment>>

\* A lease may run out under a Worker that is still busy.
ClaimAssessment(w, k, g) ==
    /\ Alone /\ evaluator[w] = NotEvaluating
    /\ operation[<<k, g>>] = "open"
    /\ evaluator' = [evaluator EXCEPT ![w] =
                       [NotEvaluating EXCEPT !.pc = "claimed", !.candidate = k, !.operation = g]]
    /\ UNCHANGED <<evidenceRow, memory, operation, assessment>>

RecoverOperation(k, g) ==
    /\ operation[<<k, g>>] = "blocked"
    /\ operation' = [operation EXCEPT ![<<k, g>>] = "open"]
    /\ UNCHANGED <<evidenceRow, memory, assessment, evaluator>>

-----------------------------------------------------------------------------
(* Evaluation, one step per transaction                                      *)

\* The model assesses the evidence there is now; an answer once stored is used again.
AssessCandidate(w) ==
    LET k == evaluator[w].candidate  g == evaluator[w].operation IN
    /\ evaluator[w].pc = "claimed"
    /\ LiveCandidate(k)
    /\ IF assessment[<<k, g>>] # "none" THEN UNCHANGED assessment
       ELSE \E answer \in Answers : assessment' = [assessment EXCEPT ![<<k, g>>] = answer]
    /\ evaluator' = [evaluator EXCEPT ![w].pc = "picked"]
    /\ UNCHANGED <<evidenceRow, memory, operation>>

\* loadDurableSemanticAssessment: the evidence it judged is what there is now.
CurrentAssessment(k, g) == assessment[<<k, g>>] # "none" /\ g = GenerationOf(k)

LoadAssessment(w) ==
    LET k == evaluator[w].candidate  g == evaluator[w].operation IN
    /\ evaluator[w].pc = "picked"
    /\ g # 0 => CurrentAssessment(k, g)
    /\ evaluator' = [evaluator EXCEPT
         ![w].pc = "loaded",
         ![w].answer = CASE g # 0 -> assessment[<<k, g>>]
                         [] /\ g = 0 /\ evidenceRow[k].waiter # 0 /\ evidenceRow[k].waiter = GenerationOf(k)
                            /\ operation[<<k, evidenceRow[k].waiter>>] = "completed"
                              -> assessment[<<k, evidenceRow[k].waiter>>]
                         [] OTHER -> "none"]
    /\ UNCHANGED <<evidenceRow, memory, operation, assessment>>

ReadCandidate(w) ==
    LET k == evaluator[w].candidate IN
    /\ evaluator[w].pc = "loaded"
    /\ LiveCandidate(k)
    /\ evaluator' = [evaluator EXCEPT
         ![w].pc = IF evidenceRow[k].state = "promoted" THEN "done" ELSE "read",
         ![w].generation = GenerationOf(k)]
    /\ UNCHANGED <<evidenceRow, memory, operation, assessment>>

\* commitNonPromotion: refuses a reserved candidate.
Judge(w, state, evaluated, next) ==
    LET k == evaluator[w].candidate IN
    /\ evidenceRow[k].state \notin {"absent", "purged"} /\ evidenceRow[k].reserved = 0
    /\ evidenceRow' = [evidenceRow EXCEPT ![k].state = state, ![k].waiter = 0,
                          ![k].evaluated = @ \/ evaluated]
    /\ evaluator' = [evaluator EXCEPT ![w].pc = next]
    /\ UNCHANGED <<memory, operation, assessment>>

FullValidation(w) == ~ evidenceRow[evaluator[w].candidate].plain \/ evaluator[w].generation > 1

\* A contradiction, or an answer that calls the statement transient.
RejectCandidate(w) ==
    /\ evaluator[w].pc = "read" /\ evaluator[w].answer \in {"contradicted", "wanting"}
    /\ Judge(w, "rejected", TRUE, "done")

RequireAssessment(w) ==
    /\ evaluator[w].pc = "read" /\ FullValidation(w) /\ evaluator[w].answer # "supported"
    /\ evaluator[w].answer # "contradicted"
    /\ Judge(w, "waiting", evaluator[w].answer # "none",
             IF evaluator[w].operation = 0 THEN "unassessed" ELSE "done")

\* Insufficient evidence, a durability hold, missing corroboration or the hard limit.
HoldCandidate(w) ==
    /\ evaluator[w].pc = "read" /\ evaluator[w].answer # "contradicted"
    /\ Judge(w, "waiting", TRUE, "done")

GatePassed(w) ==
    /\ evaluator[w].answer \notin {"contradicted", "wanting"}
    /\ FullValidation(w) => evaluator[w].answer = "supported"

ReserveCandidate(w) ==
    LET k == evaluator[w].candidate  g == evaluator[w].generation IN
    /\ evaluator[w].pc = "read" /\ GatePassed(w)
    /\ evidenceRow[k].state = "waiting" /\ GenerationOf(k) = g /\ evidenceRow[k].reserved \in {0, g}
    /\ evidenceRow' = [evidenceRow EXCEPT ![k].reserved = g]
    /\ evaluator' = [evaluator EXCEPT ![w].pc = "reserved"]
    /\ UNCHANGED <<memory, operation, assessment>>

\* What an earlier attempt wrote is accepted unless it was revised since.
WriteMemory(w) ==
    LET k == evaluator[w].candidate IN
    /\ evaluator[w].pc = "reserved" /\ ~ memory[k].revised
    /\ memory' = [memory EXCEPT ![k].from = IF @ = 0 THEN evaluator[w].generation ELSE @]
    /\ evaluator' = [evaluator EXCEPT ![w].pc = "written"]
    /\ UNCHANGED <<evidenceRow, operation, assessment>>

\* ActiveCapacityError: the candidate waits for a slot and keeps its answer.
CapacityRefuses(w) ==
    LET k == evaluator[w].candidate  g == evaluator[w].generation IN
    /\ evaluator[w].pc = "reserved" /\ memory[k] = NotCreated
    /\ evidenceRow' = [evidenceRow EXCEPT
         ![k] = IF evidenceRow[k].reserved = g /\ GenerationOf(k) = g
                THEN [@ EXCEPT !.reserved = 0, !.evaluated = TRUE, !.waiter = g]
                ELSE [@ EXCEPT !.waiter = g]]
    /\ evaluator' = [evaluator EXCEPT ![w].pc = "done"]
    /\ UNCHANGED <<memory, operation, assessment>>

PromoteCandidate(w) ==
    LET k == evaluator[w].candidate  g == evaluator[w].generation IN
    /\ evaluator[w].pc = "written"
    /\ evidenceRow[k].state = "waiting" /\ GenerationOf(k) = g /\ evidenceRow[k].reserved = g
    /\ evidenceRow' = [evidenceRow EXCEPT ![k].state = "promoted", ![k].reserved = 0,
                          ![k].evaluated = TRUE, ![k].waiter = 0]
    /\ evaluator' = [evaluator EXCEPT ![w].pc = "done"]
    /\ UNCHANGED <<memory, operation, assessment>>

\* enqueueCandidateAssessment: an operation per candidate and generation.
EnqueueAssessment(w) ==
    LET k == evaluator[w].candidate IN
    /\ evaluator[w].pc = "unassessed" /\ evidenceRow[k].state = "waiting"
    /\ operation' = [operation EXCEPT ![<<k, GenerationOf(k)>>] = IF @ = "absent" THEN "open" ELSE @]
    /\ evaluator' = [evaluator EXCEPT ![w] = NotEvaluating]
    /\ UNCHANGED <<evidenceRow, memory, assessment>>

FinishEvaluation(w) ==
    LET k == evaluator[w].candidate  g == evaluator[w].operation IN
    /\ evaluator[w].pc = "done"
    /\ operation' = IF g = 0 THEN operation ELSE [operation EXCEPT ![<<k, g>>] = "completed"]
    /\ evaluator' = [evaluator EXCEPT ![w] = NotEvaluating]
    /\ UNCHANGED <<evidenceRow, memory, assessment>>

\* An exception at any step: the operation is tried again or given up.
EvaluationFails(w) ==
    LET k == evaluator[w].candidate  g == evaluator[w].operation IN
    /\ evaluator[w] # NotEvaluating
    /\ \/ /\ g # 0 /\ operation[<<k, g>>] = "open"
          /\ operation' = [operation EXCEPT ![<<k, g>>] = "blocked"]
       \/ UNCHANGED operation
    /\ evaluator' = [evaluator EXCEPT ![w] = NotEvaluating]
    /\ UNCHANGED <<evidenceRow, memory, assessment>>

\* Governance or the owner edits the memory.
ReviseMemory(k) ==
    /\ memory[k].from # 0 /\ ~ memory[k].revised
    /\ memory' = [memory EXCEPT ![k].revised = TRUE]
    /\ UNCHANGED <<evidenceRow, operation, assessment, evaluator>>

CandidatesNext ==
    \/ \E k \in CandidateIds :
         \/ \E e \in Sources : MergeEvidence(k, e) \/ CreateCandidate(k, e)
         \/ CandidateAges(k) \/ ScheduleExpiration(k) \/ ExpireCandidate(k) \/ PurgeTombstone(k)
         \/ Reopen(k) \/ ResumeWaiter(k) \/ ReviseMemory(k)
         \/ \E g \in EvidenceGenerations : RecoverOperation(k, g)
         \/ \E w \in Evaluators :
              \/ PickCandidate(w, k)
              \/ \E g \in EvidenceGenerations : ClaimAssessment(w, k, g)
    \/ \E w \in Evaluators :
         \/ AssessCandidate(w) \/ LoadAssessment(w) \/ ReadCandidate(w)
         \/ RejectCandidate(w) \/ RequireAssessment(w) \/ HoldCandidate(w)
         \/ ReserveCandidate(w) \/ WriteMemory(w) \/ CapacityRefuses(w) \/ PromoteCandidate(w)
         \/ EnqueueAssessment(w) \/ FinishEvaluation(w) \/ EvaluationFails(w)

CandidatesSpec == CandidatesInit /\ [][CandidatesNext]_candidateVars

-----------------------------------------------------------------------------
(* A Worker may die or fail between the transactions of an evaluation and     *)
(* evidence, expiration and assessments go on: a canonical memory always has   *)
(* a candidate that was promoted or is reserved for it, with the evidence it   *)
(* was written for, and where the gate demands the model's support the         *)
(* support was given for just that evidence.                                 *)
PromotionSound ==
    \A k \in CandidateIds :
      LET from == memory[k].from IN
      /\ evidenceRow[k].state = "promoted" => from # 0
      /\ from # 0 =>
           /\ \/ evidenceRow[k].state = "promoted"
              \/ evidenceRow[k].state = "waiting" /\ evidenceRow[k].reserved = from /\ GenerationOf(k) = from
           /\ ~ evidenceRow[k].plain \/ from > 1 => assessment[<<k, from>>] = "supported"

(* No candidate stays reserved by an evaluation that is gone.                *)
ReservationEnds ==
    \A k \in CandidateIds :
      evidenceRow[k].reserved # 0 =>
        \/ \E w \in Evaluators : evaluator[w].candidate = k /\ evaluator[w] # NotEvaluating
        \/ \E g \in EvidenceGenerations : g = evidenceRow[k].reserved /\ operation[<<k, g>>] \in {"open", "blocked"}
=============================================================================
