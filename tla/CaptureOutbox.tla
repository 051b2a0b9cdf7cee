-------------------------------- MODULE CaptureOutbox --------------------------------
(***************************************************************************)
(* The rows of capture_events once they are imported (src/src/capture):     *)
(* the claim/complete/fail protocol with its lease tokens, the hand-over to  *)
(* dreaming or distillation, and the removal of old payloads.                *)
(***************************************************************************)
EXTENDS Integers

CONSTANTS
    Captured,     \* event identities
    Claimers,     \* processes that claim events
    MaxClaims,    \* bound: claims of one event
    ClaimLimit,   \* maximumAttempts
    NoClaimer

ASSUME OutboxAssumption ==
    /\ MaxClaims \in Nat \ {0}
    /\ ClaimLimit \in Nat \ {0}
    /\ NoClaimer \notin Claimers

VARIABLES
    event,          \* the row: state, lease, age, whether the payload is there
    claim,          \* the event and lease token each process works with
    processingOpen  \* is a capture_processing incident open

outboxVars == <<event, claim, processingOpen>>

Absent == [state |-> "absent", by |-> NoClaimer, attempt |-> 0, expired |-> FALSE,
           due |-> FALSE, aged |-> FALSE, body |-> FALSE]

OutboxTypeOK ==
    /\ event \in [Captured -> [state: {"absent", "pending", "processing", "retrying",
                                       "completed", "dead_letter"},
                               by: Claimers \cup {NoClaimer}, attempt: 0..MaxClaims,
                               expired: BOOLEAN, due: BOOLEAN, aged: BOOLEAN, body: BOOLEAN]]
    /\ claim \in [Claimers -> [event: Captured, attempt: 0..MaxClaims]]
    /\ processingOpen \in BOOLEAN

OutboxInit ==
    /\ event = [e \in Captured |-> Absent]
    /\ claim \in [Claimers -> {[event |-> e, attempt |-> 0] : e \in Captured}]
    /\ processingOpen = FALSE

\* persistPreparedCaptureEvent; a duplicate changes no row, and a capture may
\* close the incident.
Record(e) ==
    /\ event' = IF event[e].state # "absent" THEN event
                ELSE [event EXCEPT ![e].state = "pending", ![e].body = TRUE]
    /\ processingOpen' \in {FALSE, processingOpen}
    /\ UNCHANGED claim

\* The lease token is fresh with every claim, as the attempt number is.
Claimable(e) == \/ event[e].state = "pending"
                \/ event[e].state = "processing" /\ event[e].expired
                \/ event[e].state = "retrying" /\ event[e].due

ClaimEvent(p, e) ==
    /\ Claimable(e) /\ event[e].attempt < MaxClaims
    /\ event' = [event EXCEPT ![e].state = "processing", ![e].by = p, ![e].expired = FALSE,
                              ![e].attempt = @ + 1]
    /\ claim' = [claim EXCEPT ![p] = [event |-> e, attempt |-> event[e].attempt + 1]]
    /\ UNCHANGED processingOpen

\* Faulty: whoever claimed the event once may report on it.
HoldsByState(p, e) == claim[p].event = e /\ claim[p].attempt > 0 /\ event[e].state = "processing"

Holds(p, e) == /\ claim[p].event = e /\ claim[p].attempt > 0
               /\ event[e].state = "processing" /\ event[e].attempt = claim[p].attempt

\* A second completion is answered without a change.
CompleteEvent(p, e) ==
    /\ Holds(p, e)
    /\ event' = [event EXCEPT ![e].state = "completed", ![e].by = NoClaimer, ![e].expired = FALSE]
    /\ claim' = [claim EXCEPT ![p].attempt = 0]
    /\ UNCHANGED processingOpen

FailEvent(p, e) ==
    /\ Holds(p, e)
    /\ \E retryable \in BOOLEAN :
         event' = [event EXCEPT ![e].state = IF ~retryable \/ event[e].attempt >= ClaimLimit
                                             THEN "dead_letter" ELSE "retrying",
                                ![e].by = NoClaimer, ![e].expired = FALSE, ![e].due = FALSE]
    /\ claim' = [claim EXCEPT ![p].attempt = 0]
    /\ processingOpen' = TRUE

\* "Capture Event lease is no longer owned by this Worker", or it died.
DropClaim(p) ==
    /\ claim[p].attempt > 0
    /\ claim' = [claim EXCEPT ![p].attempt = 0]
    /\ UNCHANGED <<event, processingOpen>>

\* handOffCaptureToDreaming: pending events that no Batch has taken.
HandOff ==
    /\ \E S \in SUBSET {e \in Captured : event[e].state = "pending"} :
         event' = [e \in Captured |-> IF e \in S THEN [event[e] EXCEPT !.state = "completed"]
                                      ELSE event[e]]
    /\ UNCHANGED <<claim, processingOpen>>

\* Leases run out, retry times come, finished rows pass the retention period.
Ages(e) ==
    /\ \/ event[e].state = "processing" /\ event' = [event EXCEPT ![e].expired = TRUE]
       \/ event[e].state = "retrying" /\ event' = [event EXCEPT ![e].due = TRUE]
       \/ event[e].state \in {"completed", "dead_letter"} /\ event' = [event EXCEPT ![e].aged = TRUE]
    /\ UNCHANGED <<claim, processingOpen>>

\* runScheduledCapturePayloadRetention, the oldest rows of a batch first.
Removable(e) ==
    event[e].state \in {"completed", "dead_letter"} /\ event[e].aged /\ event[e].body

RemovePayloads ==
    /\ \E S \in SUBSET {e \in Captured : Removable(e)} :
         event' = [e \in Captured |-> IF e \in S THEN [event[e] EXCEPT !.body = FALSE] ELSE event[e]]
    /\ UNCHANGED <<claim, processingOpen>>

OutboxNext ==
    \/ HandOff \/ RemovePayloads
    \/ \E e \in Captured :
         \/ Record(e) \/ Ages(e)
         \/ \E p \in Claimers : ClaimEvent(p, e) \/ CompleteEvent(p, e) \/ FailEvent(p, e)
    \/ \E p \in Claimers : DropClaim(p)

OutboxSpec == OutboxInit /\ [][OutboxNext]_outboxVars

-----------------------------------------------------------------------------
OutboxLeases == INSTANCE LeaseQueue WITH
    Op <- Captured, Worker <- Claimers, NoWorker <- NoClaimer,
    state <- [e \in Captured |-> event[e].state],
    holder <- [e \in Captured |-> event[e].by]

(* An event leaves "processing" only by the report of the process that has   *)
(* the current token: a late answer after the lease passed on is refused.    *)
CurrentLeaseReports ==
    [][\A e \in Captured :
         event[e].state = "processing" /\ event'[e].state # "processing" =>
           \E p \in Claimers : /\ claim[p] = [event |-> e, attempt |-> event[e].attempt]
                               /\ claim'[p].attempt = 0]_outboxVars

(* The outbox keeps the promises of a leased queue, what is finished stays   *)
(* so, and only the current lease counts.                                    *)
OutboxImplementsLeaseQueue == OutboxLeases!LQSpec /\ CurrentLeaseReports

(* A payload is there as long as somebody may still work on the event.       *)
BodyWhileLive ==
    \A e \in Captured : event[e].state \in {"pending", "processing", "retrying"} => event[e].body

(* The outbox keeps the promises of a leased queue, and no event loses its   *)
(* payload while a process may still be given it.                            *)
OutboxKept == OutboxImplementsLeaseQueue /\ []BodyWhileLive
=============================================================================
