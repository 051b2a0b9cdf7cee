--------------------------- MODULE ForegroundRetrieval ---------------------------
(***************************************************************************)
(* Automatic injection (src/src/retrieval): a hook captures its event and    *)
(* asks the foreground thread for a pack; the lane admits one request, which *)
(* reserves the event, selects memories against the context epoch and        *)
(* commits a receipt.  The Worker's Shadow evaluator prepares packs for       *)
(* captured events nobody reserved, and receipts are removed in time.         *)
(*                                                                         *)
(* One session.  Every memory costs one token; ranking is abstracted to the   *)
(* choice of any pack the limits allow.                                      *)
(***************************************************************************)
EXTENDS Integers, FiniteSets

CONSTANTS
    StartEvents,    \* captured SessionStart events
    PromptEvents,   \* captured UserPromptSubmit events
    Memories,       \* eligible memory revisions
    PackLimit,      \* tokens of a pack
    EpochLimit,     \* epochHardLimit, tokens of a context epoch
    MaxEpochs,      \* bound: context epochs
    MaxReceipts,    \* bound: receipts
    NoEvent

ASSUME ForegroundAssumption ==
    /\ IsFiniteSet(Memories)
    /\ StartEvents \cap PromptEvents = {}
    /\ NoEvent \notin StartEvents \cup PromptEvents
    /\ PackLimit \in Nat /\ EpochLimit \in Nat /\ MaxEpochs \in Nat /\ MaxReceipts \in Nat
    /\ PackLimit <= EpochLimit

VARIABLES
    told,          \* what became of the event for the host
    reservation,   \* foreground_event_reservations
    evaluation,    \* shadow_event_evaluations
    epoch,         \* context_epochs: the active one (0 for none), the number used
    total,         \* context_epochs.automatic_token_total
    receipt,       \* retrieval_receipts with their selected items
    lane,          \* the request the lane has admitted
    shadow         \* runNextShadowEvaluation

foregroundVars == <<told, reservation, evaluation, epoch, total, receipt, lane, shadow>>

Events == StartEvents \cup PromptEvents
Epochs == 1..MaxEpochs
Identities == 1..MaxReceipts

Free == [pc |-> "free", event |-> NoEvent, epoch |-> 0, items |-> {}]
Requests == [pc: {"free", "admitted", "reserved", "selected", "committed",
                  "claimed", "checked", "start", "starting", "prompt", "recorded"},
             event: Events \cup {NoEvent}, epoch: 0..MaxEpochs, items: SUBSET Memories]

Evaluators == {"foreground", "shadow"}
Receipts == [id: Identities, event: Events, by: Evaluators, epoch: Epochs,
             items: SUBSET Memories, kept: BOOLEAN]

ForegroundTypeOK ==
    /\ told \in [Events -> {"none", "captured", "asked", "delivered", "undelivered"}]
    /\ reservation \in [Events -> {"absent", "processing", "completed", "retrying"}]
    /\ evaluation \in [Events -> {"absent", "processing", "completed", "skipped", "retrying"}]
    /\ epoch \in [active: 0..MaxEpochs, used: 0..MaxEpochs]
    /\ total \in [Epochs -> Nat]
    /\ receipt \subseteq Receipts
    /\ lane \in Requests
    /\ shadow \in Requests

ForegroundInit ==
    /\ told = [e \in Events |-> "none"]
    /\ reservation = [e \in Events |-> "absent"]
    /\ evaluation = [e \in Events |-> "absent"]
    /\ epoch = [active |-> 0, used |-> 0]
    /\ total = [n \in Epochs |-> 0]
    /\ receipt = {}
    /\ lane = Free
    /\ shadow = Free

-----------------------------------------------------------------------------
(* Packs and receipts, common to both evaluators                            *)

\* loadEpoch: the total and the revisions injected so far, by their receipts.
Seen(n) == UNION {r.items : r \in {x \in receipt : x.epoch = n /\ x.kept}}

\* A prompt's pack repeats nothing of its epoch and fits the hard limit.
PromptPacks(n) ==
    {items \in SUBSET (Memories \ Seen(n)) :
       /\ Cardinality(items) <= PackLimit
       /\ items # {} => total[n] + Cardinality(items) <= EpochLimit}
StartPacks == {items \in SUBSET Memories : Cardinality(items) <= PackLimit}

\* The epoch of a request in the transaction of its receipt: a start opens one.
OpenEpoch == [active |-> epoch.used + 1, used |-> epoch.used + 1]

\* Faulty: adds to what was loaded with the pack.
TotalLoaded(n, items) == [total EXCEPT ![n] = Cardinality(Seen(n) \cup items)]
TotalAfter(n, items) == [total EXCEPT ![n] = @ + Cardinality(items)]

\* A receipt is a row of its own, whatever others say.
Unused(id) == {r.id : r \in receipt} = 1..(id - 1)
NewReceipt(id, e, by, n, items) ==
    [id |-> id, event |-> e, by |-> by, epoch |-> n, items |-> items, kept |-> TRUE]
ReceiptAdded(e, by, n, items) ==
    \E id \in Identities :
        Unused(id) /\ receipt' = receipt \cup {NewReceipt(id, e, by, n, items)}

\* recordAutomaticReceipt, one transaction: an epoch is opened ...
RecordStart(e, by, items) ==
    /\ epoch.used < MaxEpochs
    /\ epoch' = OpenEpoch
    /\ total' = TotalAfter(epoch.used + 1, items)
    /\ ReceiptAdded(e, by, epoch.used + 1, items)

\* ... or must still be active.
RecordInEpoch(e, by, n, items) ==
    /\ epoch.active = n
    /\ total' = TotalAfter(n, items)
    /\ ReceiptAdded(e, by, n, items)
    /\ UNCHANGED epoch

-----------------------------------------------------------------------------
(* The hook and the lane                                                    *)

Capture(e) ==
    /\ told[e] = "none"
    /\ told' = [told EXCEPT ![e] = "captured"]
    /\ UNCHANGED <<reservation, evaluation, epoch, total, receipt, lane, shadow>>

\* A host may run the hook of an event again; its identity is the same.
Admit(e) ==
    /\ told[e] \in {"captured", "delivered", "undelivered"} /\ lane = Free
    /\ told' = [told EXCEPT ![e] = IF @ = "captured" THEN "asked" ELSE @]
    /\ lane' = [Free EXCEPT !.pc = "admitted", !.event = e]
    /\ UNCHANGED <<reservation, evaluation, epoch, total, receipt, shadow>>

Answer(e, outcome) == [told EXCEPT ![e] = IF @ = "asked" THEN outcome ELSE @]

\* Busy, past its deadline, or no foreground thread listens.
Refuse(e) ==
    /\ told[e] = "captured"
    /\ told' = [told EXCEPT ![e] = "undelivered"]
    /\ UNCHANGED <<reservation, evaluation, epoch, total, receipt, lane, shadow>>

\* INSERT OR IGNORE; a reserved event gets an empty answer.
Reservable(e) == reservation[e] = "absent"

Reserve ==
    /\ lane.pc = "admitted"
    /\ IF Reservable(lane.event)
       THEN /\ reservation' = [reservation EXCEPT ![lane.event] = "processing"]
            /\ lane' = [lane EXCEPT !.pc = "reserved"]
            /\ UNCHANGED told
       ELSE /\ told' = Answer(lane.event, "delivered")
            /\ lane' = Free
            /\ UNCHANGED reservation
    /\ UNCHANGED <<evaluation, epoch, total, receipt, shadow>>

\* The epoch a prompt belongs to: the first prompt of a session opens one.
CanLoadEpoch == epoch.active # 0 \/ epoch.used < MaxEpochs
LoadedEpoch == IF epoch.active = 0 THEN OpenEpoch ELSE epoch

\* The owner may have switched injection at the start of sessions off.
SelectStart ==
    /\ lane.pc = "reserved" /\ lane.event \in StartEvents
    /\ \/ /\ \E items \in StartPacks :
              lane' = [lane EXCEPT !.pc = "selected", !.items = items]
          /\ UNCHANGED epoch
       \/ /\ CanLoadEpoch
          /\ epoch' = LoadedEpoch
          /\ lane' = [lane EXCEPT !.pc = "selected", !.epoch = LoadedEpoch.active]
    /\ UNCHANGED <<told, reservation, evaluation, total, receipt, shadow>>

SelectPrompt ==
    /\ lane.pc = "reserved" /\ lane.event \in PromptEvents
    /\ CanLoadEpoch
    /\ epoch' = LoadedEpoch
    /\ \E items \in PromptPacks(LoadedEpoch.active) :
         lane' = [lane EXCEPT !.pc = "selected", !.epoch = LoadedEpoch.active, !.items = items]
    /\ UNCHANGED <<told, reservation, evaluation, total, receipt, shadow>>

\* The receipt, the epoch and the reservation in one transaction.
Commit ==
    LET e == lane.event IN
    /\ lane.pc = "selected"
    /\ reservation[e] = "processing"
    /\ IF lane.epoch = 0 THEN RecordStart(e, "foreground", lane.items)
       ELSE RecordInEpoch(e, "foreground", lane.epoch, lane.items)
    /\ reservation' = [reservation EXCEPT ![e] = "completed"]
    /\ lane' = [lane EXCEPT !.pc = "committed"]
    /\ UNCHANGED <<told, evaluation, shadow>>

\* The client may have gone by now.
Respond ==
    /\ lane.pc = "committed"
    /\ \E outcome \in {"delivered", "undelivered"} : told' = Answer(lane.event, outcome)
    /\ lane' = Free
    /\ UNCHANGED <<reservation, evaluation, epoch, total, receipt, shadow>>

\* Deadline, disconnect, a busy database, or an epoch that was closed: before a
\* reservation nothing is recorded.
Abort ==
    /\ lane.pc \in {"admitted", "reserved", "selected"}
    /\ \/ /\ lane.pc # "admitted"
          /\ reservation' = [reservation EXCEPT ![lane.event] =
                               IF @ = "processing" THEN "retrying" ELSE @]
       \/ UNCHANGED reservation
    /\ told' = Answer(lane.event, "undelivered")
    /\ lane' = Free
    /\ UNCHANGED <<evaluation, epoch, total, receipt, shadow>>

ForegroundExits ==
    /\ lane # Free
    /\ told' = Answer(lane.event, "undelivered")
    /\ lane' = Free
    /\ UNCHANGED <<reservation, evaluation, epoch, total, receipt, shadow>>

-----------------------------------------------------------------------------
(* The Shadow evaluator                                                     *)

\* claimNextShadowEvent: an evaluation left behind by a crash is claimed again.
ClaimableReservation(e) ==
    /\ told[e] # "none"
    /\ evaluation[e] \in {"absent", "retrying", "processing"}
    /\ reservation[e] \in {"absent", "retrying"}

ClaimShadow(e) ==
    /\ shadow = Free /\ ClaimableReservation(e)
    /\ evaluation' = [evaluation EXCEPT ![e] = "processing"]
    /\ shadow' = [Free EXCEPT !.pc = "claimed", !.event = e]
    /\ UNCHANGED <<told, reservation, epoch, total, receipt, lane>>

SettleShadow(state) ==
    /\ evaluation' = [evaluation EXCEPT ![shadow.event] = state]
    /\ shadow' = Free

\* The payload may be gone, the project or the session unknown.
CheckDelivery ==
    /\ shadow.pc = "claimed"
    /\ \/ /\ reservation[shadow.event] # "retrying"
          /\ shadow' = [shadow EXCEPT !.pc = "checked"]
          /\ UNCHANGED evaluation
       \/ SettleShadow("skipped")
    /\ UNCHANGED <<told, reservation, epoch, total, receipt, lane>>

\* hasActiveEpoch: a prompt that finds no active epoch prepares the start's pack as well.
FindEpoch ==
    /\ shadow.pc = "checked"
    /\ shadow' = [shadow EXCEPT !.pc = IF shadow.event \in StartEvents \/ epoch.active = 0
                                       THEN "start" ELSE "prompt"]
    /\ UNCHANGED <<told, reservation, evaluation, epoch, total, receipt, lane>>

ShadowSelectStart ==
    /\ shadow.pc = "start"
    /\ \/ /\ \E items \in StartPacks :
              shadow' = [shadow EXCEPT !.pc = "starting", !.items = items]
          /\ UNCHANGED epoch
       \/ /\ CanLoadEpoch
          /\ epoch' = LoadedEpoch
          /\ shadow' = [shadow EXCEPT !.pc = "starting", !.epoch = LoadedEpoch.active]
    /\ UNCHANGED <<told, reservation, evaluation, total, receipt, lane>>

\* The receipt of the start; a prompt goes on to its own pack.
ShadowRecordStart ==
    LET e == shadow.event IN
    /\ shadow.pc = "starting"
    /\ IF shadow.epoch = 0 THEN RecordStart(e, "shadow", shadow.items)
       ELSE RecordInEpoch(e, "shadow", shadow.epoch, shadow.items)
    /\ shadow' = [Free EXCEPT !.pc = IF e \in StartEvents THEN "recorded" ELSE "prompt",
                              !.event = e]
    /\ UNCHANGED <<told, reservation, evaluation, lane>>

ShadowSelect ==
    /\ shadow.pc = "prompt"
    /\ CanLoadEpoch
    /\ epoch' = LoadedEpoch
    /\ \E items \in PromptPacks(LoadedEpoch.active) :
         shadow' = [shadow EXCEPT !.pc = "selected", !.epoch = LoadedEpoch.active,
                                  !.items = items]
    /\ UNCHANGED <<told, reservation, evaluation, total, receipt, lane>>

ShadowCommit ==
    /\ shadow.pc = "selected"
    /\ RecordInEpoch(shadow.event, "shadow", shadow.epoch, shadow.items)
    /\ shadow' = [Free EXCEPT !.pc = "recorded", !.event = shadow.event]
    /\ UNCHANGED <<told, reservation, evaluation, lane>>

\* finishShadowEvaluation, a statement of its own after the receipt's transaction.
FinishShadow ==
    /\ shadow.pc = "recorded"
    /\ SettleShadow("completed")
    /\ UNCHANGED <<told, reservation, epoch, total, receipt, lane>>

\* An error at any step, also after the receipt; or the Worker dies, and the evaluation is
\* claimed again after five minutes.
ShadowFails ==
    /\ shadow # Free
    /\ \/ SettleShadow("retrying")
       \/ shadow' = Free /\ UNCHANGED evaluation
    /\ UNCHANGED <<told, reservation, epoch, total, receipt, lane>>

\* runScheduledInjectionReceiptRetention, a batch of the oldest receipts.
PruneReceipts ==
    /\ \E n \in Epochs :
         /\ \E r \in receipt : r.epoch <= n /\ r.kept
         /\ receipt' = {[r EXCEPT !.kept = @ /\ r.epoch > n] : r \in receipt}
    /\ UNCHANGED <<told, reservation, evaluation, epoch, total, lane, shadow>>

ForegroundNext ==
    \/ \E e \in Events : Capture(e) \/ Admit(e) \/ Refuse(e) \/ ClaimShadow(e)
    \/ Reserve \/ SelectStart \/ SelectPrompt \/ Commit \/ Respond \/ Abort
    \/ ForegroundExits
    \/ CheckDelivery \/ FindEpoch \/ ShadowSelectStart \/ ShadowRecordStart
    \/ ShadowSelect \/ ShadowCommit \/ FinishShadow \/ ShadowFails
    \/ PruneReceipts

ForegroundSpec == ForegroundInit /\ [][ForegroundNext]_foregroundVars

-----------------------------------------------------------------------------
\* The tokens of the receipts of an epoch, one for each of their memories; those of one
\* evaluator's.
TokensOf(n) ==
    Cardinality({p \in receipt \X Memories : p[1].epoch = n /\ p[2] \in p[1].items})
TokensBy(n, by) ==
    Cardinality({p \in receipt \X Memories :
                   p[1].epoch = n /\ p[1].by = by /\ p[2] \in p[1].items})

\* The total of an epoch is the sum of its receipts, removed ones included.
TotalsMatch == \A n \in Epochs : total[n] = TokensOf(n)

\* What one evaluator puts into an epoch stays within the hard limit.
EvaluatorBounded == \A n \in Epochs, by \in Evaluators : TokensBy(n, by) <= EpochLimit

\* One evaluator repeats no memory in an epoch whose receipts are still there, also when it
\* observes an event again.
OncePerEvaluator ==
    \A r, s \in receipt :
        r # s /\ r.epoch = s.epoch /\ r.by = s.by /\ r.kept /\ s.kept
          => r.items \cap s.items = {}

\* An event whose reservation is completed has one receipt of the foreground, however often
\* its hook runs, and any other has none.
ForegroundReceipts(e) == {r \in receipt : r.by = "foreground" /\ r.event = e}
OneForegroundReceipt ==
    \A e \in Events :
        /\ Cardinality(ForegroundReceipts(e)) <= 1
        /\ reservation[e] = "completed" <=> ForegroundReceipts(e) # {}

\* Two evaluators add to an epoch at the same time, each having decided on an older total,
\* and the Shadow one may die after its receipt and observe the event again: the total still
\* is the sum of the receipts, each evaluator alone keeps the hard limit and repeats
\* nothing, and an event is answered from one receipt (packs.ts, 577-808).
InjectionAccounted ==
    TotalsMatch /\ EvaluatorBounded /\ OncePerEvaluator /\ OneForegroundReceipt

\* "Nothing may bypass the hard limit" (SPEC.md:830). Together the two evaluators pass it:
\* each has read the total before the other's receipt, and the receipt's transaction does
\* not look at the limit.
HardLimitKept == \A n \in Epochs : total[n] <= EpochLimit

\* "The same Memory identity and revision is automatically injected at most once per context
\* epoch" (SPEC.md:835). Two evaluators choose it at the same time, or its receipt is removed.
OncePerEpoch ==
    \A r, s \in receipt : r # s /\ r.epoch = s.epoch => r.items \cap s.items = {}

\* "asynchronous Shadow observation must not retroactively create its Receipt"
\* (SPEC.md:707): the Shadow evaluator records nothing for an event whose foreground
\* delivery has failed.
FailureNotReplayed ==
    [][\A r \in receipt' \ receipt :
          r.by = "shadow" /\ r.kept => told[r.event] # "undelivered"]_foregroundVars
=============================================================================
