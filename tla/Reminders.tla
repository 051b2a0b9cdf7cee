---------------------------------- MODULE Reminders ----------------------------------
(***************************************************************************)
(* Review Inbox and reminders (src/src/review): the inbox is generated from   *)
(* what is open, a reminder is prepared once per digest from its counts, and *)
(* the Worker or the command shows one due reminder at a time through the    *)
(* notifier, while the owner snoozes, acknowledges and settles review items. *)
(***************************************************************************)
EXTENDS Integers, FiniteSets

CONSTANTS
    Digests,      \* digest keys: review weeks, or sets of model health incidents
    Items,        \* open questions the inbox counts
    Dispatchers,  \* processes that show reminders
    NoReminder

ASSUME RemindersAssumption ==
    /\ IsFiniteSet(Items)
    /\ NoReminder \notin Digests

VARIABLES
    openItems,   \* review suggestions, verification requests, conflicts
    inbox,       \* review_inbox_state: the items counted, and is the file as generated
    reminder,    \* reminder_obligations: state, due, and the number of items counted
    dispatcher   \* what each dispatcher found, or is showing

remindVars == <<openItems, inbox, reminder, dispatcher>>

Settled == {"delivered", "acknowledged", "fallback"}
ReminderStates == {"absent", "pending", "delivering", "failed", "snoozed"} \cup Settled

RemindersTypeOK ==
    /\ openItems \subseteq Items
    /\ inbox \in [counted: SUBSET Items, state: {"none", "generated", "edited"}]
    /\ reminder \in [Digests -> [state: ReminderStates, due: BOOLEAN,
                                 counts: 0..Cardinality(Items)]]
    /\ dispatcher \in [Dispatchers -> [pc: {"idle", "found", "showing"},
                                       reminder: Digests \cup {NoReminder}]]

RemindersInit ==
    /\ openItems = {}
    /\ inbox = [counted |-> {}, state |-> "none"]
    /\ reminder = [d \in Digests |-> [state |-> "absent", due |-> FALSE, counts |-> 0]]
    /\ dispatcher = [p \in Dispatchers |-> [pc |-> "idle", reminder |-> NoReminder]]

-----------------------------------------------------------------------------
(* Review items and the generated inbox                                     *)

OpenItem(i) ==
    /\ i \notin openItems
    /\ openItems' = openItems \cup {i}
    /\ UNCHANGED <<inbox, reminder, dispatcher>>

\* applyReviewAction: dismissed, completed, cancelled or resolved, if open.
SettleItem(i) ==
    /\ i \in openItems
    /\ openItems' = openItems \ {i}
    /\ UNCHANGED <<inbox, reminder, dispatcher>>

GenerateInbox ==
    /\ inbox' = [counted |-> openItems, state |-> "generated"]
    /\ UNCHANGED <<openItems, reminder, dispatcher>>

\* The file is a note of the Vault; an edit changes its checksum.
EditInbox ==
    /\ inbox.state = "generated"
    /\ inbox' = [inbox EXCEPT !.state = "edited"]
    /\ UNCHANGED <<openItems, reminder, dispatcher>>

-----------------------------------------------------------------------------
(* Preparing reminders: INSERT OR IGNORE by digest key                      *)

Inserted(d, n) ==
    IF reminder[d].state # "absent" THEN reminder
    ELSE [reminder EXCEPT ![d] = [state |-> "pending", due |-> TRUE, counts |-> n]]

\* prepareReviewReminder refuses a missing or edited inbox and is silent for
\* an empty one.
PrepareReview(d) ==
    /\ inbox.state = "generated" /\ inbox.counted # {}
    /\ reminder' = Inserted(d, Cardinality(inbox.counted))
    /\ UNCHANGED <<openItems, inbox, dispatcher>>

\* prepareNextModelHealthReminder: the incidents are in LunaHealth.
PrepareHealth(d) ==
    /\ \E n \in 1..Cardinality(Items) : reminder' = Inserted(d, n)
    /\ UNCHANGED <<openItems, inbox, dispatcher>>

-----------------------------------------------------------------------------
(* dispatchNextReminder                                                     *)

DueDigest(d) == reminder[d].state \in {"pending", "failed", "snoozed"} /\ reminder[d].due

\* The query outside the transaction only decides whether to go on.
FindDue(p, d) ==
    /\ dispatcher[p].pc = "idle" /\ DueDigest(d)
    /\ dispatcher' = [dispatcher EXCEPT ![p] = [pc |-> "found", reminder |-> d]]
    /\ UNCHANGED <<openItems, inbox, reminder>>

Shows(p, d) ==
    /\ reminder' = [reminder EXCEPT ![d].state = "delivering", ![d].due = FALSE]
    /\ dispatcher' = [dispatcher EXCEPT ![p] = [pc |-> "showing", reminder |-> d]]

\* Faulty: shows what the query outside the transaction found.
TakeFound(p) ==
    /\ dispatcher[p].pc = "found"
    /\ Shows(p, dispatcher[p].reminder)
    /\ UNCHANGED <<openItems, inbox>>

\* The transaction selects again: a due reminder, or none is left.
TakeReminder(p) ==
    /\ dispatcher[p].pc = "found"
    /\ \/ \E d \in Digests : DueDigest(d) /\ Shows(p, d)
       \/ /\ ~\E d \in Digests : DueDigest(d)
          /\ dispatcher' = [dispatcher EXCEPT ![p] = [pc |-> "idle", reminder |-> NoReminder]]
          /\ UNCHANGED reminder
    /\ UNCHANGED <<openItems, inbox>>

\* The notifier's answer counts only while the row is still being delivered.
Record(p, outcome) ==
    /\ dispatcher[p].pc = "showing"
    /\ LET d == dispatcher[p].reminder IN
       reminder' = IF reminder[d].state = "delivering"
                   THEN [reminder EXCEPT ![d].state = outcome] ELSE reminder
    /\ dispatcher' = [dispatcher EXCEPT ![p] = [pc |-> "idle", reminder |-> NoReminder]]
    /\ UNCHANGED <<openItems, inbox>>

\* Faulty: stores the notifier's word for what became of it.
RecordAnswer(p) == \E answer \in {"delivered", "failed", "permission_denied"} : Record(p, answer)

\* A denied permission falls back to the inbox alone and is not tried again.
RecordOutcome(p) == \E outcome \in {"delivered", "failed", "fallback"} : Record(p, outcome)

\* A crash, a notifier that throws, or a busy database after the notice.
DispatcherDies(p) ==
    /\ dispatcher[p].pc # "idle"
    /\ dispatcher' = [dispatcher EXCEPT ![p] = [pc |-> "idle", reminder |-> NoReminder]]
    /\ UNCHANGED <<openItems, inbox, reminder>>

\* Five minutes after a failure, the snooze of at least a day after a snooze:
\* no notifier call lasts that long.
ComesDue(d) ==
    /\ reminder[d].state \in {"failed", "snoozed"}
    /\ \A p \in Dispatchers : dispatcher[p] # [pc |-> "showing", reminder |-> d]
    /\ reminder' = [reminder EXCEPT ![d].due = TRUE]
    /\ UNCHANGED <<openItems, inbox, dispatcher>>

-----------------------------------------------------------------------------
(* The owner                                                                *)

Snooze(d) ==
    /\ reminder[d].state \notin {"absent", "acknowledged"}
    /\ reminder' = [reminder EXCEPT ![d].state = "snoozed", ![d].due = FALSE]
    /\ UNCHANGED <<openItems, inbox, dispatcher>>

AcknowledgeDigest(d) ==
    /\ reminder[d].state \in {"delivering", "delivered", "snoozed", "fallback"}
    /\ reminder' = [reminder EXCEPT ![d].state = "acknowledged", ![d].due = FALSE]
    /\ UNCHANGED <<openItems, inbox, dispatcher>>

RemindersNext ==
    \/ GenerateInbox \/ EditInbox
    \/ \E i \in Items : OpenItem(i) \/ SettleItem(i)
    \/ \E d \in Digests :
         \/ PrepareReview(d) \/ PrepareHealth(d) \/ ComesDue(d) \/ Snooze(d) \/ AcknowledgeDigest(d)
         \/ \E p \in Dispatchers : FindDue(p, d)
    \/ \E p \in Dispatchers : TakeReminder(p) \/ RecordOutcome(p) \/ DispatcherDies(p)

RemindersSpec == RemindersInit /\ [][RemindersNext]_remindVars

-----------------------------------------------------------------------------
(* Two dispatchers never show the same reminder at the same time.            *)
ShownByOne ==
    \A p, q \in Dispatchers :
        dispatcher[p].pc = "showing" /\ dispatcher[q] = dispatcher[p] => p = q

(* A reminder that was acknowledged is never shown or prepared again, and a  *)
(* late answer of the notifier does not undo a snooze.                       *)
OwnerDecides ==
    [][\A d \in Digests :
         /\ reminder[d].state = "acknowledged" => reminder'[d].state = "acknowledged"
         /\ reminder[d].state = "snoozed" /\ ~reminder[d].due
              => reminder'[d].state \in {"snoozed", "acknowledged"}]_remindVars

(* "Missed reminders reconcile after sleep, shutdown, or worker failure": a  *)
(* reminder marked as being delivered is being delivered.                    *)
DeliveringIsAttended ==
    \A d \in Digests : reminder[d].state = "delivering" =>
        \E p \in Dispatchers : dispatcher[p] = [pc |-> "showing", reminder |-> d]

(* One dispatcher shows a reminder, and what the owner decided stands.       *)
RemindersKept == []ShownByOne /\ OwnerDecides
=============================================================================
