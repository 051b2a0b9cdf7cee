-------------------------------- MODULE CaptureInbox --------------------------------
(***************************************************************************)
(* The Capture Inbox (src/src/capture/inbox.ts, inbox-files.ts): short-lived *)
(* hook processes publish one file per event under a lock directory that    *)
(* guards the capacity check; the Worker imports the files into the outbox. *)
(* A lock directory two seconds old is removed by whoever meets it.          *)
(***************************************************************************)
EXTENDS Integers, FiniteSets

CONSTANTS
    Hooks,        \* hook processes, each delivers one event
    Events,       \* event identities
    Sensitive,    \* events of which only a body-free disposition is kept
    Stamps,       \* times an event is delivered at, part of its file's name
    Capacity,     \* captureInboxMaximumPendingEntries
    SlowHooks,    \* may a live hook hold the lock for two seconds
    NoHook

ASSUME InboxAssumption ==
    /\ IsFiniteSet(Hooks)
    /\ Sensitive \subseteq Events
    /\ Capacity \in Nat \ {0}
    /\ SlowHooks \in BOOLEAN
    /\ NoHook \notin Hooks

VARIABLES
    hook,       \* progress of each hook and the event it delivers
    inboxLock,  \* the lock directory: who made it, is it two seconds old
    robbed,     \* history: locks removed although their maker held them alive
    pending,    \* event files, named by event and time
    notes,      \* body-free disposition files, named by event
    bad,        \* quarantined files
    outbox,     \* capture_events, one row per deduplication key
    observed,   \* events with a row in sensitivity_observations
    importing,  \* the file whose row is committed but which is still there
    incident    \* is a hook_capture incident open

inboxVars == <<hook, inboxLock, robbed, pending, notes, bad, outbox, observed,
               importing, incident>>

Files == [event: Events, at: Stamps]
NoLock == [owner |-> NoHook, old |-> FALSE]
Holding == {"counting", "writing", "leaving"}

InboxTypeOK ==
    /\ hook \in [Hooks -> [pc: {"new", "waiting", "stealing", "saved", "failed", "dead"} \cup Holding,
                           file: Files, kept: BOOLEAN]]
    /\ inboxLock \in [owner: Hooks \cup {NoHook}, old: BOOLEAN]
    /\ robbed \in 0..Cardinality(Hooks)
    /\ pending \subseteq Files /\ notes \subseteq Events /\ bad \subseteq Events
    /\ outbox \subseteq Events /\ observed \subseteq Events
    /\ importing \subseteq Files /\ Cardinality(importing) <= 1
    /\ incident \in BOOLEAN

InboxInit ==
    /\ hook \in [Hooks -> {[pc |-> "new", file |-> f, kept |-> FALSE] : f \in Files}]
    /\ inboxLock = NoLock
    /\ robbed = 0
    /\ pending = {} /\ notes = {} /\ bad = {}
    /\ outbox = {} /\ observed = {}
    /\ importing = {}
    /\ incident = FALSE

Event(h) == hook[h].file.event
Goes(h, pc) == hook' = [hook EXCEPT ![h].pc = pc]
Occupied == Cardinality(pending) + Cardinality(notes)

-----------------------------------------------------------------------------
(* The hook: handleCodexHook, appendCaptureDisposition, withCapacityLock    *)

\* The event is classified and serialized before the lock is taken.
BeginCapture(h) ==
    /\ hook[h].pc = "new"
    /\ Goes(h, "waiting")
    /\ UNCHANGED <<inboxLock, robbed, pending, notes, bad, outbox, observed, importing, incident>>

TakeLock(h) ==
    /\ hook[h].pc = "waiting" /\ inboxLock = NoLock
    /\ inboxLock' = [owner |-> h, old |-> FALSE]
    /\ Goes(h, "counting")
    /\ UNCHANGED <<robbed, pending, notes, bad, outbox, observed, importing, incident>>

\* stat shows a lock that is two seconds old ...
FindStaleLock(h) ==
    /\ hook[h].pc = "waiting" /\ inboxLock.old
    /\ Goes(h, "stealing")
    /\ UNCHANGED <<inboxLock, robbed, pending, notes, bad, outbox, observed, importing, incident>>

\* rm of the lock directory, whoever has made it.
Robs(h) == /\ inboxLock.owner \notin {h, NoHook}
           /\ hook[inboxLock.owner].pc \in Holding
RemoveLock(h) ==
    /\ inboxLock' = NoLock
    /\ robbed' = IF Robs(h) THEN robbed + 1 ELSE robbed

\* ... and only then it is removed.  Bound: as many robberies as hooks.
StealLock(h) ==
    /\ hook[h].pc = "stealing"
    /\ robbed < Cardinality(Hooks)
    /\ RemoveLock(h)
    /\ Goes(h, "waiting")
    /\ UNCHANGED <<pending, notes, bad, outbox, observed, importing, incident>>

\* The deadline of the hook passes while it waits.
LockTimeout(h) ==
    /\ hook[h].pc = "waiting" /\ inboxLock # NoLock
    /\ Goes(h, "failed")
    /\ incident' \in {TRUE, incident}
    /\ UNCHANGED <<inboxLock, robbed, pending, notes, bad, outbox, observed, importing>>

\* A file of the same name is there already, or there is room, or there is not.
Kept(h) == IF Event(h) \in Sensitive THEN Event(h) \in notes ELSE hook[h].file \in pending

\* Faulty: the dispositions are not reserved when an event is counted.
FullOfEvents == Cardinality(pending) >= Capacity

Full == Occupied >= Capacity

Count(h) ==
    /\ hook[h].pc = "counting"
    /\ hook' = [hook EXCEPT ![h].pc = IF Kept(h) \/ Full THEN "leaving" ELSE "writing",
                            ![h].kept = Kept(h)]
    /\ UNCHANGED <<inboxLock, robbed, pending, notes, bad, outbox, observed, importing, incident>>

\* writeFileAtomicallyExclusive; an event file that appeared meanwhile is
\* accepted, a disposition is an error.
WriteFile(h) ==
    /\ hook[h].pc = "writing"
    /\ hook' = [hook EXCEPT ![h].pc = "leaving",
                            ![h].kept = Event(h) \notin Sensitive \/ ~Kept(h)]
    /\ pending' = IF Event(h) \in Sensitive THEN pending ELSE pending \cup {hook[h].file}
    /\ notes' = IF Event(h) \in Sensitive THEN notes \cup {Event(h)} ELSE notes
    /\ UNCHANGED <<inboxLock, robbed, bad, outbox, observed, importing, incident>>

\* The finally block removes the lock, then the hook reports to its host; the
\* health ledger is updated if time is left and SQLite is free.
LeaveLock(h) ==
    /\ hook[h].pc = "leaving"
    /\ robbed < Cardinality(Hooks)
    /\ RemoveLock(h)
    /\ Goes(h, IF hook[h].kept THEN "saved" ELSE "failed")
    /\ incident' \in {~hook[h].kept, incident}
    /\ UNCHANGED <<pending, notes, bad, outbox, observed, importing>>

HookDies(h) ==
    /\ hook[h].pc \in Holding \cup {"waiting", "stealing"}
    /\ Goes(h, "dead")
    /\ UNCHANGED <<inboxLock, robbed, pending, notes, bad, outbox, observed, importing, incident>>

LockAges ==
    /\ inboxLock # NoLock /\ ~inboxLock.old
    /\ SlowHooks \/ hook[inboxLock.owner].pc \notin Holding
    /\ inboxLock' = [inboxLock EXCEPT !.old = TRUE]
    /\ UNCHANGED <<hook, robbed, pending, notes, bad, outbox, observed, importing, incident>>

-----------------------------------------------------------------------------
(* The Worker: importCaptureInboxBatch.  A busy database defers the batch    *)
(* and changes nothing.                                                      *)

\* captureRecoveredEvent: one row per deduplication key, whatever the number
\* of files.
ImportEvent(f) ==
    /\ importing = {} /\ f \in pending
    /\ outbox' = outbox \cup {f.event}
    /\ importing' = {f}
    /\ UNCHANGED <<hook, inboxLock, robbed, pending, notes, bad, observed, incident>>

\* Dispositions are imported when no event file is left; the finding and its
\* observation are committed before the file goes.
ImportNote(f) ==
    /\ importing = {} /\ pending = {} /\ f.event \in notes
    /\ observed' = observed \cup {f.event}
    /\ importing' = {f}
    /\ UNCHANGED <<hook, inboxLock, robbed, pending, notes, bad, outbox, incident>>

RemoveFile(f) ==
    /\ pending' = pending \ {f}
    /\ notes' = IF f.event \in Sensitive THEN notes \ {f.event} ELSE notes
    /\ importing' = {}

Unlink(f) ==
    /\ f \in importing
    /\ RemoveFile(f)
    /\ UNCHANGED <<hook, inboxLock, robbed, bad, outbox, observed, incident>>

\* The file does not parse, its checksum or its content is refused, or it
\* cannot be unlinked.
QuarantineFile(f) ==
    /\ importing \in {{}, {f}}
    /\ f \in pending \/ (f.event \in notes /\ (pending = {} \/ importing = {f}))
    /\ RemoveFile(f)
    /\ bad' = bad \cup {f.event}
    /\ UNCHANGED <<hook, inboxLock, robbed, outbox, observed, incident>>

ImporterDies ==
    /\ importing # {}
    /\ importing' = {}
    /\ UNCHANGED <<hook, inboxLock, robbed, pending, notes, bad, outbox, observed, incident>>

-----------------------------------------------------------------------------
InboxNext ==
    \/ LockAges \/ ImporterDies
    \/ \E h \in Hooks :
         \/ BeginCapture(h) \/ TakeLock(h) \/ FindStaleLock(h) \/ StealLock(h) \/ LockTimeout(h)
         \/ Count(h) \/ WriteFile(h) \/ LeaveLock(h) \/ HookDies(h)
    \/ \E f \in Files : ImportEvent(f) \/ ImportNote(f) \/ Unlink(f) \/ QuarantineFile(f)

InboxSpec == InboxInit /\ [][InboxNext]_inboxVars

-----------------------------------------------------------------------------
(* What a hook reported as captured is in a file, in the database, or in the *)
(* quarantine directory, whenever hooks and Worker die.                      *)
AcceptedSurvives ==
    \A h \in Hooks : hook[h].pc = "saved" =>
        Event(h) \in {f.event : f \in pending} \cup notes \cup bad \cup outbox \cup observed

(* The inbox holds more than its limit only by as many files as live hooks   *)
(* lost their lock to others while they were inside.                         *)
OverfullByRobbery == Occupied <= Capacity + robbed

(* The body of a sensitive event reaches neither an event file nor the       *)
(* outbox.                                                                   *)
BodyFree == \A e \in Sensitive : e \notin outbox /\ e \notin {f.event : f \in pending}

(* What holds of the inbox although a lock may be stolen from a live hook:   *)
(* nothing accepted is lost, the limit is passed only by the robbed hooks,   *)
(* and no sensitive body is stored.                                          *)
InboxSafe == AcceptedSurvives /\ OverfullByRobbery /\ BodyFree

(* The limit of the inbox as documented: no more pending files than the      *)
(* limit.  The stale-lock rule breaks it.                                    *)
WithinCapacity == Occupied <= Capacity
=============================================================================
