------------------------------ MODULE CanonicalVault ------------------------------
(***************************************************************************)
(* The canonical Vault (src/src/vault/index.ts): one Markdown file per      *)
(* Memory, a file per revision, and the runtime catalog that points at the  *)
(* current one.  A write checks the file, replaces it and moves the catalog *)
(* in separate steps, with no lock over them, while other processes write,  *)
(* reconcile or purge the same Memory and the owner edits the file by hand. *)
(* A Memory that becomes active holds a durable admission meanwhile         *)
(* (src/src/vault/active-capacity.ts).                                      *)
(***************************************************************************)
EXTENDS Integers, FiniteSets

CONSTANTS
    Memories,      \* Memory identities
    Writers,       \* processes: Worker, CLI, hooks
    ActiveLimit,   \* policy.corpusRetention.policy.activeLimit
    MaxRevision,   \* bound: revisions ever rendered
    MaxEdits,      \* bound: edits by hand
    Dead,          \* owner of an admission whose process is gone
    None           \* no file, no row, no content

ASSUME VaultAssumption ==
    /\ IsFiniteSet(Memories)
    /\ ActiveLimit \in Nat
    /\ MaxRevision \in Nat
    /\ MaxEdits \in Nat
    /\ Dead \notin Writers
    /\ None \notin Writers
    /\ Dead # None

VARIABLES
    file,        \* Memories/<id>.md: the content of each canonical file
    revisions,   \* _MemStore/Revisions/<id>/: the contents kept there
    catalog,     \* memory_catalog: the content each row identifies
    rows,        \* memory_revisions: [revision, predecessor] of each Memory
    conflicts,   \* Memories with an open row of vault_conflicts
    admission,   \* active_capacity_admissions: owner of each Memory's slot
    order,       \* content an accepted purge order names
    unadmitted,  \* Memories made active by a call that held no admission
    job,         \* the call each process is in
    fresh,       \* next revision identity
    edits        \* edits made by hand

vars == <<file, revisions, catalog, rows, conflicts, admission, order,
          unadmitted, job, fresh, edits>>
vault == <<file, revisions>>
records == <<catalog, rows, unadmitted>>

-----------------------------------------------------------------------------
(* A content stands for one content identity: revision, the number of the   *)
(* hand edit that made it (0: rendered by the program), lifecycle, author,  *)
(* and the revision a tombstone replaced.                                   *)
Lifecycles == {"active", "archived", "tombstone"}
Content == [revision: 1..MaxRevision, edit: 0..MaxEdits, lifecycle: Lifecycles,
            author: {"human", "agent"}, purged: 0..MaxRevision]

ASSUME NoContentAssumption == None \notin Content

Idle == [kind |-> "none", pc |-> "idle", memory |-> None, admitted |-> FALSE,
         base |-> None, seen |-> None, next |-> None]

Target(w) == job[w].memory
Goto(w, pc) == job' = [job EXCEPT ![w].pc = pc]
At(w, pc) == job[w].pc = pc

CatalogActive(m) == catalog[m] # None /\ catalog[m].lifecycle = "active"

\* Faulty variant: slots reserved by writers still at work are not counted.
SlotsOfRows == Cardinality({m \in Memories : CatalogActive(m)})

\* The slots taken: active rows, and admissions of Memories not yet active.
SlotsTaken ==
    Cardinality({m \in Memories : CatalogActive(m) \/ admission[m] # None})

-----------------------------------------------------------------------------
(* writeCanonicalMemory                                                     *)

\* A caller read the Memory and rendered its successor, or made a new one.
BeginWrite(w, m) ==
    /\ job[w] = Idle
    /\ fresh <= MaxRevision
    /\ \/ catalog[m] = None
       \/ catalog[m] # None /\ file[m] # None /\ file[m].lifecycle # "tombstone"
    /\ \E lifecycle \in {"active", "archived"}, author \in {"human", "agent"} :
         /\ catalog[m] = None => lifecycle = "active"
         /\ job' = [job EXCEPT ![w] =
              [kind |-> "write",
               pc |-> IF lifecycle = "active" THEN "recover" ELSE "read",
               memory |-> m, admitted |-> FALSE,
               base |-> IF catalog[m] = None THEN None ELSE file[m],
               seen |-> None,
               next |-> [revision |-> fresh, edit |-> 0, lifecycle |-> lifecycle,
                         author |-> author, purged |-> 0]]]
    /\ fresh' = fresh + 1
    /\ UNCHANGED <<vault, records, conflicts, admission, order, edits>>

\* recoverActiveAdmissions: a dead owner's slot goes when nothing was written
\* or when the Memory became active; it stays while the file needs reconciling.
Releasable(m) == admission[m] = Dead /\ (file[m] = None \/ CatalogActive(m))

RecoverAdmissions(w) ==
    /\ At(w, "recover")
    /\ admission' = [m \in Memories |-> IF Releasable(m) THEN None ELSE admission[m]]
    /\ Goto(w, "reserve")
    /\ UNCHANGED <<vault, records, conflicts, order, fresh, edits>>

\* reserveActiveAdmission, one immediate transaction.
Reserve(w) ==
    /\ At(w, "reserve")
    /\ \/ /\ CatalogActive(Target(w))
          /\ Goto(w, "read")
          /\ UNCHANGED admission
       \/ /\ ~CatalogActive(Target(w))
          /\ admission[Target(w)] # None \/ SlotsTaken >= ActiveLimit
          /\ job' = [job EXCEPT ![w] = Idle]
          /\ UNCHANGED admission
       \/ /\ ~CatalogActive(Target(w))
          /\ admission[Target(w)] = None
          /\ SlotsTaken < ActiveLimit
          /\ admission' = [admission EXCEPT ![Target(w)] = w]
          /\ job' = [job EXCEPT ![w].pc = "read", ![w].admitted = TRUE]
    /\ UNCHANGED <<vault, records, conflicts, order, fresh, edits>>

\* The file is read and compared with what the caller expects.
ReadFile(w) ==
    /\ At(w, "read")
    /\ LET found == file[Target(w)] IN
       \/ /\ found = None
          /\ Goto(w, IF job[w].base = None THEN "unowned" ELSE "failed")
          /\ UNCHANGED conflicts
       \/ /\ found # None /\ found # job[w].base
          /\ conflicts' = conflicts \cup {Target(w)}
          /\ Goto(w, "failed")
       \/ /\ found # None /\ found = job[w].base
          /\ job' = [job EXCEPT ![w].seen = found, ![w].pc = "reconciled"]
          /\ UNCHANGED conflicts
    /\ UNCHANGED <<vault, records, admission, order, fresh, edits>>

\* requireReconciledCatalog, then the authority of the revision replaced.
CheckReconciled(w) ==
    /\ At(w, "reconciled")
    /\ LET allowed == /\ catalog[Target(w)] = job[w].seen
                      /\ job[w].next.author = "agent" => job[w].seen.author = "agent"
       IN Goto(w, IF allowed THEN "keep" ELSE "failed")
    /\ UNCHANGED <<vault, records, conflicts, admission, order, fresh, edits>>

\* The revision being replaced gets its file if it has none.
KeepPrevious(w) ==
    /\ At(w, "keep")
    /\ revisions' = [revisions EXCEPT ![Target(w)] =
         IF \E c \in @ : c.revision = job[w].seen.revision
         THEN @ ELSE @ \cup {job[w].seen}]
    /\ Goto(w, "compare")
    /\ UNCHANGED <<file, records, conflicts, admission, order, fresh, edits>>

\* A new Memory must not be catalogued already, and its file is linked only
\* where there is none.
CheckUnowned(w) ==
    /\ At(w, "unowned")
    /\ Goto(w, IF catalog[Target(w)] = None THEN "link" ELSE "failed")
    /\ UNCHANGED <<vault, records, conflicts, admission, order, fresh, edits>>

LinkFile(w) ==
    /\ At(w, "link")
    /\ IF file[Target(w)] = None
       THEN /\ file' = [file EXCEPT ![Target(w)] = job[w].next]
            /\ Goto(w, "revision")
       ELSE UNCHANGED file /\ Goto(w, "failed")
    /\ UNCHANGED <<revisions, records, conflicts, admission, order, fresh, edits>>

-----------------------------------------------------------------------------
(* writeFileAtomically, of a write, a reconciliation and a purge: the       *)
(* comparison and the rename are two calls.                                 *)

Compare(w) ==
    /\ At(w, "compare")
    /\ Goto(w, IF file[Target(w)] = job[w].seen THEN "rename" ELSE "failed")
    /\ UNCHANGED <<vault, records, conflicts, admission, order, fresh, edits>>

Rename(w) ==
    /\ At(w, "rename")
    /\ file' = [file EXCEPT ![Target(w)] = job[w].next]
    /\ Goto(w, IF job[w].kind = "purge" THEN "erase" ELSE "revision")
    /\ UNCHANGED <<revisions, records, conflicts, admission, order, fresh, edits>>

WriteRevision(w) ==
    /\ At(w, "revision")
    /\ revisions' = [revisions EXCEPT ![Target(w)] = @ \cup {job[w].next}]
    /\ Goto(w, "verify")
    /\ UNCHANGED <<file, records, conflicts, admission, order, fresh, edits>>

\* The read-back.
Verify(w) ==
    /\ At(w, "verify")
    /\ Goto(w, IF file[Target(w)] = job[w].next THEN "commit" ELSE "failed")
    /\ UNCHANGED <<vault, records, conflicts, admission, order, fresh, edits>>

\* Faulty variant: the two columns of the new row are swapped.
RowsSwapped(w) ==
    LET previous == job[w].seen IN
    rows[Target(w)] \cup {[revision |-> IF previous = None THEN 0 ELSE previous.revision,
                           predecessor |-> job[w].next.revision]}

\* INSERT OR IGNORE of the revision replaced, INSERT of the new one.
RowsAfter(w) ==
    LET previous == job[w].seen
        known == \E r \in rows[Target(w)] : r.revision = previous.revision
    IN  rows[Target(w)]
          \cup (IF previous = None \/ known \/ job[w].kind = "reconcile" THEN {}
                ELSE {[revision |-> previous.revision, predecessor |-> 0]})
          \cup {[revision |-> job[w].next.revision,
                 predecessor |-> IF previous = None THEN 0 ELSE previous.revision]}

\* Faulty variant: the row is updated without looking at it.
CommitsAlways(w) == (catalog[Target(w)] = None) = (job[w].base = None)

\* UPDATE memory_catalog ... WHERE content_identity = observed, or the INSERT
\* of a new row; no row updated rolls everything back.
Commits(w) == catalog[Target(w)] = job[w].base

CommitCatalog(w) ==
    /\ At(w, "commit")
    /\ IF Commits(w)
       THEN /\ catalog' = [catalog EXCEPT ![Target(w)] = job[w].next]
            /\ rows' = [rows EXCEPT ![Target(w)] = RowsAfter(w)]
            /\ unadmitted' =
                 IF job[w].next.lifecycle # "active" THEN unadmitted \ {Target(w)}
                 ELSE IF ~CatalogActive(Target(w)) /\ ~job[w].admitted
                      THEN unadmitted \cup {Target(w)} ELSE unadmitted
            /\ Goto(w, "done")
       ELSE UNCHANGED records /\ Goto(w, "failed")
    /\ UNCHANGED <<vault, conflicts, admission, order, fresh, edits>>

\* An I/O error, a lock timeout or refused content ends any call early.
Fail(w) ==
    /\ job[w].pc \notin {"idle", "done", "failed"}
    /\ Goto(w, "failed")
    /\ UNCHANGED <<vault, records, conflicts, admission, order, fresh, edits>>

\* The finally block: the slot is returned unless an active file stayed behind
\* without its catalog row (finishActiveAdmission).
SafeToRelease(w) ==
    LET found == file[Target(w)] IN
    \/ At(w, "done")
    \/ found = None
    \/ found # None /\ found.lifecycle # "active"
    \/ CatalogActive(Target(w))

Finish(w) ==
    /\ job[w].pc \in {"done", "failed"}
    /\ admission' = IF job[w].admitted /\ SafeToRelease(w)
                    THEN [admission EXCEPT ![Target(w)] = None] ELSE admission
    /\ job' = [job EXCEPT ![w] = Idle]
    /\ UNCHANGED <<vault, records, conflicts, order, fresh, edits>>

-----------------------------------------------------------------------------
(* reconcileCanonicalMemory: an edit by hand becomes a revision.            *)

BeginReconcile(w, m) ==
    /\ job[w] = Idle
    /\ catalog[m] # None
    /\ fresh <= MaxRevision
    /\ job' = [job EXCEPT ![w] = [Idle EXCEPT !.kind = "reconcile", !.pc = "edited",
                                              !.memory = m, !.base = catalog[m]]]
    /\ UNCHANGED <<vault, records, conflicts, admission, order, fresh, edits>>

\* Nothing to do, or an edit of another revision than the catalog's, or a
\* manual revision: human authored, lifecycle as edited.
ReadEdit(w) ==
    /\ At(w, "edited")
    /\ LET found == file[Target(w)] IN
       IF found = None \/ found = job[w].base \/ found.revision # job[w].base.revision
       THEN Goto(w, "failed") /\ UNCHANGED fresh
       ELSE /\ fresh <= MaxRevision
            /\ fresh' = fresh + 1
            /\ job' = [job EXCEPT ![w].seen = found, ![w].pc = "compare",
                 ![w].next = [found EXCEPT !.revision = fresh, !.edit = 0,
                                           !.author = "human"]]
    /\ UNCHANGED <<vault, records, conflicts, admission, order, edits>>

-----------------------------------------------------------------------------
(* purgeArchivedCanonicalBody, called for an accepted purge order and again *)
(* after a crash.                                                           *)

\* A purge intent is accepted for the archived content the catalog shows.
OrderPurge(m) ==
    /\ CatalogActive(m) = FALSE /\ catalog[m] # None
    /\ catalog[m].lifecycle = "archived"
    /\ order' = [order EXCEPT ![m] = catalog[m]]
    /\ order[m] # catalog[m]
    /\ UNCHANGED <<vault, records, conflicts, admission, job, fresh, edits>>

BeginPurge(w, m) ==
    /\ job[w] = Idle
    /\ order[m] # None
    /\ job' = [job EXCEPT ![w] = [Idle EXCEPT !.kind = "purge", !.pc = "target",
                                              !.memory = m, !.base = order[m]]]
    /\ UNCHANGED <<vault, records, conflicts, admission, order, fresh, edits>>

\* The archived body as ordered, or the tombstone an interrupted purge left.
ReadTarget(w) ==
    /\ At(w, "target")
    /\ LET found == file[Target(w)]
           ordered == job[w].base IN
       \/ /\ found # None /\ found = ordered
          /\ job' = [job EXCEPT ![w].seen = found, ![w].pc = "compare",
               ![w].next = [found EXCEPT !.lifecycle = "tombstone",
                                         !.purged = found.revision]]
       \/ /\ found # None /\ found.purged = ordered.revision
          /\ job' = [job EXCEPT ![w].seen = found, ![w].next = found,
                                ![w].pc = "erase"]
       \/ /\ found = None \/ (found # ordered /\ found.purged # ordered.revision)
          /\ Goto(w, "failed")
    /\ UNCHANGED <<vault, records, conflicts, admission, order, fresh, edits>>

\* rm -r of the Memory's revision directory.
EraseRevisions(w) ==
    /\ At(w, "erase")
    /\ revisions' = [revisions EXCEPT ![Target(w)] = {}]
    /\ Goto(w, "tombstone")
    /\ UNCHANGED <<file, records, conflicts, admission, order, fresh, edits>>

CommitTombstone(w) ==
    /\ At(w, "tombstone")
    /\ IF catalog[Target(w)] \in {job[w].base, job[w].next}
       THEN /\ catalog' = [catalog EXCEPT ![Target(w)] = job[w].next]
            /\ rows' = [rows EXCEPT ![Target(w)] = {}]
            /\ order' = [order EXCEPT ![Target(w)] = None]
            /\ Goto(w, "done")
       ELSE UNCHANGED <<catalog, rows, order>> /\ Goto(w, "failed")
    /\ UNCHANGED <<vault, unadmitted, conflicts, admission, fresh, edits>>

-----------------------------------------------------------------------------
(* rebuildCanonicalCatalog records, in a runtime that knows nothing yet, the *)
(* revisions kept for a Memory and the one its file shows; of a tombstone,   *)
(* none.                                                                     *)
RebuiltRevisions(m) ==
    IF file[m] = None THEN {}
    ELSE IF file[m].lifecycle = "tombstone" THEN {}
    ELSE {c.revision : c \in revisions[m]} \cup {file[m].revision}

-----------------------------------------------------------------------------
(* The environment                                                          *)

\* The owner edits the Markdown by hand, body or lifecycle.
Edit(m) ==
    /\ file[m] # None /\ file[m].lifecycle # "tombstone"
    /\ edits < MaxEdits
    /\ \E lifecycle \in {"active", "archived"} :
         file' = [file EXCEPT ![m].edit = edits + 1, ![m].lifecycle = lifecycle]
    /\ edits' = edits + 1
    /\ UNCHANGED <<revisions, records, conflicts, admission, order, job, fresh>>

\* A process dies, in the middle of a call or with a slot it could not return; the
\* slot keeps a dead owner.
Crash(w) ==
    /\ job[w] # Idle \/ \E m \in Memories : admission[m] = w
    /\ job' = [job EXCEPT ![w] = Idle]
    /\ admission' = [m \in Memories |-> IF admission[m] = w THEN Dead ELSE admission[m]]
    /\ UNCHANGED <<vault, records, conflicts, order, fresh, edits>>

-----------------------------------------------------------------------------
Init ==
    /\ file = [m \in Memories |-> None]
    /\ revisions = [m \in Memories |-> {}]
    /\ catalog = [m \in Memories |-> None]
    /\ rows = [m \in Memories |-> {}]
    /\ conflicts = {}
    /\ admission = [m \in Memories |-> None]
    /\ order = [m \in Memories |-> None]
    /\ unadmitted = {}
    /\ job = [w \in Writers |-> Idle]
    /\ fresh = 1
    /\ edits = 0

Step(w) ==
    \/ \E m \in Memories : BeginWrite(w, m)
    \/ RecoverAdmissions(w)
    \/ Reserve(w)
    \/ ReadFile(w)
    \/ CheckReconciled(w)
    \/ KeepPrevious(w)
    \/ CheckUnowned(w)
    \/ LinkFile(w)
    \/ Compare(w)
    \/ Rename(w)
    \/ WriteRevision(w)
    \/ Verify(w)
    \/ CommitCatalog(w)
    \/ Fail(w)
    \/ Finish(w)
    \/ \E m \in Memories : BeginReconcile(w, m)
    \/ ReadEdit(w)
    \/ \E m \in Memories : BeginPurge(w, m)
    \/ ReadTarget(w)
    \/ EraseRevisions(w)
    \/ CommitTombstone(w)
    \/ Crash(w)

Next ==
    \/ \E w \in Writers : Step(w)
    \/ \E m \in Memories : OrderPurge(m) \/ Edit(m)

Spec == Init /\ [][Next]_vars

-----------------------------------------------------------------------------
(* Every variable has the shape of the rows, files and calls it stands for. *)
TypeOK ==
    /\ file \in [Memories -> Content \cup {None}]
    /\ revisions \in [Memories -> SUBSET Content]
    /\ catalog \in [Memories -> Content \cup {None}]
    /\ rows \in [Memories -> SUBSET [revision: 1..MaxRevision, predecessor: 0..MaxRevision]]
    /\ conflicts \subseteq Memories
    /\ admission \in [Memories -> Writers \cup {Dead, None}]
    /\ order \in [Memories -> Content \cup {None}]
    /\ unadmitted \subseteq Memories
    /\ \A w \in Writers : job[w] = Idle \/ Target(w) \in Memories
    /\ fresh \in 1..(MaxRevision + 1)
    /\ edits \in 0..MaxEdits

(* The admission limit holds across processes and crashes: the Memories     *)
(* that admitted writes made active never exceed it, although the count is  *)
(* taken long before the catalog row that it allows.                        *)
ActiveWithinLimit ==
    Cardinality({m \in Memories : CatalogActive(m)} \ unadmitted) <= ActiveLimit

(* "Canonical create/restore writes reserve slots atomically before touching *)
(* Markdown" (SPEC.md:240): no write makes a Memory active without a slot.   *)
(* A restore that read the archived file before its row was committed still  *)
(* finds the Memory active when it asks, and needs none.                     *)
WritesAreAdmitted ==
    [][\A m \in Memories : m \in unadmitted' \ unadmitted =>
         \E w \in Writers : job[w].kind = "reconcile" /\ Target(w) = m]_vars

(* Two writers that start from one revision never both succeed: no revision *)
(* is recorded as the predecessor of two others.                            *)
OneSuccessor ==
    \A m \in Memories : \A r, s \in rows[m] :
        r.predecessor # 0 /\ r.predecessor = s.predecessor => r = s

(* The runtime database can be rebuilt from the Vault alone: whatever call   *)
(* a crash interrupted, rebuilding finds every revision the catalog records, *)
(* unless the Memory was ordered to be purged.                               *)
RebuildKeepsRevisions ==
    \A m \in Memories : catalog[m] # None /\ order[m] = None =>
        \A r \in rows[m] : r.revision \in RebuiltRevisions(m)

(* A human-authored Memory never becomes agent derived: an agent's write    *)
(* that checked the authority of an earlier revision cannot land after the  *)
(* owner's revision did.                                                    *)
HumanAuthorityKept ==
    [][\A m \in Memories :
         catalog[m] # None /\ catalog[m].author = "human"
           => catalog'[m] # None /\ catalog'[m].author = "human"]_vars

(* A purged Memory stays a tombstone in the catalog whatever writes were in *)
(* flight when it was purged.                                               *)
TombstoneFinal ==
    [][\A m \in Memories :
         catalog[m] # None /\ catalog[m].lifecycle = "tombstone"
           => catalog'[m].lifecycle = "tombstone"]_vars

(* The state of the Vault is sound: within the admission limit, without      *)
(* forks, and complete enough to rebuild the database from it.               *)
VaultSafe == ActiveWithinLimit /\ OneSuccessor /\ RebuildKeepsRevisions

(* No step takes from the owner what he wrote or brings back what was purged. *)
AuthorityKept == HumanAuthorityKept /\ TombstoneFinal
=============================================================================
