------------------------------- MODULE HumanKnowledge -------------------------------
(***************************************************************************)
(* What the owner asserts (candidates/human.ts, operations/remember.ts):     *)
(* an assertion, an imported document or a resolved conflict becomes a Memory *)
(* in several writes, each its own transaction or file: the operation row,    *)
(* the archived predecessor, the successor, the completed row, the settled    *)
(* conflict. A Worker asks the model to assess an open conflict. Identifiers  *)
(* are numbers taken in order, texts numbers in the order they are written in; *)
(* a Memory is the record its file holds, so an equal record is an equal       *)
(* content identity.                                                         *)
(***************************************************************************)
EXTENDS Integers, FiniteSets

CONSTANTS
    Humans,          \* commands the owner runs, two when the owner runs two at once
    LastKnowledge,   \* bound on the memories
    MaxText,         \* bound on the texts ever written
    MaxCalls,        \* bound on the model calls for the assessment
    HumansOverlap    \* may a command start while another one runs

ASSUME HumanAssumption ==
    LastKnowledge \in Nat /\ MaxText \in Nat /\ MaxCalls \in Nat /\ HumansOverlap \in BOOLEAN

VARIABLES
    owned,    \* Memories the owner wrote, by identifier
    assertions,   \* human_memory_operations, by the identifier proposed
    conflict,     \* human_memory_conflicts: one, its state and the memories it names
    assessment,   \* its Luna operation, the stored assessment, and the model calls
    human,        \* what each command is doing
    overtaken     \* history: commands whose file changed between comparison and rename

humanVars == <<owned, assertions, conflict, assessment, human, overtaken>>

Identifiers == 1..LastKnowledge
NoIdentifier == 0
Unwritten == [state |-> "absent", text |-> 0, document |-> FALSE, resolves |-> FALSE,
              predecessor |-> NoIdentifier, successor |-> NoIdentifier]
AtRest == [pc |-> "idle", id |-> NoIdentifier, text |-> 0, document |-> FALSE,
           resolves |-> FALSE, replaces |-> NoIdentifier, read |-> Unwritten]
KnowledgeRecord ==
    [state: {"absent", "active", "archived"}, text: 0..MaxText, document: BOOLEAN,
     resolves: BOOLEAN, predecessor: Identifiers \cup {NoIdentifier},
     successor: Identifiers \cup {NoIdentifier}]

HumanTypeOK ==
    /\ owned \in [Identifiers -> KnowledgeRecord]
    /\ assertions \in [Identifiers -> {"absent", "pending", "conflict", "completed"}]
    /\ conflict \in [state: {"none", "open", "kept_existing", "adopted_new", "distinguished"},
                     about: SUBSET Identifiers]
    /\ assessment \in [state: {"none", "queued", "claimed", "asked", "completed"},
                       stored: BOOLEAN, calls: 0..MaxCalls, late: BOOLEAN]
    /\ human \in [Humans ->
         [pc: {"idle", "started", "archive", "archiving", "write", "complete", "settle",
               "revise", "revising", "keep", "raised"},
          id: Identifiers \cup {NoIdentifier}, text: 0..MaxText, document: BOOLEAN,
          resolves: BOOLEAN, replaces: Identifiers \cup {NoIdentifier},
          read: KnowledgeRecord]]
    /\ overtaken \subseteq Humans

HumanInit ==
    /\ owned = [i \in Identifiers |-> Unwritten]
    /\ assertions = [i \in Identifiers |-> "absent"]
    /\ conflict = [state |-> "none", about |-> {}]
    /\ assessment = [state |-> "none", stored |-> FALSE, calls |-> 0, late |-> FALSE]
    /\ human = [h \in Humans |-> AtRest]
    /\ overtaken = {}

Present == {i \in Identifiers : owned[i].state # "absent"}
Asserted == {i \in Identifiers : assertions[i] # "absent"}
Texts == {owned[i].text : i \in Identifiers} \cup {human[h].text : h \in Humans}
NewText == CHOOSE t \in 1..(MaxText + 1) : t \notin Texts /\ \A u \in Texts : u < t
CanStart(h) == human[h].pc = "idle" /\ (HumansOverlap \/ \A g \in Humans : human[g].pc = "idle")
Moves(h, command) == human' = [human EXCEPT ![h] = command]

\* The commands that have compared the file of Memory i and not yet renamed theirs.
Renaming(i) == {h \in Humans : human[h].pc \in {"archiving", "revising"} /\ human[h].replaces = i}

-----------------------------------------------------------------------------
(* Assertions                                                               *)

\* assertHumanKnowledge: the pending operation row and the identifiers.
Begins(h, command) ==
    LET id == Cardinality(Asserted) + 1 IN
    /\ id \in Identifiers /\ NewText \in 1..MaxText
    /\ assertions' = [assertions EXCEPT ![id] = "pending"]
    /\ Moves(h, [command EXCEPT !.pc = "started", !.id = id, !.text = NewText])
    /\ UNCHANGED overtaken

AssertKnowledge(h) ==
    /\ CanStart(h)
    /\ Begins(h, AtRest)
    /\ UNCHANGED <<owned, conflict, assessment>>

\* With the memories it may contradict named, the assertion becomes a conflict ...
RaiseConflict(h) ==
    /\ human[h].pc = "started" /\ ~human[h].resolves /\ ~human[h].document
    /\ conflict.state = "none" /\ Present # {}
    /\ \E about \in (SUBSET Present) \ {{}} :
         conflict' = [state |-> "open", about |-> about]
    /\ Moves(h, [human[h] EXCEPT !.pc = "raised"])
    /\ UNCHANGED <<owned, assertions, assessment, overtaken>>

\* ... and the operation follows in a second statement.
RecordConflict(h) ==
    /\ human[h].pc = "raised"
    /\ assertions' = [assertions EXCEPT ![human[h].id] = "conflict"]
    /\ Moves(h, AtRest)
    /\ UNCHANGED <<owned, conflict, assessment, overtaken>>

ReadPredecessor(h) ==
    /\ human[h].pc = "started"
    /\ LET replaced == human[h].replaces IN
       Moves(h, IF replaced = NoIdentifier THEN [human[h] EXCEPT !.pc = "write"]
                ELSE [human[h] EXCEPT !.pc = "archive", !.read = owned[replaced]])
    /\ UNCHANGED <<owned, assertions, conflict, assessment, overtaken>>

\* Faulty variant: the content is not compared.
SameContentIgnored(h, i) == i = human[h].replaces

\* writeCanonicalMemory commits against the content it was prepared from ...
SameContent(h, i) == owned[i] = human[h].read

CompareContent(h) ==
    /\ human[h].pc \in {"archive", "revise"} /\ SameContent(h, human[h].replaces)
    /\ Moves(h, [human[h] EXCEPT !.pc = IF @ = "archive" THEN "archiving" ELSE "revising"])
    /\ UNCHANGED <<owned, assertions, conflict, assessment, overtaken>>

\* ... and fails the command otherwise: its operation row stays pending, the conflict open.
RefuseWrite(h) ==
    /\ human[h].pc \in {"archive", "revise"} /\ ~SameContent(h, human[h].replaces)
    /\ Moves(h, AtRest)
    /\ UNCHANGED <<owned, assertions, conflict, assessment, overtaken>>

\* The rename puts the new file in place of whatever is there by then.
Renames(h, record) ==
    /\ owned' = [owned EXCEPT ![human[h].replaces] = record]
    /\ overtaken' = (overtaken \cup Renaming(human[h].replaces)) \ {h}

ArchivePredecessor(h) ==
    /\ human[h].pc = "archiving"
    /\ Renames(h, [human[h].read EXCEPT !.state = "archived", !.successor = human[h].id])
    /\ Moves(h, [human[h] EXCEPT !.pc = "write"])
    /\ UNCHANGED <<assertions, conflict, assessment>>

WriteSuccessor(h) ==
    /\ human[h].pc = "write"
    /\ owned' = [owned EXCEPT ![human[h].id] =
           [Unwritten EXCEPT !.state = "active", !.text = human[h].text,
                             !.document = human[h].document, !.resolves = human[h].resolves,
                             !.predecessor = human[h].replaces]]
    /\ Moves(h, [human[h] EXCEPT !.pc = "complete"])
    /\ UNCHANGED <<assertions, conflict, assessment, overtaken>>

CompleteAssertion(h) ==
    /\ human[h].pc = "complete"
    /\ assertions' = [assertions EXCEPT ![human[h].id] = "completed"]
    /\ Moves(h, IF human[h].resolves THEN [human[h] EXCEPT !.pc = "settle"] ELSE AtRest)
    /\ UNCHANGED <<owned, conflict, assessment, overtaken>>

-----------------------------------------------------------------------------
(* Conflicts                                                                *)

\* resolveHumanConflict: adopt_new replaces a Memory the conflict names, distinguish
\* replaces none.
Resolve(h) ==
    /\ CanStart(h) /\ conflict.state = "open"
    /\ \E replaced \in conflict.about \cup {NoIdentifier} :
         Begins(h, [AtRest EXCEPT !.resolves = TRUE, !.replaces = replaced])
    /\ UNCHANGED <<owned, conflict, assessment>>

SettleConflict(h) ==
    /\ human[h].pc = "settle"
    /\ conflict' = IF conflict.state = "open"
                   THEN [conflict EXCEPT !.state = IF human[h].replaces = NoIdentifier
                                                   THEN "distinguished" ELSE "adopted_new"]
                   ELSE conflict
    /\ Moves(h, AtRest)
    /\ UNCHANGED <<owned, assertions, assessment, overtaken>>

\* keep_existing reads the conflict open, and then writes whatever it has become.
BeginKeep(h) ==
    /\ CanStart(h) /\ conflict.state = "open"
    /\ Moves(h, [AtRest EXCEPT !.pc = "keep"])
    /\ UNCHANGED <<owned, assertions, conflict, assessment, overtaken>>

KeepExisting(h) ==
    /\ human[h].pc = "keep"
    /\ conflict' = [conflict EXCEPT !.state = "kept_existing"]
    /\ Moves(h, AtRest)
    /\ UNCHANGED <<owned, assertions, assessment, overtaken>>

-----------------------------------------------------------------------------
(* Documents                                                                *)

\* rememberDocument: the first active document of the source that the scan reads.
ImportDocument(h) ==
    /\ CanStart(h)
    /\ LET found == {i \in Present : owned[i].document /\ owned[i].state = "active"} IN
       \/ /\ found = {}
          /\ Begins(h, [AtRest EXCEPT !.document = TRUE])
       \/ /\ NewText \in 1..MaxText
          /\ \E i \in found :
               Moves(h, [AtRest EXCEPT !.pc = "revise", !.text = NewText, !.document = TRUE,
                                       !.replaces = i, !.read = owned[i]])
          /\ UNCHANGED <<assertions, overtaken>>
    /\ UNCHANGED <<owned, conflict, assessment>>

ReviseDocument(h) ==
    /\ human[h].pc = "revising"
    /\ Renames(h, [human[h].read EXCEPT !.text = human[h].text])
    /\ Moves(h, AtRest)
    /\ UNCHANGED <<assertions, conflict, assessment>>

-----------------------------------------------------------------------------
(* The assessment of the conflict, run by the Worker                         *)

AssessmentStep(row) ==
    /\ assessment' = row
    /\ UNCHANGED <<owned, assertions, conflict, human, overtaken>>

QueueAssessment ==
    /\ conflict.state # "none" /\ assessment.state = "none"
    /\ AssessmentStep([assessment EXCEPT !.state = "queued"])

ClaimAssessment ==
    /\ assessment.state = "queued"
    /\ AssessmentStep([assessment EXCEPT !.state = "claimed"])

\* readPersistedConflictAssessment: without a stored result the model is called, and what
\* was read is not looked at again.
AskAssessment ==
    /\ assessment.state = "claimed" /\ ~assessment.stored /\ assessment.calls < MaxCalls
    /\ AssessmentStep([assessment EXCEPT !.state = "asked", !.calls = assessment.calls + 1])

\* The answer is inserted; a row that is there already refuses it.
StoreAssessment ==
    /\ assessment.state = "asked" /\ ~assessment.stored
    /\ AssessmentStep([assessment EXCEPT !.state = "claimed", !.stored = TRUE])

CompleteAssessment ==
    /\ assessment.state = "claimed" /\ assessment.stored
    /\ AssessmentStep([assessment EXCEPT !.state = "completed"])

\* The Worker died, the call or the INSERT failed, or the lease ran out, perhaps with
\* the call still unanswered.
ReleaseAssessment ==
    /\ assessment.state \in {"claimed", "asked"}
    /\ \E late \in {assessment.late, assessment.state = "asked"} :
         AssessmentStep([assessment EXCEPT !.state = "queued", !.late = late])

\* A Worker without a lease inserts its answer, if it can, and completes nothing.
LateAnswer ==
    /\ assessment.late
    /\ \E stored \in {assessment.stored, TRUE} :
         AssessmentStep([assessment EXCEPT !.late = FALSE, !.stored = stored])

-----------------------------------------------------------------------------
(* The owner's other commands, and commands that die                         *)

EditKnowledge(i) ==
    /\ owned[i].state = "active" /\ NewText \in 1..MaxText
    /\ owned' = [owned EXCEPT ![i].text = NewText]
    /\ overtaken' = overtaken \cup Renaming(i)
    /\ UNCHANGED <<assertions, conflict, assessment, human>>

\* applyMemoryLifecycleChange, as one step: its write is CanonicalVault's.
ChangeKnowledge(i) ==
    /\ owned[i].state # "absent" /\ \E h \in Humans : CanStart(h)
    /\ owned' = [owned EXCEPT ![i].state =
                         IF @ = "active" THEN "archived" ELSE "active"]
    /\ overtaken' = overtaken \cup Renaming(i)
    /\ UNCHANGED <<assertions, conflict, assessment, human>>

CommandDies(h) ==
    /\ human[h].pc # "idle"
    /\ Moves(h, AtRest)
    /\ overtaken' = overtaken \ {h}
    /\ UNCHANGED <<owned, assertions, conflict, assessment>>

HumanNext ==
    \/ \E h \in Humans :
         \/ AssertKnowledge(h) \/ RaiseConflict(h) \/ RecordConflict(h) \/ ReadPredecessor(h)
         \/ CompareContent(h) \/ RefuseWrite(h) \/ ArchivePredecessor(h) \/ WriteSuccessor(h)
         \/ CompleteAssertion(h) \/ Resolve(h) \/ SettleConflict(h) \/ BeginKeep(h)
         \/ KeepExisting(h) \/ ImportDocument(h) \/ ReviseDocument(h) \/ CommandDies(h)
    \/ QueueAssessment \/ ClaimAssessment \/ AskAssessment \/ StoreAssessment
    \/ CompleteAssessment \/ ReleaseAssessment \/ LateAnswer
    \/ \E i \in Identifiers : EditKnowledge(i) \/ ChangeKnowledge(i)

HumanSpec == HumanInit /\ [][HumanNext]_humanVars

-----------------------------------------------------------------------------
\* A conflict that says the new assertion was adopted names a Memory that was
\* written from it and replaced one of the memories it names, and whose operation is
\* completed; one that says distinguished names a Memory written beside them. Any
\* step of the resolution may have died or failed before (human.ts, 394-511).
SettledIsWritten ==
    /\ conflict.state = "adopted_new" =>
         \E i \in Present : owned[i].resolves /\ owned[i].predecessor \in conflict.about
                            /\ assertions[i] = "completed"
    /\ conflict.state = "distinguished" =>
         \E i \in Present : owned[i].resolves /\ owned[i].predecessor = NoIdentifier
                            /\ assertions[i] = "completed"

\* What the owner writes in the editor while a replacement or an import is running is
\* overwritten by the older text it had read only by the rename of a command that had
\* compared the file before the owner wrote it; a successor never appears while the Memory
\* it replaces is active; and once an assessment is stored nobody asks for it again,
\* whereas one whose Worker was lost before the INSERT is asked for again (human.ts,
\* 257-330; atomic-file.ts, 26-36; human-conflicts.ts, 131-172).
OwnerWritesKept ==
    [][/\ \A i \in Identifiers :
            \/ owned[i].text <= owned'[i].text
            \/ \E h \in overtaken : human[h].replaces = i /\ human'[h] # human[h]
       /\ \A i \in Identifiers :
            owned[i].state = "absent" /\ owned'[i].state = "active"
              => owned'[i].predecessor = NoIdentifier
                 \/ owned[owned'[i].predecessor].state = "archived"
       /\ assessment.stored => assessment'.calls = assessment.calls]_humanVars

\* What ADR 0017 asks of a resolution: a conflict closed with the existing memory kept
\* has written no successor. A resolution that died after writing its Memory
\* leaves the conflict open, and the owner may then keep the existing one.
KeptIsUntouched ==
    conflict.state = "kept_existing" => \A i \in Present : ~owned[i].resolves

\* A settled conflict has what it says, and no command takes from a text of the owner's that
\* was there when it compared the file.
HumanKept == []SettledIsWritten /\ OwnerWritesKept
=============================================================================
