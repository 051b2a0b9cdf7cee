--------------------------------- MODULE MCIntake ---------------------------------
(***************************************************************************)
(* What enters the store, and what makes room in it, on small instances:   *)
(* captured events, candidates, the spaces and the corpus they fill. The   *)
(* components share no state that the modules keep, so a behaviour of the  *)
(* run is one of a single component, chosen at the start, and the state    *)
(* space is the sum of theirs and not their product.                       *)
(***************************************************************************)
EXTENDS CaptureInbox, CaptureOutbox, CandidateMaintenance, Capacity, TLC

VARIABLE part    \* the component whose behaviour this is

allVars == <<part, inboxVars, outboxVars, candidateVars, maintenanceVars,
             corpusVars, workingSetVars>>

Components == {"inbox", "outbox", "candidates", "maintenance", "corpus", "workingset"}

\* Of the others one initial state each is enough.
AllInit ==
    /\ part \in Components
    /\ InboxInit
    /\ OutboxInit
    /\ CandidatesInit
    /\ MaintenanceInit
    /\ CorpusInit
    /\ WorkingSetInit
    /\ part # "inbox" => \A h \in Hooks : hook[h].file = CHOOSE f \in Files : TRUE
    /\ part # "outbox" => \A p \in Claimers : claim[p].event = CHOOSE e \in Captured : TRUE
    /\ part # "corpus" => ~pressure /\ \A m \in Corpus : ~corpus[m].active

Of(c) == part = c /\ UNCHANGED part

AllNext ==
    \/ /\ Of("inbox") /\ InboxNext
       /\ UNCHANGED <<outboxVars, candidateVars, maintenanceVars, corpusVars,
                      workingSetVars>>
    \/ /\ Of("outbox") /\ OutboxNext
       /\ UNCHANGED <<inboxVars, candidateVars, maintenanceVars, corpusVars,
                      workingSetVars>>
    \/ /\ Of("candidates") /\ CandidatesNext
       /\ UNCHANGED <<inboxVars, outboxVars, maintenanceVars, corpusVars,
                      workingSetVars>>
    \/ /\ Of("maintenance") /\ MaintenanceNext
       /\ UNCHANGED <<inboxVars, outboxVars, candidateVars, corpusVars,
                      workingSetVars>>
    \/ /\ Of("corpus") /\ CorpusNext
       /\ UNCHANGED <<inboxVars, outboxVars, candidateVars, maintenanceVars,
                      workingSetVars>>
    \/ /\ Of("workingset") /\ WorkingSetNext
       /\ UNCHANGED <<inboxVars, outboxVars, candidateVars, maintenanceVars,
                      corpusVars>>

AllSpec == AllInit /\ [][AllNext]_allVars

-----------------------------------------------------------------------------
(* The rows, files and process states of every component are well formed.     *)
IntakeTypeOK ==
    /\ part \in Components
    /\ part = "inbox" => InboxTypeOK
    /\ part = "outbox" => OutboxTypeOK
    /\ part = "candidates" => CandidatesTypeOK
    /\ part = "maintenance" => MaintenanceTypeOK
    /\ part = "corpus" => CorpusTypeOK
    /\ part = "workingset" => WorkingSetTypeOK
=============================================================================
