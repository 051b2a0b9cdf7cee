--------------------------------- MODULE MCServing ---------------------------------
(***************************************************************************)
(* What reaches an agent and the owner, on small instances: the search index,*)
(* the delivery of packs, reminders, and the installation in Codex. The      *)
(* components share no state that the modules keep, so a behaviour of the  *)
(* run is one of a single component, chosen at the start, and the state    *)
(* space is the sum of theirs and not their product.                       *)
(***************************************************************************)
EXTENDS IndexPublication, ForegroundRetrieval, Reminders, ManagedIntegration, TLC

VARIABLE part    \* the component whose behaviour this is

allVars == <<part, indexVars, foregroundVars, remindVars, integrationVars>>

Components == {"index", "foreground", "reminders", "integration"}

\* Of the others one initial state each is enough.
AllInit ==
    /\ part \in Components
    /\ IndexInit
    /\ ForegroundInit
    /\ RemindersInit
    /\ IntegrationInit
    /\ part # "integration" => files["config"].native /\ files["hooks"] = Absent

Of(c) == part = c /\ UNCHANGED part

AllNext ==
    \/ /\ Of("index") /\ IndexNext
       /\ UNCHANGED <<foregroundVars, remindVars, integrationVars>>
    \/ /\ Of("foreground") /\ ForegroundNext
       /\ UNCHANGED <<indexVars, remindVars, integrationVars>>
    \/ /\ Of("reminders") /\ RemindersNext
       /\ UNCHANGED <<indexVars, foregroundVars, integrationVars>>
    \/ /\ Of("integration") /\ IntegrationNext
       /\ UNCHANGED <<indexVars, foregroundVars, remindVars>>

AllSpec == AllInit /\ [][AllNext]_allVars

-----------------------------------------------------------------------------
(* The rows, files and process states of every component are well formed.     *)
ServingTypeOK ==
    /\ part \in Components
    /\ part = "index" => IndexTypeOK
    /\ part = "foreground" => ForegroundTypeOK
    /\ part = "reminders" => RemindersTypeOK
    /\ part = "integration" => IntegrationTypeOK
=============================================================================
