--------------------------------- MODULE MCUpkeep ---------------------------------
(***************************************************************************)
(* What the background Worker does to Memories by its model, on small      *)
(* instances: dreaming, governance, the health of the model, quality. The  *)
(* components share no state that the modules keep, so a behaviour of the  *)
(* run is one of a single component, chosen at the start, and the state    *)
(* space is the sum of theirs and not their product.                       *)
(***************************************************************************)
EXTENDS Dreaming, Governance, LunaHealth, Quality, TLC

VARIABLE part    \* the component whose behaviour this is

allVars == <<part, dreamVars, governanceVars, vars, qualityVars>>

Components == {"dreaming", "governance", "health", "quality"}

\* Of the others one initial state each is enough.
AllInit ==
    /\ part \in Components
    /\ DreamingInit
    /\ GovernanceInit
    /\ Init
    /\ QualityInit
    /\ part # "dreaming" => remembered[1].statement = CHOOSE k \in Known : TRUE
    /\ part # "quality" => ~memory.human

Of(c) == part = c /\ UNCHANGED part

AllNext ==
    \/ /\ Of("dreaming") /\ DreamingNext
       /\ UNCHANGED <<governanceVars, vars, qualityVars>>
    \/ /\ Of("governance") /\ GovernanceNext
       /\ UNCHANGED <<dreamVars, vars, qualityVars>>
    \/ /\ Of("health") /\ Next
       /\ UNCHANGED <<dreamVars, governanceVars, qualityVars>>
    \/ /\ Of("quality") /\ QualityNext
       /\ UNCHANGED <<dreamVars, governanceVars, vars>>

AllSpec == AllInit /\ [][AllNext]_allVars

-----------------------------------------------------------------------------
(* The rows, files and process states of every component are well formed.     *)
UpkeepTypeOK ==
    /\ part \in Components
    /\ part = "dreaming" => DreamingTypeOK
    /\ part = "governance" => GovernanceTypeOK
    /\ part = "health" => TypeOK
    /\ part = "quality" => QualityTypeOK
=============================================================================
