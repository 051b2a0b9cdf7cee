-------------------------------- MODULE MCMemories --------------------------------
(***************************************************************************)
(* The Memories themselves, on small instances: the Vault, what the owner  *)
(* writes, and the purge of archives. The                                  *)
(* components share no state that the modules keep, so a behaviour of the  *)
(* run is one of a single component, chosen at the start, and the state    *)
(* space is the sum of theirs and not their product.                       *)
(***************************************************************************)
EXTENDS CanonicalVault, ArchivePurge, HumanKnowledge, TLC

VARIABLE part    \* the component whose behaviour this is

allVars == <<part, vars, purgeVars, humanVars>>

Components == {"vault", "purge", "human"}

\* Of the others one initial state each is enough.
AllInit ==
    /\ part \in Components
    /\ Init
    /\ PurgeInit
    /\ HumanInit

Of(c) == part = c /\ UNCHANGED part

AllNext ==
    \/ /\ Of("vault") /\ Next
       /\ UNCHANGED <<purgeVars, humanVars>>
    \/ /\ Of("purge") /\ PurgeNext
       /\ UNCHANGED <<vars, humanVars>>
    \/ /\ Of("human") /\ HumanNext
       /\ UNCHANGED <<vars, purgeVars>>

AllSpec == AllInit /\ [][AllNext]_allVars

-----------------------------------------------------------------------------
(* The rows, files and process states of every component are well formed.     *)
MemoriesTypeOK ==
    /\ part \in Components
    /\ part = "vault" => TypeOK
    /\ part = "purge" => PurgeTypeOK
    /\ part = "human" => HumanTypeOK

(* Interchangeable elements; no property of the run is a liveness one.        *)
MemoriesSymmetry == Permutations(Memories) \cup Permutations(Writers)
=============================================================================
