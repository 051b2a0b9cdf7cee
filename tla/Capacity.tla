--------------------------------- MODULE Capacity ---------------------------------
(***************************************************************************)
(* Both ways to make room (src/src/capacity): the corpus archives memories   *)
(* one by one, a space leaves some out of its ranking.  They share no state.  *)
(***************************************************************************)
EXTENDS CorpusRetention, WorkingSet

\* Room is made only at the cost of what may be left out: retention archives
\* unprotected excess (corpus-retention.ts), the ranking keeps what is protected and a
\* rebalance does not sink it below low water (capacity/index.ts).
CapacityKept == ArchivesOnlyExcess /\ LowWaterHeld /\ []ProtectedIsRanked
=============================================================================
