---------------------------- MODULE MCLunaQueue ----------------------------
(* LunaQueue on small instances, for TLC. *)
EXTENDS LunaQueue, TLC

CONSTANTS w1, w2

OneWorker == {w1}
TwoWorkers == {w1, w2}

WorkerSymmetry == Permutations(Worker)

=============================================================================
