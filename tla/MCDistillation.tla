--------------------------- MODULE MCDistillation ---------------------------
(* Distillation on small instances, for TLC. *)
EXTENDS Distillation, TLC

CONSTANTS w1, w2

OneWorker == {w1}
TwoWorkers == {w1, w2}
OneTurn == {1}
TwoTurns == {1, 2}

WorkerSymmetry == Permutations(Worker)
=============================================================================
