--------------------------- MODULE MCWorkQueue ---------------------------
(* Small instances of WorkQueue. *)
EXTENDS WorkQueue, TLC

CONSTANTS d1, h1, w1, w2

OneItem == {d1}
OneHead == {h1}
OneWorker == {w1}
TwoWorkers == {w1, w2}
WorkerSymmetry == Permutations(TwoWorkers)
=============================================================================
