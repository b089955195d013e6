----------------------------- MODULE MCRunLock -----------------------------
(* Small instances of RunLock. *)
EXTENDS RunLock, TLC

CONSTANTS p1, p2, p3, p4

FourProcesses == {p1, p2, p3, p4}
TwoMortals == {p1, p2}
=============================================================================
