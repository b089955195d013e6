------------------------ MODULE MCReconAlertOutbox ------------------------
(* Small instances of ReconAlertOutbox. *)
EXTENDS ReconAlertOutbox, TLC

CONSTANTS a1, w1, w2, o1

OneAlert == {a1}
TwoWorkers == {w1, w2}
\* The first entries of _BACKOFF_MINUTES grow, as here.
Backoff2 == 1 :> 1 @@ 2 :> 2
=============================================================================
