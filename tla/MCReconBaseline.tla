-------------------------- MODULE MCReconBaseline --------------------------
(* Small instances of ReconBaseline. *)
EXTENDS ReconBaseline, TLC

CONSTANTS a, b, x, d1

TwoVersions == {a, b}
ThreeVersions == {a, b, x}
=============================================================================
