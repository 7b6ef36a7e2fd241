------------------------- MODULE MCBackgroundWorker -------------------------
(***************************************************************************)
(* The background workers for TLC: processes are interchangeable.          *)
(***************************************************************************)
EXTENDS BackgroundWorker, TLC

Symmetry == Permutations(Claimers)
=============================================================================
