--------------------------- MODULE MCAttemptStore ---------------------------
(***************************************************************************)
(* The attempt store for TLC: a few tasks and concurrent claims, callers   *)
(* that may use any attempt number at any time.                            *)
(***************************************************************************)
EXTENDS AttemptStore, TLC

Symmetry == Permutations(Claimers) \cup Permutations(Tasks)
=============================================================================
