----------------------- MODULE MCApplicationActivation -----------------------
(* Activations and processes are interchangeable.                           *)
EXTENDS ApplicationActivation, TLC

Symmetry == Permutations(Activations) \cup Permutations(Processes)
=============================================================================
