------------------------------ MODULE MCStore ------------------------------
(* Instances of Store for TLC. *)
EXTENDS Store, TLC

\* Blocks and background goroutines are interchangeable; callers are not.
Symmetry == Permutations(Blocks) \cup Permutations(Jobs)
=============================================================================
