---------------------------- MODULE MCCorrelation ----------------------------
(* Correlation with a few interchangeable requests. *)
EXTENDS Correlation, TLC

Symmetry == Permutations(Requests)
=============================================================================
