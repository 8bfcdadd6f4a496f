----------------------------- MODULE MCHttpEdge -----------------------------
(* HttpEdge with a few interchangeable requests. *)
EXTENDS HttpEdge, TLC

Symmetry == Permutations(Requests)
=============================================================================
