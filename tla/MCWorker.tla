------------------------------ MODULE MCWorker ------------------------------
(* The worker alone with a full queue, more messages than it may hold.     *)
EXTENDS Worker, TLC

Symmetry == Permutations(Orders)
=============================================================================
