---------------------------- MODULE MCQueueMetrics ----------------------------
(* QueueMetrics on a small instance.  Requests are interchangeable: no     *)
(* action tells one from another, so the runs without liveness may use     *)
(* their permutations as a symmetry.                                       *)
EXTENDS QueueMetrics, TLC

Symmetry == Permutations(Orders)
=============================================================================
