--------------------------- MODULE MCAlertHistory ---------------------------
(* A short history, and more deliveries than it holds. *)
EXTENDS AlertHistory, TLC

Symmetry == Permutations(Notifications)
=============================================================================
