--------------------------- MODULE MCOrderService ---------------------------
(* order-service alone with a broker: three requests and the warm-up are   *)
(* enough for two of them to race for `channel` while the third finds it.  *)
EXTENDS OrderService, TLC

Symmetry == Permutations(Orders)
=============================================================================
