-------------------------- MODULE MCOrderPipeline --------------------------
(* OrderPipeline on a small instance, for the liveness properties.         *)
EXTENDS OrderPipeline
=============================================================================
