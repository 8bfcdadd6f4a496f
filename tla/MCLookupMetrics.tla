--------------------------- MODULE MCLookupMetrics ---------------------------
(* LookupMetrics with several lookups of the same few users. *)
EXTENDS LookupMetrics
=============================================================================
