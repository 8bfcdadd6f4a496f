--------------------------- MODULE MCUserAccounts ---------------------------
(* UserAccounts with more requests than connections.                       *)
EXTENDS UserAccounts, TLC
=============================================================================
