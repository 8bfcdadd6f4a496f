----------------------------- MODULE OrderStore -----------------------------
(***************************************************************************)
(* The orders table (db/init.sql), as POST /orders and the worker use it.  *)
(* An order is identified with the POST that would create it: each POST    *)
(* inserts at most one row, and a client that retries sends another POST.  *)
(*                                                                         *)
(* The statement is separate from its result: a query that the caller saw  *)
(* fail may have been committed before, so each statement commits in a     *)
(* step of its own and the caller learns of it, or not, in a later one.    *)
(***************************************************************************)
EXTENDS FiniteSets

CONSTANT
    Orders      \* the POST /orders requests, and the rows they may insert

ASSUME OrdersAssumption == IsFiniteSet(Orders)

VARIABLE
    row         \* row[o]: the row's status column, or "absent"

RowStatus == {"absent", "pending", "completed"}

StoreInit == row = [o \in Orders |-> "absent"]

(* INSERT INTO orders ... 'pending' *)
InsertCommits(o) ==
    /\ row[o] = "absent"
    /\ row' = [row EXCEPT ![o] = "pending"]

(* UPDATE orders SET status = 'completed' WHERE id = o; no row, no effect *)
UpdateCommits(o) ==
    row' = [row EXCEPT ![o] = IF @ = "absent" THEN @ ELSE "completed"]
=============================================================================
