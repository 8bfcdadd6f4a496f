--------------------------- MODULE OrderLifecycle ---------------------------
(***************************************************************************)
(* What PulseOps promises the client of POST /orders, with no broker, no   *)
(* worker and no process in sight.  A request is told one outcome, once;   *)
(* an order whose client was not told "accepted" is never processed, so a  *)
(* client that was told "failed" may send the request again without its    *)
(* order being processed twice.  A failed request may leave a pending row  *)
(* behind.                                                                 *)
(***************************************************************************)
CONSTANT
    Requests    \* the POST /orders requests

VARIABLES
    told,       \* told[r]: what the client of r knows
    order       \* order[r]: the row r inserted

lifecycleVars == <<told, order>>

Outcomes == {"nothing", "accepted", "refused", "failed"}

LifecycleInit ==
    /\ told = [r \in Requests |-> "nothing"]
    /\ order = [r \in Requests |-> "absent"]

Record(r) ==
    /\ told[r] = "nothing" /\ order[r] = "absent"
    /\ order' = [order EXCEPT ![r] = "pending"]
    /\ UNCHANGED told

Accept(r) ==
    /\ told[r] = "nothing" /\ order[r] = "pending"
    /\ told' = [told EXCEPT ![r] = "accepted"]
    /\ UNCHANGED order

Refuse(r) ==
    /\ told[r] = "nothing" /\ order[r] = "absent"
    /\ told' = [told EXCEPT ![r] = "refused"]
    /\ UNCHANGED order

(* One fault may fail every request in flight. *)
Fail(failing) ==
    /\ \A r \in failing : told[r] = "nothing"
    /\ told' = [r \in Requests |-> IF r \in failing THEN "failed" ELSE told[r]]
    /\ UNCHANGED order

Complete(r) ==
    /\ told[r] = "accepted" /\ order[r] = "pending"
    /\ order' = [order EXCEPT ![r] = "completed"]
    /\ UNCHANGED told

LifecycleNext ==
    \/ \E r \in Requests : Record(r) \/ Accept(r) \/ Refuse(r) \/ Complete(r)
    \/ \E failing \in SUBSET Requests : Fail(failing)

LifecycleSpec == LifecycleInit /\ [][LifecycleNext]_lifecycleVars
=============================================================================
