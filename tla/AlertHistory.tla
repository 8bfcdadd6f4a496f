---------------------------- MODULE AlertHistory ----------------------------
(***************************************************************************)
(* alert-receiver (services/alert-receiver/src/index.js): the webhook that *)
(* Alertmanager delivers to, and the history that GET /alerts returns.     *)
(* The handler runs without an await, so a delivery is one action; the     *)
(* history is kept in memory, newest first and cut to MAX_HISTORY.         *)
(*                                                                         *)
(* Alertmanager delivers a notification until it is answered 2xx: one that *)
(* was stored but whose answer was lost is delivered, and stored, again.   *)
(***************************************************************************)
EXTENDS Naturals, Sequences

CONSTANTS
    Notifications,  \* what Alertmanager has to deliver
    MaxHistory,     \* MAX_HISTORY, 200 in the code
    MaxDeliveries,  \* bound on the deliveries of a behaviour
    MaxRestarts     \* bound on the receiver's restarts

ASSUME HistoryAssumption ==
    MaxHistory \in Nat \ {0} /\ MaxDeliveries \in Nat /\ MaxRestarts \in Nat

VARIABLES
    history,        \* index.js's array `history`
    deliveries,     \* the notifications stored since the process started
    delivery,       \* delivery[n]: how far the delivery of n has come
    delivered,      \* how many deliveries there were in all
    restarts        \* how many times the receiver was restarted

historyVars == <<history, deliveries, delivery, delivered, restarts>>

Deliveries == {"due", "posted", "stored", "answered"}

HistoryInit ==
    /\ history = <<>>
    /\ deliveries = <<>>
    /\ delivery = [n \in Notifications |-> "due"]
    /\ delivered = 0
    /\ restarts = 0

(* Alertmanager posts a notification that is due. *)
Posts(n) ==
    /\ delivery[n] = "due" /\ delivered < MaxDeliveries
    /\ delivery' = [delivery EXCEPT ![n] = "posted"]
    /\ delivered' = delivered + 1
    /\ UNCHANGED <<history, deliveries, restarts>>

(* history.unshift(record) *)
Unshift(record, seq) == <<record>> \o seq

Truncated_OneTooMany(seq) ==
    IF Len(seq) > MaxHistory + 1 THEN SubSeq(seq, 1, MaxHistory + 1) ELSE seq

Truncated_Oldest(seq) ==
    IF Len(seq) > MaxHistory THEN Tail(seq) ELSE seq

(* history.length = Math.min(history.length, MAX_HISTORY) *)
Truncated(seq) ==
    IF Len(seq) > MaxHistory THEN SubSeq(seq, 1, MaxHistory) ELSE seq

(* POST /webhook: the record is stored, the 200 is on the way. *)
Webhook(n) ==
    /\ delivery[n] = "posted"
    /\ history' = Truncated(Unshift(n, history))
    /\ deliveries' = Append(deliveries, n)
    /\ delivery' = [delivery EXCEPT ![n] = "stored"]
    /\ UNCHANGED <<delivered, restarts>>

(* Alertmanager reads the 200. *)
Answered(n) ==
    /\ delivery[n] = "stored"
    /\ delivery' = [delivery EXCEPT ![n] = "answered"]
    /\ UNCHANGED <<history, deliveries, delivered, restarts>>

(* The request or its answer is lost: the notification is due again. *)
DeliveryFails(n) ==
    /\ delivery[n] \in {"posted", "stored"}
    /\ delivery' = [delivery EXCEPT ![n] = "due"]
    /\ UNCHANGED <<history, deliveries, delivered, restarts>>

(* The container restarts: the history is gone, and so are the requests    *)
(* that had not been handled.                                              *)
Restart ==
    /\ restarts < MaxRestarts
    /\ restarts' = restarts + 1
    /\ history' = <<>>
    /\ deliveries' = <<>>
    /\ delivery' = [n \in Notifications |->
                      IF delivery[n] = "posted" THEN "due" ELSE delivery[n]]
    /\ UNCHANGED delivered

HistoryNext ==
    \/ \E n \in Notifications : Posts(n) \/ Webhook(n) \/ Answered(n) \/ DeliveryFails(n)
    \/ Restart

HistorySpec == HistoryInit /\ [][HistoryNext]_historyVars

-----------------------------------------------------------------------------
HistoryTypeOK ==
    /\ history \in Seq(Notifications) /\ Len(history) <= MaxHistory
    /\ deliveries \in Seq(Notifications)
    /\ delivery \in [Notifications -> Deliveries]
    /\ delivered \in 0..MaxDeliveries
    /\ restarts \in 0..MaxRestarts

(* GET /alerts returns the last MAX_HISTORY deliveries since the start, all *)
(* of them and no other, newest first.                                      *)
HistoryIsNewestFirst ==
    LET kept == IF Len(deliveries) < MaxHistory THEN Len(deliveries) ELSE MaxHistory
    IN  /\ Len(history) = kept
        /\ \A i \in 1..kept : history[i] = deliveries[Len(deliveries) + 1 - i]
=============================================================================
