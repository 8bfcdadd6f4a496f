----------------------------- MODULE OrderQueue -----------------------------
(***************************************************************************)
(* The durable RabbitMQ queue order.created and the connection bytes on    *)
(* the way to it, as order-service (queue.js) and the worker use them.     *)
(* Messages are persistent and the queue is durable, so what the broker    *)
(* has received survives its restart.  Publishes are not confirmed: bytes  *)
(* that sendToQueue has buffered are lost with the connection.             *)
(* A message is the JSON of one order and is published at most once, so it *)
(* is in one place at a time.  The queue's order is not modelled: no       *)
(* handler and no property depends on which ready message comes first.     *)
(***************************************************************************)
EXTENDS OrderStore, Environment

CONSTANT
    Prefetch    \* channel.prefetch(PREFETCH); 0 means no limit, as in AMQP

ASSUME PrefetchAssumption == Prefetch \in Nat

VARIABLES
    broker,     \* whether the broker accepts and keeps connections
    message     \* message[o]: where the message about order o is

queueVars == <<broker, message>>

Places == {"unsent", "wire", "ready", "unacked", "settled", "dropped", "lost"}

QueueInit ==
    /\ broker \in {"up", "down"}
    /\ message = [o \in Orders |-> "unsent"]

InPlace(p) == {o \in Orders : message[o] = p}

(* What a place becomes when the publisher's connection breaks ... *)
LoseWire(p) == IF p = "wire" THEN "lost" ELSE p

(* ... and when the consumer's does: the broker requeues what it delivered. *)
Requeue(p) == IF p = "unacked" THEN "ready" ELSE p

(* The broker reads a publish off the wire and stores it. *)
BrokerReceives(o) ==
    /\ message[o] = "wire"
    /\ message' = [message EXCEPT ![o] = "ready"]
    /\ UNCHANGED <<broker, row, faults>>

MayDeliver_OneTooMany(o) ==
    /\ message[o] = "ready"
    /\ Prefetch = 0 \/ Cardinality(InPlace("unacked")) <= Prefetch

(* basic.deliver: only while fewer than Prefetch messages are unacknowledged *)
MayDeliver(o) ==
    /\ message[o] = "ready"
    /\ Prefetch = 0 \/ Cardinality(InPlace("unacked")) < Prefetch

(* Maintenance: the broker closes every connection with CONNECTION_FORCED  *)
(* and goes away; what it had received stays on disk.                      *)
BrokerStops ==
    /\ broker = "up"
    /\ Fault("broker")
    /\ broker' = "down"
    /\ message' = [o \in Orders |-> Requeue(LoseWire(message[o]))]
    /\ UNCHANGED row

BrokerStarts ==
    /\ broker = "down"
    /\ broker' = "up"
    /\ UNCHANGED <<message, row, faults>>
=============================================================================
