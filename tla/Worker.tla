------------------------------- MODULE Worker -------------------------------
(***************************************************************************)
(* The worker (worker/src/index.js): it connects with a bounded retry,     *)
(* consumes order.created with a prefetch, completes the row of each order *)
(* it is delivered and acknowledges the message, or nacks it without       *)
(* requeue.  When its connection closes the process exits, and a new one   *)
(* starts from nothing.                                                    *)
(***************************************************************************)
EXTENDS OrderQueue

CONSTANT
    MaxAttempts     \* connectWithRetry's attempts, 10 in the code

ASSUME AttemptsAssumption == MaxAttempts \in Nat \ {0}

VARIABLES
    worker,     \* what main() is at, "down" when there is no process
    attempt,    \* connectWithRetry's loop variable
    job         \* job[o]: what the consumer callback does with o's message

workerVars == <<worker, attempt, job>>

WorkerPhases == {"down", "connecting", "backoff", "setup", "consuming", "cancelled"}

(* The phases in which there is a connection. *)
Connection == {"setup", "consuming", "cancelled"}

(* "updated": the UPDATE is committed and its result is on the way;        *)
(* "acked", "nacked": the callback is over, the broker has yet to hear.    *)
JobPhases == {"none", "processing", "updated", "acked", "nacked"}

WorkerInit ==
    /\ worker = "down"
    /\ attempt = 1
    /\ job = [o \in Orders |-> "none"]

(* What setReady last said to the health endpoint. *)
Ready == worker \in {"consuming", "cancelled"}

(* worker_active_jobs: the callbacks between its inc and its dec. *)
ActiveJobs == {o \in Orders : job[o] \in {"processing", "updated"}}

-----------------------------------------------------------------------------
(* main() up to channel.consume.                                           *)

WorkerStarts ==
    /\ worker = "down"
    /\ worker' = "connecting"
    /\ attempt' = 1
    /\ UNCHANGED <<job, row, message, broker, faults>>

AttemptSucceeds_OnlyTheFirst ==
    /\ worker = "connecting" /\ broker = "up" /\ attempt = 1
    /\ worker' = "setup"
    /\ UNCHANGED <<attempt, job, row, message, broker, faults>>

AttemptSucceeds ==
    /\ worker = "connecting" /\ broker = "up"
    /\ worker' = "setup"
    /\ UNCHANGED <<attempt, job, row, message, broker, faults>>

AttemptFails_LoopEnds ==
    /\ worker = "connecting" /\ broker = "down"
    /\ worker' = IF attempt > MaxAttempts THEN "cancelled" ELSE "backoff"
    /\ UNCHANGED <<attempt, job, row, message, broker, faults>>

(* A failed attempt: the last one makes main() throw and the process exit. *)
AttemptFails ==
    /\ worker = "connecting" /\ broker = "down"
    /\ worker' = IF attempt = MaxAttempts THEN "down" ELSE "backoff"
    /\ UNCHANGED <<attempt, job, row, message, broker, faults>>

BackoffEnds ==
    /\ worker = "backoff"
    /\ worker' = "connecting"
    /\ attempt' = attempt + 1
    /\ UNCHANGED <<job, row, message, broker, faults>>

(* The channel is opened, the queue declared and the prefetch set; then    *)
(* setReady(true) and channel.consume.                                     *)
ConsumeStarts ==
    /\ worker = "setup"
    /\ worker' = "consuming"
    /\ UNCHANGED <<attempt, job, row, message, broker, faults>>

-----------------------------------------------------------------------------
(* The consumer callback.                                                  *)

JobStarts(o) ==
    /\ worker = "consuming"
    /\ MayDeliver(o)
    /\ message' = [message EXCEPT ![o] = "unacked"]
    /\ job' = [job EXCEPT ![o] = "processing"]
    /\ UNCHANGED <<worker, attempt, row, broker, faults>>

JobUpdates_AckFirst(o) ==
    /\ job[o] = "processing"
    /\ job' = [job EXCEPT ![o] = "acked"]
    /\ UNCHANGED <<worker, attempt, row, message, broker, faults>>

(* updateOrderStatus's statement commits. *)
JobUpdates(o) ==
    /\ job[o] = "processing"
    /\ UpdateCommits(o)
    /\ job' = [job EXCEPT ![o] = "updated"]
    /\ UNCHANGED <<worker, attempt, message, broker, faults>>

JobSucceeds_ForgetsAck(o) ==
    /\ job[o] = "updated"
    /\ job' = [job EXCEPT ![o] = "none"]
    /\ UNCHANGED <<worker, attempt, row, message, broker, faults>>

(* updateOrderStatus returns: channel.ack(msg). *)
JobSucceeds(o) ==
    /\ job[o] = "updated"
    /\ job' = [job EXCEPT ![o] = "acked"]
    /\ UNCHANGED <<worker, attempt, row, message, broker, faults>>

JobFails_Requeues(o) ==
    /\ job[o] \in {"processing", "updated"}
    /\ job' = [job EXCEPT ![o] = "none"]
    /\ message' = [message EXCEPT ![o] = "ready"]
    /\ UNCHANGED <<worker, attempt, row, broker, faults>>

(* It rejects, whether or not the statement committed: nack, no requeue. *)
JobFails(o) ==
    /\ job[o] \in {"processing", "updated"}
    /\ job' = [job EXCEPT ![o] = "nacked"]
    /\ UNCHANGED <<worker, attempt, row, message, broker, faults>>

(* The broker reads the ack, or the nack, and forgets the message. *)
BrokerSettles(o) ==
    /\ job[o] \in {"acked", "nacked"}
    /\ message' = [message EXCEPT ![o] = IF job[o] = "acked" THEN "settled" ELSE "dropped"]
    /\ job' = [job EXCEPT ![o] = "none"]
    /\ UNCHANGED <<worker, attempt, row, broker, faults>>

(* The broker cancels the consumer and sends the callback a null message,  *)
(* which it ignores: what was delivered goes on, nothing more comes.       *)
ConsumerCancelled ==
    /\ worker = "consuming"
    /\ Fault("cancel")
    /\ worker' = "cancelled"
    /\ UNCHANGED <<attempt, job, row, message, broker>>

-----------------------------------------------------------------------------
(* The process ends; what it was doing ends with it. *)
Exit ==
    /\ worker' = "down"
    /\ job' = [o \in Orders |-> "none"]
    /\ UNCHANGED attempt

(* It is killed, dies of an uncaught error or loses its connection. *)
WorkerExits ==
    /\ worker # "down" /\ Fault("worker")
    /\ Exit
    /\ message' = [o \in Orders |-> Requeue(message[o])]
    /\ UNCHANGED <<row, broker>>

Disconnect_StaysUp ==
    /\ worker' = IF worker \in Connection THEN "cancelled" ELSE worker
    /\ job' = [o \in Orders |-> "none"]
    /\ UNCHANGED attempt

(* The broker closes the connections: a worker that has one exits. *)
Disconnect ==
    IF worker \in Connection THEN Exit ELSE UNCHANGED workerVars

WorkerStep ==
    \/ WorkerStarts \/ AttemptSucceeds \/ AttemptFails \/ BackoffEnds
    \/ ConsumeStarts \/ ConsumerCancelled \/ WorkerExits
    \/ \E o \in Orders :
          JobStarts(o) \/ JobUpdates(o) \/ JobSucceeds(o) \/ JobFails(o) \/ BrokerSettles(o)

(* The worker with a broker that holds one message for each order. *)
WorkerNext ==
    \/ WorkerStep
    \/ BrokerStops /\ Disconnect
    \/ BrokerStarts /\ UNCHANGED workerVars

consumerVars == <<workerVars, queueVars, row, faults>>

ConsumerInit ==
    /\ WorkerInit /\ EnvironmentInit
    /\ broker \in {"up", "down"}
    /\ row = [o \in Orders |-> "pending"]
    /\ message = [o \in Orders |-> "ready"]

WorkerSpec ==
    /\ ConsumerInit
    /\ [][WorkerNext]_consumerVars
    /\ WF_consumerVars(WorkerStarts)
    /\ WF_consumerVars(AttemptSucceeds \/ AttemptFails)
    /\ WF_consumerVars(BackoffEnds)
    /\ WF_consumerVars(ConsumeStarts)
    /\ WF_consumerVars(BrokerStarts /\ UNCHANGED workerVars)
    /\ \A o \in Orders :
          /\ WF_consumerVars(JobStarts(o))
          /\ WF_consumerVars(JobUpdates(o) \/ JobSucceeds(o) \/ JobFails(o))
          /\ WF_consumerVars(BrokerSettles(o))

-----------------------------------------------------------------------------
WorkerTypeOK ==
    /\ worker \in WorkerPhases
    /\ attempt \in 1..MaxAttempts
    /\ job \in [Orders -> JobPhases]

(* metrics.js: worker_active_jobs is "bounded by PREFETCH", through         *)
(* redeliveries, failed jobs and restarts alike.  PREFETCH=0 is no bound.   *)
ActiveJobsBoundedByPrefetch ==
    Prefetch # 0 => Cardinality(ActiveJobs) <= Prefetch

(* A message leaves the queue by an ack only when its row is completed: a   *)
(* worker that dies in between leaves the message to be delivered again.    *)
AckedOnlyWhenCompleted ==
    \A o \in Orders : message[o] = "settled" => row[o] = "completed"

(* The health endpoint says "ready" only while there is a connection: a     *)
(* worker that lost its own does not stay around without one.               *)
ReadyMeansConnected == Ready => broker = "up"

(* connectWithRetry and the exit on a closed connection, together with the  *)
(* container's restart: whatever the broker did to it, a worker that has a  *)
(* broker ends up ready.                                                    *)
WorkerReturns == broker = "up" ~> Ready \/ broker = "down"

(* No message is left in the queue or with the worker for ever, but by a    *)
(* consumer that was cancelled: index.js ignores the null message it gets,  *)
(* stays ready and consumes no more.                                        *)
Drains(o) == message[o] = "ready" ~> message[o] \in {"settled", "dropped"} \/ worker = "cancelled"

QueueDrains == \A o \in Orders : Drains(o)
=============================================================================
