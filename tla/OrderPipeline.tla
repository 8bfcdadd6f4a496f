--------------------------- MODULE OrderPipeline ----------------------------
(***************************************************************************)
(* POST /orders from the client's request to the completed row:            *)
(* order-service, the queue and the worker together.  They share the       *)
(* orders table and the queue; the broker's shutdown hits both at once.    *)
(***************************************************************************)
EXTENDS OrderService, Worker

pipelineVars == <<serviceVars, workerVars, queueVars, row, faults>>

PipelineInit ==
    /\ EnvironmentInit /\ StoreInit /\ QueueInit /\ ServiceInit /\ WorkerInit

PipelineNext ==
    \/ ServiceStep /\ UNCHANGED workerVars
    \/ WorkerStep /\ UNCHANGED serviceVars
    \/ (\E o \in Orders : BrokerReceives(o)) /\ UNCHANGED <<serviceVars, workerVars>>
    \/ BrokerStops /\ ConnectionsClose /\ Disconnect
    \/ BrokerStarts /\ UNCHANGED <<serviceVars, workerVars>>

PipelineSpec == PipelineInit /\ [][PipelineNext]_pipelineVars

-----------------------------------------------------------------------------
(* The steps that what is waiting in the system waits for. *)

LookupEnds(o) == LookupReturns(o) /\ UNCHANGED workerVars

InsertEnds(o) ==
    (InsertRuns(o) \/ InsertReturns(o) \/ InsertFails(o)) /\ UNCHANGED workerVars

LinkGoesOn(c) ==
    /\ Connected(c) \/ ConnectFails(c) \/ ChannelCreated(c) \/ QueueDeclared(c)
    /\ UNCHANGED workerVars

PublishArrives(o) == BrokerReceives(o) /\ UNCHANGED <<serviceVars, workerVars>>

JobBegins(o) == JobStarts(o) /\ UNCHANGED serviceVars

JobGoesOn(o) == (JobUpdates(o) \/ JobSucceeds(o) \/ JobFails(o)) /\ UNCHANGED serviceVars

JobSettles(o) == BrokerSettles(o) /\ UNCHANGED serviceVars

ServiceReturns == ServiceStarts /\ UNCHANGED workerVars

BrokerReturns == BrokerStarts /\ UNCHANGED <<serviceVars, workerVars>>

WorkerBegins == WorkerStarts /\ UNCHANGED serviceVars

AttemptEnds == (AttemptSucceeds \/ AttemptFails) /\ UNCHANGED serviceVars

WorkerTriesAgain == BackoffEnds /\ UNCHANGED serviceVars

WorkerConsumes == ConsumeStarts /\ UNCHANGED serviceVars

(* What the system owes; clients owe nothing and no fault must happen.     *)
(* The processes are restarted (docker-compose.yml, unless-stopped), their *)
(* awaits return, and the broker comes back and reads what it is sent.     *)
(* LookupReturns is bounded by userClient.js's timeouts; that a query and  *)
(* a connection attempt end is Postgres's and TCP's doing, not the code's. *)
ProcessFairness ==
    /\ WF_pipelineVars(ServiceReturns)
    /\ WF_pipelineVars(BrokerReturns)
    /\ WF_pipelineVars(WorkerBegins)
    /\ WF_pipelineVars(AttemptEnds)
    /\ WF_pipelineVars(WorkerTriesAgain)
    /\ WF_pipelineVars(WorkerConsumes)

RequestFairness(o) ==
    /\ WF_pipelineVars(LookupEnds(o))
    /\ WF_pipelineVars(InsertEnds(o))

LinkFairness(c) == WF_pipelineVars(LinkGoesOn(c))

MessageFairness(o) ==
    /\ WF_pipelineVars(PublishArrives(o))
    /\ WF_pipelineVars(JobBegins(o))
    /\ WF_pipelineVars(JobGoesOn(o))
    /\ WF_pipelineVars(JobSettles(o))

RequestsFairness == \A o \in Orders : RequestFairness(o)
LinksFairness == \A c \in Callers : LinkFairness(c)
MessagesFairness == \A o \in Orders : MessageFairness(o)

PipelineFairness ==
    ProcessFairness /\ RequestsFairness /\ LinksFairness /\ MessagesFairness

FairPipelineSpec == PipelineSpec /\ PipelineFairness

-----------------------------------------------------------------------------
PipelineTypeOK ==
    /\ ServiceTypeOK /\ WorkerTypeOK
    /\ faults \in Nat
    /\ row \in [Orders -> RowStatus]
    /\ broker \in {"up", "down"}
    /\ message \in [Orders -> Places]

(* incident-003 was a "silent success": a 500 after the publish, for an    *)
(* order the worker then completed.  An order is processed only when its   *)
(* client was answered 202, whatever else failed on the way.               *)
FailedNeverProcessed ==
    \A o \in Orders : row[o] = "completed" => reply[o] = 202

(* queue.js counts a failed publish and throws it on, and orders.js answers *)
(* 202 only after the publish: a client is told "accepted" exactly when the *)
(* order's message was written, on a connection that was there to write to. *)
AcceptedExactlyWhenPublished ==
    \A o \in Orders : reply[o] = 202 <=> message[o] # "unsent"

(* Nothing waits for somebody else's step, but a message that is ready for  *)
(* a worker with room: not a handler for another's connection, although     *)
(* they share `channel`, nor a job for the others, nor connectWithRetry     *)
(* for a broker.  Whatever is under way has a step of its own that can be   *)
(* taken, in every state that the crashes and shutdowns leave behind.       *)
RequestGoesOn(o) ==
    /\ handler[o] = "lookup" => ENABLED <<LookupEnds(o)>>_pipelineVars
    /\ handler[o] = "insert" => ENABLED <<InsertEnds(o)>>_pipelineVars
    /\ handler[o] = "connect" => ENABLED <<LinkGoesOn(o)>>_pipelineVars

MessageGoesOn(o) ==
    /\ message[o] = "wire" => ENABLED <<PublishArrives(o)>>_pipelineVars
    /\ worker = "consuming" /\ MayDeliver(o) => ENABLED <<JobBegins(o)>>_pipelineVars
    /\ job[o] \in {"processing", "updated"} => ENABLED <<JobGoesOn(o)>>_pipelineVars
    /\ job[o] \in {"acked", "nacked"} => ENABLED <<JobSettles(o)>>_pipelineVars

ProcessesGoOn ==
    /\ broker = "down" => ENABLED <<BrokerReturns>>_pipelineVars
    /\ worker = "down" => ENABLED <<WorkerBegins>>_pipelineVars
    /\ worker = "connecting" => ENABLED <<AttemptEnds>>_pipelineVars
    /\ worker = "backoff" => ENABLED <<WorkerTriesAgain>>_pipelineVars
    /\ worker = "setup" => ENABLED <<WorkerConsumes>>_pipelineVars

NothingIsStranded ==
    ProcessesGoOn /\ \A o \in Orders : RequestGoesOn(o) /\ MessageGoesOn(o)

(* Every request the service took is answered, over crashes and outages. *)
RequestIsAnswered(o) == handler[o] = "lookup" ~> reply[o] # NoReply

EveryRequestIsAnswered == \A o \in Orders : RequestIsAnswered(o)

(* Every accepted order is completed in the end, unless its message is one *)
(* of those the code gives up.                                             *)
IsProcessed(o) == reply[o] = 202 ~> row[o] = "completed" \/ message[o] \in {"lost", "dropped"}

AcceptedIsProcessed == \A o \in Orders : IsProcessed(o)

(* The code of the reply, as the client understands it. *)
Told(code) ==
    CASE code = 202 -> "accepted"
      [] code \in {400, 404} -> "refused"
      [] code \in {500, 502} -> "failed"
      [] OTHER -> "nothing"

Lifecycle == INSTANCE OrderLifecycle WITH
    Requests <- Orders,
    told <- [o \in Orders |-> Told(reply[o])],
    order <- row

(* The pipeline is an implementation of the order life cycle. *)
ImplementsLifecycle == Lifecycle!LifecycleSpec
=============================================================================
