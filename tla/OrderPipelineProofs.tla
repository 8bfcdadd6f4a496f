------------------------ MODULE OrderPipelineProofs ------------------------
(***************************************************************************)
(* Proofs about OrderPipeline, for every set of orders, prefetch, number   *)
(* of attempts and number of faults.                                       *)
(***************************************************************************)
EXTENDS OrderPipeline, FiniteSetTheorems, TLAPS

Attempting == {"connecting", "opening", "declaring"}

(* A reply ends its handler; a handler before its INSERT has no row; one   *)
(* that connects has its row and a connection under way.                   *)
HandlerInv(o) ==
    /\ reply[o] = NoReply <=> handler[o] \in {"idle"} \cup InFlight
    /\ handler[o] \in {"idle", "lookup"} \/ reply[o] \in {400, 404} => row[o] = "absent"
    /\ handler[o] = "connect" <=> link[o] \in Attempting
    /\ handler[o] = "connect" => row[o] = "pending"

(* A message belongs to an accepted order, and only such an order's row    *)
(* gets past "pending".                                                    *)
MessageInv(o) ==
    /\ reply[o] = 202 <=> message[o] # "unsent"
    /\ message[o] # "unsent" => row[o] # "absent"
    /\ row[o] = "completed" => message[o] # "unsent"
    /\ message[o] = "settled" => row[o] = "completed"

(* The callbacks are exactly those of the unacknowledged messages, which   *)
(* only a connected worker has; past "processing" the row is completed.    *)
JobInv(o) ==
    /\ job[o] # "none" <=> message[o] = "unacked"
    /\ message[o] = "unacked" => worker \in {"consuming", "cancelled"}
    /\ job[o] \in {"updated", "acked"} => row[o] = "completed"

OrderInv == \A o \in Orders : HandlerInv(o) /\ MessageInv(o) /\ JobInv(o)

AttemptInv == worker = "backoff" => attempt < MaxAttempts

PrefetchInv == Prefetch # 0 => Cardinality(InPlace("unacked")) <= Prefetch

(* The inductive invariant. *)
PipelineInv == PipelineTypeOK /\ AttemptInv /\ OrderInv

-----------------------------------------------------------------------------
(* PipelineInv is inductive: one step per action.                          *)

(* The pipeline starts with no request, no row and no message. *)
LEMMA InitInv == PipelineInit => PipelineInv
BY CallerAssumption, AttemptsAssumption
   DEF PipelineInit, EnvironmentInit, StoreInit, QueueInit, ServiceInit, WorkerInit,
       PipelineInv, PipelineTypeOK, ServiceTypeOK, WorkerTypeOK, AttemptInv, OrderInv,
       HandlerInv, MessageInv, JobInv, Callers, HandlerPhases, LinkPhases, Replies,
       NoReply, InFlight, Attempting, WorkerPhases, JobPhases, RowStatus, Places

(* order-service's actions leave the worker's state alone: JobInv is at     *)
(* stake only through the message and the row.                              *)
LEMMA ServiceStepInv ==
    ASSUME PipelineInv, ServiceStep, UNCHANGED workerVars
    PROVE  PipelineInv'
<1> USE CallerAssumption
    DEF PipelineInv, PipelineTypeOK, ServiceTypeOK, WorkerTypeOK, AttemptInv, OrderInv,
        HandlerInv, MessageInv, JobInv, Callers, HandlerPhases, LinkPhases, Replies,
        NoReply, InFlight, Attempting, RowStatus, Places, workerVars
<1>1. CASE ServiceStarts
  BY <1>1 DEF ServiceStarts
<1>2. CASE ServiceCrash
  <2>1. PipelineTypeOK' /\ AttemptInv'
    BY <1>2, EnvironmentAssumption DEF ServiceCrash, Fault, LoseWire
  <2>2. ASSUME NEW p \in Orders PROVE HandlerInv(p)'
    BY <1>2 DEF ServiceCrash
  <2>3. ASSUME NEW p \in Orders PROVE MessageInv(p)' /\ JobInv(p)'
    BY <1>2 DEF ServiceCrash, LoseWire
  <2> QED BY <2>1, <2>2, <2>3
<1>3. ASSUME NEW o \in Orders, PostWhileDown(o) PROVE PipelineInv'
  BY <1>3 DEF PostWhileDown, End
<1>4. ASSUME NEW o \in Orders, PostInvalid(o) PROVE PipelineInv'
  BY <1>4 DEF PostInvalid, End
<1>5. ASSUME NEW o \in Orders, Post(o) PROVE PipelineInv'
  BY <1>5 DEF Post, Await
<1>6. ASSUME NEW o \in Orders, LookupReturns(o) PROVE PipelineInv'
  BY <1>6 DEF LookupReturns, Await, End
<1>7. ASSUME NEW o \in Orders, InsertRuns(o) PROVE PipelineInv'
  BY <1>7 DEF InsertRuns, InsertCommits, serviceVars
<1>8. ASSUME NEW o \in Orders, InsertFails(o) PROVE PipelineInv'
  BY <1>8 DEF InsertFails, End
<1>9. ASSUME NEW o \in Orders, InsertReturns(o) PROVE PipelineInv'
  <2>1. CASE channel # NoChannel /\ Publish(o, channel) /\ UNCHANGED link
    <3>1. PipelineTypeOK' /\ AttemptInv'
      BY <1>9, <2>1 DEF InsertReturns, Publish, End
    <3>2. ASSUME NEW p \in Orders PROVE HandlerInv(p)'
      BY <1>9, <2>1 DEF InsertReturns, Publish, End
    <3>3. ASSUME NEW p \in Orders PROVE MessageInv(p)' /\ JobInv(p)'
      BY <1>9, <2>1 DEF InsertReturns, Publish, End
    <3> QED BY <3>1, <3>2, <3>3
  <2>2. CASE /\ Await(o, "connect")
             /\ link' = [link EXCEPT ![o] = "connecting"]
             /\ UNCHANGED message
    BY <1>9, <2>2 DEF InsertReturns, Await
  <2> QED BY <1>9, <2>1, <2>2 DEF InsertReturns
<1>10. ASSUME NEW c \in Callers, Connected(c) PROVE PipelineInv'
  BY <1>10 DEF Connected
<1>11. ASSUME NEW c \in Callers, ConnectFails(c) PROVE PipelineInv'
  BY <1>11 DEF ConnectFails, End
<1>12. ASSUME NEW c \in Callers, ChannelCreated(c) PROVE PipelineInv'
  BY <1>12 DEF ChannelCreated
<1>13. ASSUME NEW c \in Callers, QueueDeclared(c) PROVE PipelineInv'
  <2>1. CASE c \in Orders /\ Publish(c, channel)
    <3>1. PipelineTypeOK' /\ AttemptInv'
      BY <1>13, <2>1 DEF QueueDeclared, Publish, End
    <3>2. ASSUME NEW p \in Orders PROVE HandlerInv(p)'
      BY <1>13, <2>1 DEF QueueDeclared, Publish, End
    <3>3. ASSUME NEW p \in Orders PROVE MessageInv(p)' /\ JobInv(p)'
      BY <1>13, <2>1 DEF QueueDeclared, Publish, End
    <3> QED BY <3>1, <3>2, <3>3
  <2>2. CASE c = Warm /\ UNCHANGED <<handler, reply, message>>
    BY <1>13, <2>2 DEF QueueDeclared
  <2> QED BY <1>13, <2>1, <2>2 DEF QueueDeclared
<1> QED
  BY <1>1, <1>2, <1>3, <1>4, <1>5, <1>6, <1>7, <1>8, <1>9, <1>10, <1>11, <1>12, <1>13
  DEF ServiceStep

(* The worker's actions leave the handlers alone: MessageInv and JobInv are *)
(* at stake, and AttemptInv in connectWithRetry.                            *)
LEMMA WorkerStepInv ==
    ASSUME PipelineInv, WorkerStep, UNCHANGED serviceVars
    PROVE  PipelineInv'
<1> USE DEF PipelineInv, PipelineTypeOK, ServiceTypeOK, WorkerTypeOK, AttemptInv, OrderInv,
        HandlerInv, MessageInv, JobInv, Callers, WorkerPhases, JobPhases, RowStatus,
        Places, serviceVars
<1>1. CASE WorkerStarts
  BY <1>1, AttemptsAssumption DEF WorkerStarts
<1>2. CASE AttemptSucceeds
  BY <1>2 DEF AttemptSucceeds
<1>3. CASE AttemptFails
  BY <1>3, AttemptsAssumption DEF AttemptFails
<1>4. CASE BackoffEnds
  BY <1>4, AttemptsAssumption DEF BackoffEnds
<1>5. CASE ConsumeStarts
  BY <1>5 DEF ConsumeStarts
<1>6. CASE ConsumerCancelled
  BY <1>6, EnvironmentAssumption DEF ConsumerCancelled, Fault
<1>7. CASE WorkerExits
  <2>1. PipelineTypeOK' /\ AttemptInv'
    BY <1>7, EnvironmentAssumption DEF WorkerExits, Exit, Fault, Requeue
  <2>2. ASSUME NEW p \in Orders PROVE HandlerInv(p)' /\ MessageInv(p)' /\ JobInv(p)'
    BY <1>7 DEF WorkerExits, Exit, Requeue
  <2> QED BY <2>1, <2>2
<1>8. ASSUME NEW o \in Orders, JobStarts(o) PROVE PipelineInv'
  BY <1>8 DEF JobStarts, MayDeliver
<1>9. ASSUME NEW o \in Orders, JobUpdates(o) PROVE PipelineInv'
  <2>1. row[o] = "pending" \/ row[o] = "completed"
    BY <1>9 DEF JobUpdates
  <2>2. handler[o] \notin {"idle", "lookup"} /\ reply[o] \notin {400, 404}
    BY <1>9 DEF JobUpdates, InFlight, NoReply
  <2>3. handler[o] # "connect"
    BY <1>9 DEF JobUpdates, InFlight, NoReply
  <2> QED BY <1>9, <2>1, <2>2, <2>3 DEF JobUpdates, UpdateCommits
<1>10. ASSUME NEW o \in Orders, JobSucceeds(o) PROVE PipelineInv'
  BY <1>10 DEF JobSucceeds
<1>11. ASSUME NEW o \in Orders, JobFails(o) PROVE PipelineInv'
  BY <1>11 DEF JobFails
<1>12. ASSUME NEW o \in Orders, BrokerSettles(o) PROVE PipelineInv'
  BY <1>12 DEF BrokerSettles
<1> QED
  BY <1>1, <1>2, <1>3, <1>4, <1>5, <1>6, <1>7, <1>8, <1>9, <1>10, <1>11, <1>12
  DEF WorkerStep

(* The broker's shutdown moves messages of both connections at once; that   *)
(* only a connected worker has unacknowledged messages is what keeps JobInv *)
(* when the worker has no connection to lose.                               *)
LEMMA BrokerStopsInv ==
    ASSUME PipelineInv, BrokerStops, ConnectionsClose, Disconnect
    PROVE  PipelineInv'
<1> USE CallerAssumption
    DEF PipelineInv, PipelineTypeOK, ServiceTypeOK, WorkerTypeOK, AttemptInv, OrderInv,
        Callers, BrokerStops, Disconnect, Exit, Connection, workerVars
<1>1. PipelineTypeOK' /\ AttemptInv'
  BY EnvironmentAssumption
  DEF Fault, ConnectionsClose, Requeue, LoseWire, Places, HandlerPhases, LinkPhases,
      Replies, WorkerPhases, JobPhases
<1>2. ASSUME NEW p \in Orders PROVE HandlerInv(p)'
  BY DEF HandlerInv, ConnectionsClose, Established, Usable, Attempting, InFlight, NoReply
<1>3. ASSUME NEW p \in Orders PROVE MessageInv(p)'
  BY DEF MessageInv, HandlerInv, ConnectionsClose, Requeue, LoseWire, Attempting, InFlight,
         NoReply
<1>4. ASSUME NEW p \in Orders PROVE JobInv(p)'
  BY DEF JobInv, Requeue, LoseWire
<1> QED BY <1>1, <1>2, <1>3, <1>4

(* The broker storing a publish moves one message from "wire" to "ready". *)
LEMMA BrokerReceivesInv ==
    ASSUME PipelineInv, NEW o \in Orders, BrokerReceives(o),
           UNCHANGED <<serviceVars, workerVars>>
    PROVE  PipelineInv'
BY DEF PipelineInv, PipelineTypeOK, ServiceTypeOK, WorkerTypeOK, AttemptInv, OrderInv,
       HandlerInv, MessageInv, JobInv, BrokerReceives, serviceVars, workerVars, Places

(* Every step of the pipeline, and every stutter, preserves the invariant. *)
LEMMA StepInv == PipelineInv /\ [PipelineNext]_pipelineVars => PipelineInv'
<1> SUFFICES ASSUME PipelineInv, [PipelineNext]_pipelineVars PROVE PipelineInv'
  OBVIOUS
<1>1. CASE BrokerStarts /\ UNCHANGED <<serviceVars, workerVars>>
  BY <1>1 DEF BrokerStarts, PipelineInv, PipelineTypeOK, ServiceTypeOK, WorkerTypeOK,
     AttemptInv, OrderInv, HandlerInv, MessageInv, JobInv, serviceVars, workerVars
<1>2. CASE UNCHANGED pipelineVars
  BY <1>2 DEF pipelineVars, PipelineInv, PipelineTypeOK, ServiceTypeOK, WorkerTypeOK,
     AttemptInv, OrderInv, HandlerInv, MessageInv, JobInv, serviceVars, workerVars, queueVars
<1> QED
  BY <1>1, <1>2, ServiceStepInv, WorkerStepInv, BrokerStopsInv, BrokerReceivesInv
  DEF PipelineNext

(* The inductive invariant holds throughout: what each handler, message and *)
(* job is at agrees with the replies and the rows.                          *)
THEOREM PipelineInvariant == PipelineSpec => []PipelineInv
BY InitInv, StepInv, PTL DEF PipelineSpec

-----------------------------------------------------------------------------
(* What the invariant gives.                                               *)

(* Every variable of the pipeline has its type: in particular              *)
(* connectWithRetry's counter stays within MaxAttempts over any sequence   *)
(* of failed attempts, exits and restarts.                                 *)
THEOREM PipelineTypeCorrect == PipelineSpec => []PipelineTypeOK
<1>1. PipelineInv => PipelineTypeOK
  BY DEF PipelineInv
<1> QED BY <1>1, PipelineInvariant, PTL

(* No order is ever processed whose client was not answered 202: over every *)
(* interleaving of handlers, crash, broker shutdown and redelivery.         *)
THEOREM PipelineFailedNeverProcessed == PipelineSpec => []FailedNeverProcessed
<1>1. PipelineInv => FailedNeverProcessed
  BY DEF PipelineInv, OrderInv, MessageInv, FailedNeverProcessed
<1> QED BY <1>1, PipelineInvariant, PTL

(* A client is told "accepted" exactly when the message was written.       *)
THEOREM PipelineAcceptedExactlyWhenPublished ==
    PipelineSpec => []AcceptedExactlyWhenPublished
<1>1. PipelineInv => AcceptedExactlyWhenPublished
  BY DEF PipelineInv, OrderInv, MessageInv, AcceptedExactlyWhenPublished
<1> QED BY <1>1, PipelineInvariant, PTL

(* A message the worker acknowledged is that of a completed order: a crash  *)
(* between the UPDATE and the ack costs a redelivery, never an order.       *)
THEOREM PipelineAckedOnlyWhenCompleted == PipelineSpec => []AckedOnlyWhenCompleted
<1>1. PipelineInv => AckedOnlyWhenCompleted
  BY DEF PipelineInv, OrderInv, MessageInv, AckedOnlyWhenCompleted
<1> QED BY <1>1, PipelineInvariant, PTL

-----------------------------------------------------------------------------
(* The prefetch.  Every action but a delivery leaves the set of             *)
(* unacknowledged messages alone or makes it smaller.                       *)

(* The messages delivered and not acknowledged are finitely many. *)
LEMMA UnackedFinite ==
    ASSUME NEW S, S \subseteq Orders
    PROVE  IsFiniteSet(S) /\ Cardinality(S) \in Nat
BY OrdersAssumption, FS_Subset, FS_CardinalityType

(* A step that delivers nothing keeps within the prefetch. *)
LEMMA FewerUnacked ==
    ASSUME PrefetchInv, InPlace("unacked")' \subseteq InPlace("unacked")
    PROVE  PrefetchInv'
<1> DEFINE S == InPlace("unacked")
           T == InPlace("unacked")'
<1>1. S \subseteq Orders
  BY DEF InPlace
<1>2. IsFiniteSet(S) /\ Cardinality(S) \in Nat /\ Cardinality(T) \in Nat
  BY <1>1, UnackedFinite
<1>3. Cardinality(T) <= Cardinality(S)
  BY <1>2, FS_Subset
<1> QED BY <1>2, <1>3, PrefetchAssumption DEF PrefetchInv

(* basic.deliver adds one message to fewer than Prefetch. *)
LEMMA DeliveryWithinPrefetch ==
    ASSUME message \in [Orders -> Places], PrefetchInv, NEW o \in Orders, JobStarts(o)
    PROVE  PrefetchInv'
<1> DEFINE S == InPlace("unacked")
           T == InPlace("unacked")'
<1>1. S \subseteq Orders /\ o \notin S
  BY DEF InPlace, JobStarts, MayDeliver
<1>2. T = S \cup {o}
  BY DEF InPlace, JobStarts, MayDeliver
<1>3. IsFiniteSet(S) /\ Cardinality(S) \in Nat
  BY <1>1, UnackedFinite
<1>4. Cardinality(T) = Cardinality(S) + 1
  BY <1>1, <1>2, <1>3, FS_AddElement
<1>5. Prefetch # 0 => Cardinality(S) < Prefetch
  BY DEF JobStarts, MayDeliver
<1> QED BY <1>3, <1>4, <1>5, PrefetchAssumption DEF PrefetchInv

(* JobStarts is the only action that makes a message unacknowledged. *)
LEMMA OnlyDeliveryUnacks ==
    ASSUME PipelineTypeOK, [PipelineNext]_pipelineVars,
           ~ \E o \in Orders : JobStarts(o)
    PROVE  InPlace("unacked")' \subseteq InPlace("unacked")
<1> USE DEF InPlace, PipelineTypeOK
<1>1. CASE ServiceStep
  BY <1>1 DEF ServiceStep, ServiceStarts, ServiceCrash, PostWhileDown, PostInvalid, Post,
     LookupReturns, InsertRuns, InsertFails, InsertReturns, Connected, ConnectFails,
     ChannelCreated, QueueDeclared, Publish, LoseWire
<1>2. CASE WorkerStep
  BY <1>2 DEF WorkerStep, WorkerStarts, AttemptSucceeds, AttemptFails, BackoffEnds,
     ConsumeStarts, ConsumerCancelled, WorkerExits, JobUpdates, JobSucceeds, JobFails,
     BrokerSettles, Requeue
<1>3. CASE BrokerStops
  BY <1>3 DEF BrokerStops, Requeue, LoseWire
<1>4. CASE BrokerStarts \/ \E o \in Orders : BrokerReceives(o)
  BY <1>4 DEF BrokerStarts, BrokerReceives
<1>5. CASE UNCHANGED pipelineVars
  BY <1>5 DEF pipelineVars, queueVars
<1> QED BY <1>1, <1>2, <1>3, <1>4, <1>5 DEF PipelineNext

(* Every step keeps within the prefetch. *)
LEMMA StepPrefetch ==
    PipelineInv /\ PrefetchInv /\ [PipelineNext]_pipelineVars => PrefetchInv'
<1> SUFFICES ASSUME PipelineInv, PrefetchInv, [PipelineNext]_pipelineVars
             PROVE  PrefetchInv'
  OBVIOUS
<1>1. PipelineTypeOK
  BY DEF PipelineInv
<1>2. CASE \E o \in Orders : JobStarts(o)
  BY <1>1, <1>2, DeliveryWithinPrefetch DEF PipelineTypeOK
<1>3. CASE ~ \E o \in Orders : JobStarts(o)
  BY <1>1, <1>3, OnlyDeliveryUnacks, FewerUnacked
<1> QED BY <1>2, <1>3

(* The prefetch bounds the jobs, for each is that of an unacknowledged      *)
(* message.                                                                 *)
LEMMA JobsWithinPrefetch ==
    ASSUME PrefetchInv, ActiveJobs \subseteq InPlace("unacked")
    PROVE  ActiveJobsBoundedByPrefetch
<1> SUFFICES ASSUME Prefetch # 0 PROVE Cardinality(ActiveJobs) <= Prefetch
  BY DEF ActiveJobsBoundedByPrefetch
<1> DEFINE S == InPlace("unacked")
<1>1. IsFiniteSet(S) /\ Cardinality(S) \in Nat
  BY UnackedFinite DEF InPlace
<1>2. Cardinality(ActiveJobs) \in Nat /\ Cardinality(ActiveJobs) <= Cardinality(S)
  BY <1>1, FS_Subset, FS_CardinalityType
<1> QED BY <1>1, <1>2, PrefetchAssumption DEF PrefetchInv

(* worker_active_jobs never exceeds PREFETCH, over redeliveries, failed     *)
(* jobs and restarts: a job's message is unacknowledged, and the broker     *)
(* stops delivering at the limit.                                           *)
THEOREM PipelineActiveJobsBounded == PipelineSpec => []ActiveJobsBoundedByPrefetch
<1>1. PipelineInit => PrefetchInv
  <2> SUFFICES ASSUME PipelineInit PROVE PrefetchInv
    OBVIOUS
  <2>1. InPlace("unacked") = {}
    BY DEF PipelineInit, QueueInit, InPlace
  <2> QED BY <2>1, FS_EmptySet, PrefetchAssumption DEF PrefetchInv
<1>2. PipelineInv /\ PrefetchInv => ActiveJobsBoundedByPrefetch
  <2>1. PipelineInv => ActiveJobs \subseteq InPlace("unacked")
    BY DEF ActiveJobs, InPlace, PipelineInv, OrderInv, JobInv
  <2> QED BY <2>1, JobsWithinPrefetch
<1> QED BY <1>1, <1>2, StepPrefetch, PipelineInvariant, PTL DEF PipelineSpec

-----------------------------------------------------------------------------
(* Refinement: every step of the pipeline is a step of the order life      *)
(* cycle, or leaves what the client sees as it is.                         *)

(* The initial states of the pipeline are those of the life cycle. *)
LEMMA LifecycleInitially == PipelineInit => Lifecycle!LifecycleInit
BY DEF PipelineInit, ServiceInit, StoreInit, Lifecycle!LifecycleInit, Told, NoReply

(* What the client of o sees of the end of o's handler.                    *)
LEMMA EndIsOutcome ==
    ASSUME PipelineTypeOK, NEW o \in Orders, NEW code, NEW phase, End(o, code, phase)
    PROVE  [p \in Orders |-> Told(reply[p])]'
              = [[p \in Orders |-> Told(reply[p])] EXCEPT ![o] = Told(code)]
BY DEF PipelineTypeOK, ServiceTypeOK, End

(* A handler that ends with a 5xx fails its request and no other. *)
LEMMA FailsOne ==
    ASSUME PipelineInv, NEW o \in Orders, reply[o] = NoReply, UNCHANGED row,
           NEW code \in {500, 502}, NEW phase, End(o, code, phase)
    PROVE  Lifecycle!LifecycleNext
<1> DEFINE told == [p \in Orders |-> Told(reply[p])]
<1>1. told' = [told EXCEPT ![o] = "failed"]
  BY EndIsOutcome DEF PipelineInv, Told
<1>2. told[o] = "nothing"
  BY DEF Told, NoReply
<1>3. Lifecycle!Fail({o})
  BY <1>1, <1>2 DEF Lifecycle!Fail
<1> QED BY <1>3 DEF Lifecycle!LifecycleNext

(* A handler that ends with a 4xx, before any row, refuses its request. *)
LEMMA RefusesOne ==
    ASSUME PipelineInv, NEW o \in Orders, reply[o] = NoReply, row[o] = "absent",
           UNCHANGED row, NEW code \in {400, 404}, NEW phase, End(o, code, phase)
    PROVE  Lifecycle!LifecycleNext
<1> DEFINE told == [p \in Orders |-> Told(reply[p])]
<1>1. told' = [told EXCEPT ![o] = "refused"]
  BY EndIsOutcome DEF PipelineInv, Told
<1>2. told[o] = "nothing"
  BY DEF Told, NoReply
<1>3. Lifecycle!Refuse(o)
  BY <1>1, <1>2 DEF Lifecycle!Refuse
<1> QED BY <1>3 DEF Lifecycle!LifecycleNext

(* Publishing accepts the order or fails the request. *)
LEMMA PublishAcceptsOrFails ==
    ASSUME PipelineInv, NEW o \in Orders, NEW ch, reply[o] = NoReply,
           row[o] = "pending", UNCHANGED row, Publish(o, ch)
    PROVE  Lifecycle!LifecycleNext
<1> DEFINE told == [p \in Orders |-> Told(reply[p])]
<1>1. CASE End(o, 202, "replied")
  <2>1. told' = [told EXCEPT ![o] = "accepted"]
    BY <1>1, EndIsOutcome DEF PipelineInv, Told
  <2>2. told[o] = "nothing"
    BY DEF Told, NoReply
  <2>3. Lifecycle!Accept(o)
    BY <2>1, <2>2 DEF Lifecycle!Accept
  <2> QED BY <2>3 DEF Lifecycle!LifecycleNext
<1>2. CASE End(o, 500, "publishError")
  BY <1>2, FailsOne
<1> QED BY <1>1, <1>2 DEF Publish

(* One event may fail many requests: those it fails had no reply yet.      *)
LEMMA FailsMany ==
    ASSUME PipelineInv, UNCHANGED row,
           NEW failing \in SUBSET Orders, NEW code \in {500, 502},
           \A o \in failing : reply[o] = NoReply,
           reply' = [o \in Orders |-> IF o \in failing THEN code ELSE reply[o]]
    PROVE  Lifecycle!LifecycleNext
<1> DEFINE told == [p \in Orders |-> Told(reply[p])]
<1>1. told' = [p \in Orders |-> IF p \in failing THEN "failed" ELSE told[p]]
  BY DEF Told
<1>2. \A o \in failing : told[o] = "nothing"
  BY DEF Told, NoReply
<1>3. Lifecycle!Fail(failing)
  BY <1>1, <1>2 DEF Lifecycle!Fail
<1> QED BY <1>3 DEF Lifecycle!LifecycleNext

(* Every action of order-service is an action of the life cycle or a stutter. *)
LEMMA ServiceStepImplements ==
    ASSUME PipelineInv, ServiceStep
    PROVE  [Lifecycle!LifecycleNext]_(Lifecycle!lifecycleVars)
<1> USE DEF PipelineInv, OrderInv
<1>1. CASE ServiceStarts
  BY <1>1 DEF ServiceStarts, Lifecycle!lifecycleVars
<1>2. CASE ServiceCrash
  <2> DEFINE failing == {o \in Orders : handler[o] \in InFlight}
  <2>1. \A o \in failing : reply[o] = NoReply
    BY DEF HandlerInv
  <2>2. reply' = [o \in Orders |-> IF o \in failing THEN 502 ELSE reply[o]]
    BY <1>2 DEF ServiceCrash
  <2>3. UNCHANGED row
    BY <1>2 DEF ServiceCrash
  <2> QED BY <2>1, <2>2, <2>3, FailsMany
<1>3. ASSUME NEW o \in Orders, PostWhileDown(o) PROVE Lifecycle!LifecycleNext
  BY <1>3, FailsOne DEF PostWhileDown, HandlerInv
<1>4. ASSUME NEW o \in Orders, PostInvalid(o) PROVE Lifecycle!LifecycleNext
  BY <1>4, RefusesOne DEF PostInvalid, HandlerInv
<1>5. ASSUME NEW o \in Orders, Post(o) PROVE UNCHANGED Lifecycle!lifecycleVars
  BY <1>5 DEF Post, Await, Lifecycle!lifecycleVars
<1>6. ASSUME NEW o \in Orders, LookupReturns(o)
      PROVE  [Lifecycle!LifecycleNext]_(Lifecycle!lifecycleVars)
  <2>1. reply[o] = NoReply /\ row[o] = "absent" /\ UNCHANGED row
    BY <1>6 DEF LookupReturns, HandlerInv, InFlight
  <2>2. CASE Await(o, "insert")
    BY <2>1, <2>2 DEF Await, Lifecycle!lifecycleVars
  <2>3. CASE End(o, 404, "replied")
    BY <2>1, <2>3, RefusesOne
  <2>4. CASE End(o, 500, "replied")
    BY <2>1, <2>4, FailsOne
  <2> QED BY <1>6, <2>2, <2>3, <2>4 DEF LookupReturns
<1>7. ASSUME NEW o \in Orders, InsertRuns(o) PROVE Lifecycle!LifecycleNext
  <2>1. reply[o] = NoReply
    BY <1>7 DEF InsertRuns, HandlerInv, InFlight
  <2>2. Lifecycle!Record(o)
    BY <1>7, <2>1 DEF InsertRuns, InsertCommits, serviceVars, Told, NoReply, Lifecycle!Record
  <2> QED BY <2>2 DEF Lifecycle!LifecycleNext
<1>8. ASSUME NEW o \in Orders, InsertFails(o) PROVE Lifecycle!LifecycleNext
  BY <1>8, FailsOne DEF InsertFails, HandlerInv, InFlight
<1>9. ASSUME NEW o \in Orders, InsertReturns(o)
      PROVE  [Lifecycle!LifecycleNext]_(Lifecycle!lifecycleVars)
  <2>1. reply[o] = NoReply /\ row[o] = "pending" /\ UNCHANGED row
    BY <1>9 DEF InsertReturns, HandlerInv, InFlight
  <2>2. CASE Publish(o, channel)
    BY <2>1, <2>2, PublishAcceptsOrFails
  <2>3. CASE Await(o, "connect")
    BY <2>1, <2>3 DEF Await, Lifecycle!lifecycleVars
  <2> QED BY <1>9, <2>2, <2>3 DEF InsertReturns
<1>10. ASSUME NEW c \in Callers, Connected(c) \/ ChannelCreated(c)
       PROVE  UNCHANGED Lifecycle!lifecycleVars
  BY <1>10 DEF Connected, ChannelCreated, Lifecycle!lifecycleVars
<1>11. ASSUME NEW c \in Callers, ConnectFails(c)
       PROVE  [Lifecycle!LifecycleNext]_(Lifecycle!lifecycleVars)
  <2>1. CASE c \in Orders /\ End(c, 500, "publishError")
    <3>1. reply[c] = NoReply
      BY <1>11, <2>1 DEF ConnectFails, HandlerInv, Attempting, InFlight
    <3> QED BY <1>11, <2>1, <3>1, FailsOne DEF ConnectFails
  <2>2. CASE UNCHANGED <<handler, reply>>
    BY <1>11, <2>2 DEF ConnectFails, Lifecycle!lifecycleVars
  <2> QED BY <1>11, <2>1, <2>2 DEF ConnectFails
<1>12. ASSUME NEW c \in Callers, QueueDeclared(c)
       PROVE  [Lifecycle!LifecycleNext]_(Lifecycle!lifecycleVars)
  <2>1. CASE c \in Orders /\ Publish(c, channel)
    <3>1. reply[c] = NoReply /\ row[c] = "pending"
      BY <1>12, <2>1 DEF QueueDeclared, HandlerInv, Attempting, InFlight
    <3> QED BY <1>12, <2>1, <3>1, PublishAcceptsOrFails DEF QueueDeclared
  <2>2. CASE UNCHANGED <<handler, reply, message>>
    BY <1>12, <2>2 DEF QueueDeclared, Lifecycle!lifecycleVars
  <2> QED BY <1>12, <2>1, <2>2 DEF QueueDeclared
<1> QED
  BY <1>1, <1>2, <1>3, <1>4, <1>5, <1>6, <1>7, <1>8, <1>9, <1>10, <1>11, <1>12
  DEF ServiceStep

(* Of the worker's actions only the UPDATE shows: a first delivery          *)
(* completes the order, a redelivery finds it completed.                    *)
LEMMA WorkerStepImplements ==
    ASSUME PipelineInv, WorkerStep, UNCHANGED serviceVars
    PROVE  [Lifecycle!LifecycleNext]_(Lifecycle!lifecycleVars)
<1>1. CASE \E o \in Orders : JobUpdates(o)
  <2>1. PICK o \in Orders : JobUpdates(o)
    BY <1>1
  <2>2. UNCHANGED [p \in Orders |-> Told(reply[p])]
    BY DEF serviceVars
  <2>3. reply[o] = 202 /\ row[o] # "absent"
    BY <2>1 DEF JobUpdates, PipelineInv, OrderInv, JobInv, MessageInv
  <2>4. CASE row[o] = "pending"
    <3>1. Lifecycle!Complete(o)
      BY <2>1, <2>2, <2>3, <2>4 DEF JobUpdates, UpdateCommits, Told, Lifecycle!Complete
    <3> QED BY <3>1 DEF Lifecycle!LifecycleNext
  <2>5. CASE row[o] = "completed"
    <3>1. row' = row
      BY <2>1, <2>5 DEF JobUpdates, UpdateCommits, PipelineInv, PipelineTypeOK
    <3> QED BY <2>2, <3>1 DEF Lifecycle!lifecycleVars
  <2> QED
    BY <2>3, <2>4, <2>5 DEF PipelineInv, PipelineTypeOK, RowStatus
<1>2. CASE ~ \E o \in Orders : JobUpdates(o)
  BY <1>2 DEF WorkerStep, WorkerStarts, AttemptSucceeds, AttemptFails, BackoffEnds,
     ConsumeStarts, ConsumerCancelled, WorkerExits, JobStarts, JobSucceeds, JobFails,
     BrokerSettles, serviceVars, Lifecycle!lifecycleVars
<1> QED BY <1>1, <1>2

(* Every step of the pipeline is a step of the life cycle or a stutter. *)
LEMMA StepImplements ==
    PipelineInv /\ [PipelineNext]_pipelineVars
        => [Lifecycle!LifecycleNext]_(Lifecycle!lifecycleVars)
<1> SUFFICES ASSUME PipelineInv, [PipelineNext]_pipelineVars
             PROVE  [Lifecycle!LifecycleNext]_(Lifecycle!lifecycleVars)
  OBVIOUS
<1>1. CASE ServiceStep
  BY <1>1, ServiceStepImplements
<1>2. CASE WorkerStep /\ UNCHANGED serviceVars
  BY <1>2, WorkerStepImplements
<1>3. CASE BrokerStops /\ ConnectionsClose
  <2> DEFINE failing == {o \in Orders : link[o] \in {"opening", "declaring"}}
  <2>1. \A o \in failing : reply[o] = NoReply
    BY DEF PipelineInv, OrderInv, HandlerInv, Attempting, InFlight
  <2>2. reply' = [o \in Orders |-> IF o \in failing THEN 500 ELSE reply[o]]
    BY <1>3 DEF ConnectionsClose
  <2>3. UNCHANGED row
    BY <1>3 DEF BrokerStops
  <2> QED BY <2>1, <2>2, <2>3, FailsMany
<1>4. CASE (BrokerStarts \/ \E o \in Orders : BrokerReceives(o)) /\ UNCHANGED serviceVars
  BY <1>4 DEF BrokerStarts, BrokerReceives, serviceVars, Lifecycle!lifecycleVars
<1>5. CASE UNCHANGED pipelineVars
  BY <1>5 DEF pipelineVars, serviceVars, Lifecycle!lifecycleVars
<1> QED BY <1>1, <1>2, <1>3, <1>4, <1>5 DEF PipelineNext

(* The pipeline implements the order life cycle, whatever fails. *)
THEOREM PipelineImplementsLifecycle == PipelineSpec => ImplementsLifecycle
BY LifecycleInitially, StepImplements, PipelineInvariant, PTL
   DEF PipelineSpec, ImplementsLifecycle, Lifecycle!LifecycleSpec

-----------------------------------------------------------------------------
(* The connections.                                                        *)

(* Only a broker that is up has the worker's connection. *)
WorkerConnectionInv == worker \in Connection => broker = "up"

(* A step of the pipeline leaves no connection to a broker that is away. *)
LEMMA WorkerConnectionStep ==
    WorkerConnectionInv /\ [PipelineNext]_pipelineVars => WorkerConnectionInv'
<1> SUFFICES ASSUME WorkerConnectionInv, [PipelineNext]_pipelineVars
             PROVE  WorkerConnectionInv'
  OBVIOUS
<1> USE DEF WorkerConnectionInv, Connection
<1>1. CASE ServiceStep /\ UNCHANGED workerVars
  BY <1>1 DEF ServiceStep, ServiceStarts, ServiceCrash, PostWhileDown, PostInvalid, Post,
     LookupReturns, InsertRuns, InsertFails, InsertReturns, Connected, ConnectFails,
     ChannelCreated, QueueDeclared, workerVars
<1>2. CASE WorkerStep
  BY <1>2 DEF WorkerStep, WorkerStarts, AttemptSucceeds, AttemptFails, BackoffEnds,
     ConsumeStarts, ConsumerCancelled, WorkerExits, Exit, JobStarts, JobUpdates, JobSucceeds,
     JobFails, BrokerSettles
<1>3. CASE BrokerStops /\ Disconnect
  BY <1>3 DEF Disconnect, Exit, workerVars
<1>4. CASE (BrokerStarts \/ \E o \in Orders : BrokerReceives(o)) /\ UNCHANGED workerVars
  BY <1>4 DEF BrokerStarts, BrokerReceives, workerVars
<1>5. CASE UNCHANGED pipelineVars
  BY <1>5 DEF pipelineVars, queueVars, workerVars
<1> QED BY <1>1, <1>2, <1>3, <1>4, <1>5 DEF PipelineNext

(* A worker that reports ready has a broker: it does not outlive its        *)
(* connection.                                                              *)
THEOREM PipelineReadyMeansConnected == PipelineSpec => []ReadyMeansConnected
<1>1. PipelineInit => WorkerConnectionInv
  BY DEF PipelineInit, WorkerInit, WorkerConnectionInv, Connection
<1>2. WorkerConnectionInv => ReadyMeansConnected
  BY DEF WorkerConnectionInv, Connection, ReadyMeansConnected, Ready
<1> QED BY <1>1, <1>2, WorkerConnectionStep, PTL DEF PipelineSpec

-----------------------------------------------------------------------------
(* The worker by itself, with a queue that holds a message for each order.  *)

(* As in the pipeline: the callbacks are those of the unacknowledged        *)
(* messages, past "processing" the row is completed, and a connection is    *)
(* one to a broker that is there.                                           *)
ConsumerInv ==
    /\ WorkerTypeOK
    /\ faults \in Nat
    /\ row \in [Orders -> {"pending", "completed"}]
    /\ message \in [Orders -> Places]
    /\ AttemptInv /\ WorkerConnectionInv
    /\ \A o \in Orders : JobInv(o)
    /\ AckedOnlyWhenCompleted

(* The consumer callback keeps it. *)
LEMMA CallbackKeepsInv ==
    ASSUME ConsumerInv, NEW o \in Orders,
           JobStarts(o) \/ JobUpdates(o) \/ JobSucceeds(o) \/ JobFails(o) \/ BrokerSettles(o)
    PROVE  ConsumerInv'
<1> USE DEF ConsumerInv, WorkerTypeOK, AttemptInv, WorkerConnectionInv, JobInv,
        AckedOnlyWhenCompleted, JobPhases, Places
<1>1. CASE JobStarts(o)
  BY <1>1 DEF JobStarts, MayDeliver
<1>2. CASE JobUpdates(o)
  BY <1>2 DEF JobUpdates, UpdateCommits
<1>3. CASE JobSucceeds(o) \/ JobFails(o)
  BY <1>3 DEF JobSucceeds, JobFails
<1>4. CASE BrokerSettles(o)
  BY <1>4 DEF BrokerSettles
<1> QED BY <1>1, <1>2, <1>3, <1>4

(* So do the worker's other steps and the broker's. *)
LEMMA ConsumerStep == ConsumerInv /\ [WorkerNext]_consumerVars => ConsumerInv'
<1> SUFFICES ASSUME ConsumerInv, [WorkerNext]_consumerVars PROVE ConsumerInv'
  OBVIOUS
<1> USE AttemptsAssumption
    DEF ConsumerInv, WorkerTypeOK, AttemptInv, WorkerConnectionInv, JobInv,
        AckedOnlyWhenCompleted, WorkerPhases, JobPhases, Connection, Places
<1>1. CASE WorkerStarts \/ AttemptSucceeds \/ AttemptFails \/ BackoffEnds \/ ConsumeStarts
  BY <1>1 DEF WorkerStarts, AttemptSucceeds, AttemptFails, BackoffEnds, ConsumeStarts
<1>2. CASE ConsumerCancelled
  BY <1>2, EnvironmentAssumption DEF ConsumerCancelled, Fault
<1>3. CASE WorkerExits
  BY <1>3, EnvironmentAssumption DEF WorkerExits, Exit, Fault, Requeue
<1>4. CASE BrokerStops /\ Disconnect
  BY <1>4, EnvironmentAssumption
  DEF BrokerStops, Disconnect, Exit, Fault, Requeue, LoseWire, workerVars
<1>5. CASE BrokerStarts /\ UNCHANGED workerVars
  BY <1>5 DEF BrokerStarts, workerVars
<1>6. CASE UNCHANGED consumerVars
  BY <1>6 DEF consumerVars, workerVars, queueVars
<1> QED BY <1>1, <1>2, <1>3, <1>4, <1>5, <1>6, CallbackKeepsInv DEF WorkerNext, WorkerStep

(* A delivery is the only step that adds to what is unacknowledged. *)
LEMMA ConsumerPrefetch ==
    ConsumerInv /\ PrefetchInv /\ [WorkerNext]_consumerVars => PrefetchInv'
<1> SUFFICES ASSUME ConsumerInv, PrefetchInv, [WorkerNext]_consumerVars
             PROVE  PrefetchInv'
  OBVIOUS
<1> USE DEF ConsumerInv
<1>1. CASE \E o \in Orders : JobStarts(o)
  BY <1>1, DeliveryWithinPrefetch
<1>2. CASE ~ \E o \in Orders : JobStarts(o)
  <2>1. InPlace("unacked")' \subseteq InPlace("unacked")
    BY <1>2 DEF WorkerNext, WorkerStep, WorkerStarts, AttemptSucceeds, AttemptFails,
       BackoffEnds, ConsumeStarts, ConsumerCancelled, WorkerExits, JobUpdates, JobSucceeds,
       JobFails, BrokerSettles, BrokerStops, BrokerStarts, Requeue, LoseWire, InPlace,
       consumerVars, queueVars
  <2> QED BY <2>1, FewerUnacked
<1> QED BY <1>1, <1>2

(* What the worker promises, whatever fills the queue: PREFETCH bounds its  *)
(* active jobs, it acknowledges completed orders only, and it is ready only *)
(* with a broker.                                                           *)
THEOREM WorkerKeepsItsPromises ==
    WorkerSpec => [](ActiveJobsBoundedByPrefetch /\ AckedOnlyWhenCompleted /\ ReadyMeansConnected)
<1>1. ConsumerInit => ConsumerInv /\ PrefetchInv
  <2> SUFFICES ASSUME ConsumerInit PROVE ConsumerInv /\ PrefetchInv
    OBVIOUS
  <2>1. ConsumerInv
    BY AttemptsAssumption
    DEF ConsumerInit, WorkerInit, EnvironmentInit, ConsumerInv, WorkerTypeOK, AttemptInv,
        WorkerConnectionInv, JobInv, AckedOnlyWhenCompleted, WorkerPhases, JobPhases,
        Connection, Places
  <2>2. InPlace("unacked") = {}
    BY DEF ConsumerInit, InPlace
  <2> QED BY <2>1, <2>2, FS_EmptySet, PrefetchAssumption DEF PrefetchInv
<1>2. ConsumerInv /\ PrefetchInv => ActiveJobsBoundedByPrefetch
  <2>1. ConsumerInv => ActiveJobs \subseteq InPlace("unacked")
    BY DEF ConsumerInv, ActiveJobs, InPlace, JobInv
  <2> QED BY <2>1, JobsWithinPrefetch
<1>3. ConsumerInv => AckedOnlyWhenCompleted /\ ReadyMeansConnected
  BY DEF ConsumerInv, WorkerConnectionInv, Connection, ReadyMeansConnected, Ready
<1> QED BY <1>1, <1>2, <1>3, ConsumerStep, ConsumerPrefetch, PTL DEF WorkerSpec

-----------------------------------------------------------------------------
(* `channel` holds a channel that was opened, and holds one as soon as any  *)
(* caller has come so far; without a process there is nothing of it.        *)
ChannelInv ==
    /\ channel # NoChannel => link[channel] \in {"declaring", "open", "closed"}
    /\ (\E c \in Callers : link[c] \in {"declaring", "open"}) => channel # NoChannel
    /\ service = "down" => /\ channel = NoChannel
                           /\ \A c \in Callers : link[c] = "none"
                           /\ \A o \in Orders : handler[o] \notin InFlight

(* order-service's steps: assignments of `channel`, and the process's end. *)
LEMMA ChannelServiceStep ==
    ASSUME PipelineTypeOK, ChannelInv, ServiceStep
    PROVE  ChannelInv'
<1> USE CallerAssumption DEF PipelineTypeOK, ServiceTypeOK, ChannelInv, Callers, InFlight
<1>1. CASE ServiceStarts
  BY <1>1 DEF ServiceStarts
<1>2. CASE ServiceCrash
  BY <1>2 DEF ServiceCrash
<1>3. CASE \E o \in Orders : \/ PostWhileDown(o) \/ PostInvalid(o) \/ Post(o)
                             \/ LookupReturns(o) \/ InsertRuns(o) \/ InsertFails(o)
  BY <1>3 DEF PostWhileDown, PostInvalid, Post, LookupReturns, InsertRuns, InsertFails,
     Await, End, serviceVars
<1>4. ASSUME NEW o \in Orders, InsertReturns(o) PROVE ChannelInv'
  BY <1>4 DEF InsertReturns, Publish, Await, End
<1>5. ASSUME NEW c \in Callers, Connected(c) \/ ConnectFails(c) PROVE ChannelInv'
  BY <1>5 DEF Connected, ConnectFails, End
<1>6. ASSUME NEW c \in Callers, ChannelCreated(c) PROVE ChannelInv'
  BY <1>6 DEF ChannelCreated
<1>7. ASSUME NEW c \in Callers, QueueDeclared(c) PROVE ChannelInv'
  BY <1>7 DEF QueueDeclared, Publish, End
<1> QED BY <1>1, <1>2, <1>3, <1>4, <1>5, <1>6, <1>7 DEF ServiceStep

(* Every step of the pipeline. *)
LEMMA ChannelStep == PipelineInv /\ ChannelInv /\ [PipelineNext]_pipelineVars => ChannelInv'
<1> SUFFICES ASSUME PipelineTypeOK, ChannelInv, [PipelineNext]_pipelineVars
             PROVE  ChannelInv'
  BY DEF PipelineInv
<1>1. CASE BrokerStops /\ ConnectionsClose
  BY <1>1, CallerAssumption
  DEF ConnectionsClose, ChannelInv, Callers, Established, Usable, InFlight, PipelineTypeOK,
      ServiceTypeOK
<1>2. CASE UNCHANGED serviceVars
  BY <1>2 DEF serviceVars, ChannelInv
<1> QED BY <1>1, <1>2, ChannelServiceStep DEF PipelineNext, pipelineVars

(* Racing connections lose no publish: one fails only while the broker is   *)
(* away or on a channel that the broker had closed.                         *)
THEOREM PipelinePublishFailsOnlyByOutage == PipelineSpec => PublishFailsOnlyByOutage
<1> DEFINE Failing(o) ==
             FailsToPublish(o) => \/ broker' = "down"
                                  \/ (channel # NoChannel /\ link[channel] = "closed")
<1>1. PipelineInit => ChannelInv
  BY DEF PipelineInit, ServiceInit, ChannelInv, InFlight
<1>2. PipelineInv /\ ChannelInv /\ [PipelineNext]_pipelineVars
         => [\A o \in Orders : Failing(o)]_publisherVars
  <2> SUFFICES ASSUME PipelineInv, ChannelInv, [PipelineNext]_pipelineVars,
                      NEW o \in Orders, FailsToPublish(o), broker' # "down"
               PROVE  channel # NoChannel /\ link[channel] = "closed"
    OBVIOUS
  <2> USE DEF PipelineInv, PipelineTypeOK, ServiceTypeOK, FailsToPublish
  <2>1. CASE \E c \in Callers : QueueDeclared(c)
    BY <2>1 DEF QueueDeclared, Publish, End, ChannelInv, Usable, Callers
  <2>2. CASE \E p \in Orders : InsertReturns(p)
    BY <2>2 DEF InsertReturns, Publish, Await, End, ChannelInv, Usable
  <2>3. CASE \E c \in Callers : ConnectFails(c)
    BY <2>3 DEF ConnectFails
  <2>4. CASE BrokerStops
    BY <2>4 DEF BrokerStops
  <2>5. CASE \/ ServiceStarts \/ ServiceCrash
             \/ \E p \in Orders : PostWhileDown(p) \/ PostInvalid(p) \/ Post(p)
                                  \/ LookupReturns(p) \/ InsertRuns(p) \/ InsertFails(p)
             \/ \E c \in Callers : Connected(c) \/ ChannelCreated(c)
    BY <2>5 DEF ServiceStarts, ServiceCrash, PostWhileDown, PostInvalid, Post, LookupReturns,
       InsertRuns, InsertFails, Connected, ChannelCreated, Await, End, serviceVars
  <2>6. CASE UNCHANGED serviceVars
    BY <2>6 DEF serviceVars
  <2> QED BY <2>1, <2>2, <2>3, <2>4, <2>5, <2>6 DEF PipelineNext, ServiceStep, pipelineVars
<1> QED
  BY <1>1, <1>2, ChannelStep, PipelineInvariant, PTL
  DEF PipelineSpec, PublishFailsOnlyByOutage

(* `channel` holds a closed channel, and no connection is being made whose  *)
(* channel could take its place.                                            *)
ChannelIsStale ==
    /\ channel # NoChannel /\ link[channel] = "closed"
    /\ \A c \in Callers : link[c] \notin Attempting

(* order-service's steps, on a stale channel. *)
LEMMA StaleServiceStep ==
    ASSUME PipelineTypeOK, ChannelInv, ChannelIsStale, ServiceStep
    PROVE  \/ ServiceCrash
           \/ ChannelIsStale' /\ UNCHANGED message
<1> USE CallerAssumption
    DEF PipelineTypeOK, ServiceTypeOK, ChannelInv, ChannelIsStale, Callers, Attempting, Usable
<1>1. CASE ServiceStarts
  BY <1>1 DEF ServiceStarts
<1>2. CASE \E o \in Orders : \/ PostWhileDown(o) \/ PostInvalid(o) \/ Post(o)
                             \/ LookupReturns(o) \/ InsertRuns(o) \/ InsertFails(o)
  BY <1>2 DEF PostWhileDown, PostInvalid, Post, LookupReturns, InsertRuns, InsertFails,
     serviceVars
<1>3. CASE \E o \in Orders : InsertReturns(o)
  BY <1>3 DEF InsertReturns, Publish
<1>4. CASE \E c \in Callers : Connected(c) \/ ConnectFails(c) \/ ChannelCreated(c)
                              \/ QueueDeclared(c)
  BY <1>4 DEF Connected, ConnectFails, ChannelCreated, QueueDeclared
<1> QED BY <1>1, <1>2, <1>3, <1>4 DEF ServiceStep

(* queue.js never looks whether `channel` is still open, and nothing else   *)
(* unsets it: from the moment that the broker has closed it, with no        *)
(* connection under way, order-service publishes nothing until its process  *)
(* ends, however long the broker has been back.                             *)
StaleUntilRestart ==
    [][ChannelIsStale =>
          \/ service' = "down"
          \/ /\ ChannelIsStale'
             /\ \A o \in Orders : message[o] = "unsent" => message'[o] = "unsent"]_pipelineVars

(* queue.js: the closed channel stays in `channel`, and nothing is          *)
(* published, until the process ends.                                       *)
THEOREM PipelineStaleUntilRestart == PipelineSpec => StaleUntilRestart
<1> DEFINE Sends(o) == message[o] = "unsent" /\ message'[o] # "unsent"
<1>1. ASSUME PipelineInv, ChannelInv, [PipelineNext]_pipelineVars, ChannelIsStale
      PROVE  service' = "down" \/ (ChannelIsStale' /\ \A o \in Orders : ~Sends(o))
  <2> USE <1>1 DEF PipelineInv, PipelineTypeOK, ServiceTypeOK
  <2>1. CASE ServiceStep
    BY <2>1, StaleServiceStep DEF ServiceCrash
  <2>2. CASE WorkerStep /\ UNCHANGED serviceVars
    <3>1. ChannelIsStale'
      BY <2>2 DEF ChannelIsStale, serviceVars
    <3>2. ASSUME NEW p \in Orders, JobStarts(p) \/ BrokerSettles(p)
          PROVE  \A o \in Orders : ~Sends(o)
      <4>1. message[p] # "unsent"
        BY <3>2 DEF JobStarts, MayDeliver, BrokerSettles, OrderInv, JobInv
      <4>2. \A o \in Orders \ {p} : message'[o] = message[o]
        BY <3>2 DEF JobStarts, BrokerSettles
      <4> QED BY <4>1, <4>2
    <3>3. ASSUME NEW p \in Orders, JobUpdates(p) \/ JobSucceeds(p) \/ JobFails(p)
          PROVE  UNCHANGED message
      BY <3>3 DEF JobUpdates, JobSucceeds, JobFails
    <3>4. WorkerExits => \A o \in Orders : ~Sends(o)
      BY DEF WorkerExits, Requeue
    <3>5. ASSUME \/ WorkerStarts \/ AttemptSucceeds \/ AttemptFails \/ BackoffEnds
                 \/ ConsumeStarts \/ ConsumerCancelled
          PROVE  UNCHANGED message
      BY <3>5 DEF WorkerStarts, AttemptSucceeds, AttemptFails, BackoffEnds, ConsumeStarts,
         ConsumerCancelled
    <3> QED BY <2>2, <3>1, <3>2, <3>3, <3>4, <3>5 DEF WorkerStep
  <2>3. CASE BrokerStops /\ ConnectionsClose
    <3>1. ChannelIsStale'
      BY <2>3, CallerAssumption
      DEF ConnectionsClose, ChannelIsStale, Callers, Attempting, Established, Usable
    <3>2. \A o \in Orders : ~Sends(o)
      BY <2>3 DEF BrokerStops, Requeue, LoseWire
    <3> QED BY <3>1, <3>2
  <2>4. CASE (BrokerStarts \/ \E o \in Orders : BrokerReceives(o)) /\ UNCHANGED serviceVars
    BY <2>4 DEF BrokerStarts, BrokerReceives, ChannelIsStale, serviceVars
  <2>5. CASE UNCHANGED pipelineVars
    BY <2>5 DEF ChannelIsStale, pipelineVars, serviceVars, queueVars
  <2> QED BY <2>1, <2>2, <2>3, <2>4, <2>5 DEF PipelineNext
<1>2. PipelineInit => ChannelInv
  BY DEF PipelineInit, ServiceInit, ChannelInv, InFlight
<1>3. PipelineInv /\ ChannelInv /\ [PipelineNext]_pipelineVars
         => [ChannelIsStale =>
               \/ service' = "down"
               \/ /\ ChannelIsStale'
                  /\ \A o \in Orders : message[o] = "unsent" => message'[o] = "unsent"]_pipelineVars
  BY <1>1
<1> QED
  BY <1>2, <1>3, ChannelStep, PipelineInvariant, PTL DEF PipelineSpec, StaleUntilRestart

-----------------------------------------------------------------------------
(* What must happen.  A request goes through its awaits in one direction,   *)
(* a fair step of its own ends each, and a fault only answers it sooner.    *)

Stage(o) ==
    IF reply[o] # NoReply THEN "answered"
    ELSE IF handler[o] = "insert" THEN IF row[o] = "absent" THEN "insert" ELSE "inserted"
    ELSE IF handler[o] = "connect" THEN link[o]
    ELSE handler[o]

(* The next stage of a request that nothing answers. *)
Following ==
    {<<"idle", "lookup">>, <<"lookup", "insert">>, <<"insert", "inserted">>,
     <<"inserted", "connecting">>, <<"connecting", "opening">>, <<"opening", "declaring">>}

Forward(o) ==
    Stage(o)' = Stage(o) \/ Stage(o)' = "answered" \/ <<Stage(o), Stage(o)'>> \in Following

(* order-service's steps take a request one stage forward, or answer it. *)
LEMMA ServiceStepForward ==
    ASSUME PipelineInv, ServiceStep, NEW o \in Orders
    PROVE  Forward(o)
<1> USE CallerAssumption
    DEF PipelineInv, PipelineTypeOK, ServiceTypeOK, OrderInv, HandlerInv, MessageInv,
        Forward, Stage, Following, NoReply, InFlight, Attempting, Callers, HandlerPhases, RowStatus
<1>1. CASE ServiceStarts
  BY <1>1 DEF ServiceStarts
<1>2. CASE ServiceCrash
  BY <1>2 DEF ServiceCrash
<1>3. ASSUME NEW p \in Orders, PostWhileDown(p) \/ PostInvalid(p) \/ Post(p) PROVE Forward(o)
  BY <1>3 DEF PostWhileDown, PostInvalid, Post, End, Await
<1>4. ASSUME NEW p \in Orders, LookupReturns(p) PROVE Forward(o)
  BY <1>4 DEF LookupReturns, End, Await
<1>5. ASSUME NEW p \in Orders, InsertRuns(p) \/ InsertFails(p) PROVE Forward(o)
  BY <1>5 DEF InsertRuns, InsertCommits, InsertFails, End, serviceVars
<1>6. ASSUME NEW p \in Orders, InsertReturns(p) PROVE Forward(o)
  BY <1>6 DEF InsertReturns, Publish, End, Await
<1>7. ASSUME NEW c \in Callers, Connected(c) \/ ConnectFails(c) PROVE Forward(o)
  BY <1>7 DEF Connected, ConnectFails, End
<1>8. ASSUME NEW c \in Callers, ChannelCreated(c) PROVE Forward(o)
  BY <1>8 DEF ChannelCreated
<1>9. ASSUME NEW c \in Callers, QueueDeclared(c) PROVE Forward(o)
  BY <1>9 DEF QueueDeclared, Publish, End
<1> QED BY <1>1, <1>2, <1>3, <1>4, <1>5, <1>6, <1>7, <1>8, <1>9 DEF ServiceStep

(* So does every step of the pipeline: no crash, no shutdown and no other   *)
(* request ever sends a request back.                                       *)
LEMMA RequestsGoForward ==
    ASSUME PipelineInv, [PipelineNext]_pipelineVars, NEW o \in Orders
    PROVE  Forward(o)
<1> USE DEF PipelineInv, PipelineTypeOK, OrderInv, Forward, Stage
<1>1. CASE ServiceStep
  BY <1>1, ServiceStepForward
<1>2. CASE WorkerStep /\ UNCHANGED serviceVars
  <2>1. row'[o] = "absent" <=> row[o] = "absent"
    BY <1>2 DEF WorkerStep, WorkerStarts, AttemptSucceeds, AttemptFails, BackoffEnds,
       ConsumeStarts, ConsumerCancelled, WorkerExits, JobStarts, JobUpdates, UpdateCommits,
       JobSucceeds, JobFails, BrokerSettles
  <2> QED BY <1>2, <2>1 DEF serviceVars
<1>3. CASE BrokerStops /\ ConnectionsClose
  BY <1>3 DEF BrokerStops, ConnectionsClose, HandlerInv, Attempting, InFlight, Established,
     Usable, NoReply, Callers
<1>4. CASE (BrokerStarts \/ \E p \in Orders : BrokerReceives(p)) /\ UNCHANGED serviceVars
  BY <1>4 DEF BrokerStarts, BrokerReceives, serviceVars
<1>5. CASE UNCHANGED pipelineVars
  BY <1>5 DEF pipelineVars, serviceVars
<1> QED BY <1>1, <1>2, <1>3, <1>4, <1>5 DEF PipelineNext

(* The await that a stage is at, and the step that ends it. *)
LEMMA AwaitsEnd ==
    ASSUME PipelineInv, NEW o \in Orders
    PROVE  /\ Stage(o) = "lookup" /\ LookupEnds(o) => Stage(o)' # "lookup"
           /\ \A at \in {"insert", "inserted"} :
                Stage(o) = at /\ InsertEnds(o) => Stage(o)' # at
           /\ \A at \in Attempting : Stage(o) = at /\ LinkGoesOn(o) => Stage(o)' # at
<1> USE CallerAssumption
    DEF PipelineInv, PipelineTypeOK, ServiceTypeOK, OrderInv, HandlerInv, MessageInv, Stage,
        NoReply, InFlight, Attempting, Callers, HandlerPhases, RowStatus, End, Await
<1>1. Stage(o) = "lookup" /\ LookupEnds(o) => Stage(o)' # "lookup"
  BY DEF LookupEnds, LookupReturns
<1>2. ASSUME NEW at \in {"insert", "inserted"}, Stage(o) = at, InsertEnds(o)
      PROVE  Stage(o)' # at
  BY <1>2 DEF InsertEnds, InsertRuns, InsertCommits, InsertReturns, InsertFails, Publish,
     serviceVars
<1>3. ASSUME NEW at \in Attempting, Stage(o) = at, LinkGoesOn(o) PROVE Stage(o)' # at
  BY <1>3 DEF LinkGoesOn, Connected, ConnectFails, ChannelCreated, QueueDeclared, Publish
<1> QED BY <1>1, <1>2, <1>3

(* The step that ends an await can be taken. *)
LEMMA AwaitsMayEnd ==
    ASSUME PipelineInv, NothingIsStranded, NEW o \in Orders
    PROVE  /\ Stage(o) = "lookup" => ENABLED <<LookupEnds(o)>>_pipelineVars
           /\ Stage(o) \in {"insert", "inserted"} => ENABLED <<InsertEnds(o)>>_pipelineVars
           /\ Stage(o) \in Attempting => ENABLED <<LinkGoesOn(o)>>_pipelineVars
<1>1. /\ Stage(o) = "lookup" => handler[o] = "lookup"
      /\ Stage(o) \in {"insert", "inserted"} => handler[o] = "insert"
      /\ Stage(o) \in Attempting => handler[o] = "connect"
  BY DEF PipelineInv, OrderInv, HandlerInv, PipelineTypeOK, ServiceTypeOK, Stage, Attempting,
     HandlerPhases
<1>2. RequestGoesOn(o)
  BY DEF NothingIsStranded
<1> QED BY <1>1, <1>2 DEF RequestGoesOn

(* The fairness of one request, or message. *)
LEMMA FairnessOfOne ==
    ASSUME NEW o \in Orders
    PROVE  PipelineFairness => RequestFairness(o) /\ LinkFairness(o) /\ MessageFairness(o)
<1>1. RequestsFairness => RequestFairness(o)
  BY DEF RequestsFairness
<1>2. LinksFairness => LinkFairness(o)
  BY DEF LinksFairness, Callers
<1>3. MessagesFairness => MessageFairness(o)
  BY DEF MessagesFairness
<1> QED BY <1>1, <1>2, <1>3, PTL DEF PipelineFairness

(* Every request that order-service takes is answered, whatever crashes,    *)
(* closes or fails.  That a fair step can be taken where its guard says so  *)
(* is a hypothesis, the invariant NothingIsStranded: it is about ENABLED,   *)
(* which the provers know nothing of.                                       *)
THEOREM RequestsAreAnswered ==
    FairPipelineSpec /\ []NothingIsStranded => EveryRequestIsAnswered
<1>1. ASSUME NEW o \in Orders
      PROVE  FairPipelineSpec /\ []NothingIsStranded => RequestIsAnswered(o)
  <2> DEFINE At(s) == Stage(o) = s
  <2>1. ASSUME PipelineInv, [PipelineNext]_pipelineVars
        PROVE  /\ At("lookup") => At("lookup")' \/ At("insert")' \/ At("answered")'
               /\ At("insert") => At("insert")' \/ At("inserted")' \/ At("answered")'
               /\ At("inserted") => At("inserted")' \/ At("connecting")' \/ At("answered")'
               /\ At("connecting") => At("connecting")' \/ At("opening")' \/ At("answered")'
               /\ At("opening") => At("opening")' \/ At("declaring")' \/ At("answered")'
               /\ At("declaring") => At("declaring")' \/ At("answered")'
    BY <2>1, RequestsGoForward DEF Forward, Following
  <2>2. ASSUME PipelineInv
        PROVE  /\ At("lookup") /\ <<LookupEnds(o)>>_pipelineVars => ~At("lookup")'
               /\ At("insert") /\ <<InsertEnds(o)>>_pipelineVars => ~At("insert")'
               /\ At("inserted") /\ <<InsertEnds(o)>>_pipelineVars => ~At("inserted")'
               /\ At("connecting") /\ <<LinkGoesOn(o)>>_pipelineVars => ~At("connecting")'
               /\ At("opening") /\ <<LinkGoesOn(o)>>_pipelineVars => ~At("opening")'
               /\ At("declaring") /\ <<LinkGoesOn(o)>>_pipelineVars => ~At("declaring")'
    BY <2>2, AwaitsEnd DEF Attempting
  <2>3. ASSUME PipelineInv, NothingIsStranded
        PROVE  /\ At("lookup") => ENABLED <<LookupEnds(o)>>_pipelineVars
               /\ At("insert") => ENABLED <<InsertEnds(o)>>_pipelineVars
               /\ At("inserted") => ENABLED <<InsertEnds(o)>>_pipelineVars
               /\ At("connecting") => ENABLED <<LinkGoesOn(o)>>_pipelineVars
               /\ At("opening") => ENABLED <<LinkGoesOn(o)>>_pipelineVars
               /\ At("declaring") => ENABLED <<LinkGoesOn(o)>>_pipelineVars
    BY <2>3, AwaitsMayEnd DEF Attempting
  <2>4. PipelineInv => (handler[o] = "lookup" => At("lookup"))
    BY DEF PipelineInv, OrderInv, HandlerInv, InFlight, Stage
  <2>5. PipelineInv /\ At("answered") => reply[o] # NoReply
    BY DEF PipelineInv, PipelineTypeOK, ServiceTypeOK, OrderInv, HandlerInv, HandlerPhases,
       LinkPhases, InFlight, Callers, Stage
  <2> HIDE DEF At
  <2> QED
    BY <2>1, <2>2, <2>3, <2>4, <2>5, FairnessOfOne, PipelineInvariant, PTL
    DEF FairPipelineSpec, PipelineSpec, RequestFairness, LinkFairness, RequestIsAnswered
<1> QED BY <1>1 DEF EveryRequestIsAnswered

-----------------------------------------------------------------------------
(* Once the faults have ceased.  A behaviour has at most MaxFaults of them, *)
(* so that they cease in all of them; but to conclude that is an induction  *)
(* over MaxFaults, and so it is a hypothesis here.                          *)

FaultsCease == <>[][UNCHANGED faults]_pipelineVars

At(phase) == worker = phase

(* What the worker and the broker do in a step without a fault. *)
LEMMA CalmStep ==
    ASSUME PipelineInv, [PipelineNext]_pipelineVars, [UNCHANGED faults]_pipelineVars
    PROVE  /\ broker = "up" => (broker = "up")'
           /\ At("down") => At("down")' \/ At("connecting")'
           /\ At("connecting") /\ broker = "up" => At("connecting")' \/ At("setup")'
           /\ At("connecting") => At("connecting")' \/ At("setup")' \/ At("backoff")' \/ At("down")'
           /\ At("backoff") => At("backoff")' \/ At("connecting")'
           /\ At("setup") => At("setup")' \/ At("consuming")'
           /\ At("consuming") => At("consuming")'
           /\ At("cancelled") => At("cancelled")'
<1> USE DEF At
<1>1. UNCHANGED faults
  BY DEF pipelineVars
<1>2. ASSUME NEW kind, Fault(kind) PROVE FALSE
  BY <1>1, <1>2 DEF Fault, PipelineInv, PipelineTypeOK
<1>3. CASE ServiceStep /\ UNCHANGED workerVars
  BY <1>3 DEF workerVars, ServiceStep, ServiceStarts, ServiceCrash, PostWhileDown, PostInvalid,
     Post, LookupReturns, InsertRuns, InsertFails, InsertReturns, Connected, ConnectFails,
     ChannelCreated, QueueDeclared
<1>4. CASE WorkerStep
  BY <1>2, <1>4 DEF WorkerStep, WorkerStarts, AttemptSucceeds, AttemptFails, BackoffEnds,
     ConsumeStarts, ConsumerCancelled, WorkerExits, JobStarts, JobUpdates, JobSucceeds,
     JobFails, BrokerSettles
<1>5. CASE BrokerStops
  BY <1>2, <1>5 DEF BrokerStops
<1>6. CASE (BrokerStarts \/ \E o \in Orders : BrokerReceives(o)) /\ UNCHANGED workerVars
  BY <1>6 DEF BrokerStarts, BrokerReceives, workerVars
<1>7. CASE UNCHANGED pipelineVars
  BY <1>7 DEF pipelineVars, queueVars, workerVars
<1> QED BY <1>3, <1>4, <1>5, <1>6, <1>7 DEF PipelineNext

(* The steps that end what the worker and the broker are at. *)
LEMMA ProcessesMoveOn ==
    /\ BrokerReturns => (broker = "up")'
    /\ At("down") /\ WorkerBegins => ~At("down")'
    /\ At("connecting") /\ AttemptEnds => ~At("connecting")'
    /\ At("backoff") /\ WorkerTriesAgain => ~At("backoff")'
    /\ At("setup") /\ WorkerConsumes => ~At("setup")'
BY DEF At, BrokerReturns, BrokerStarts, WorkerBegins, WorkerStarts, AttemptEnds,
       AttemptSucceeds, AttemptFails, WorkerTriesAgain, BackoffEnds, WorkerConsumes,
       ConsumeStarts

(* They can be taken. *)
LEMMA ProcessesMayMoveOn ==
    NothingIsStranded =>
        /\ broker = "down" => ENABLED <<BrokerReturns>>_pipelineVars
        /\ At("down") => ENABLED <<WorkerBegins>>_pipelineVars
        /\ At("connecting") => ENABLED <<AttemptEnds>>_pipelineVars
        /\ At("backoff") => ENABLED <<WorkerTriesAgain>>_pipelineVars
        /\ At("setup") => ENABLED <<WorkerConsumes>>_pipelineVars
BY DEF NothingIsStranded, ProcessesGoOn, At

LEMMA WorkerPhasesAre ==
    PipelineInv =>
        /\ broker = "up" \/ broker = "down"
        /\ \/ At("down") \/ At("connecting") \/ At("backoff") \/ At("setup")
           \/ At("consuming") \/ At("cancelled")
BY DEF PipelineInv, PipelineTypeOK, WorkerTypeOK, WorkerPhases, At

(* Without further faults the broker is there to stay, ... *)
LEMMA BrokerStays ==
    FairPipelineSpec /\ []NothingIsStranded /\ FaultsCease => <>[](broker = "up")
BY CalmStep, ProcessesMoveOn, ProcessesMayMoveOn, WorkerPhasesAre, PipelineInvariant, PTL
   DEF FairPipelineSpec, PipelineSpec, PipelineFairness, ProcessFairness, FaultsCease

(* ... and so is the worker, unless it was cancelled before. *)
LEMMA WorkerStays ==
    FairPipelineSpec /\ []NothingIsStranded /\ FaultsCease
        => <>[](At("consuming") \/ At("cancelled"))
BY CalmStep, ProcessesMoveOn, ProcessesMayMoveOn, WorkerPhasesAre, PipelineInvariant,
   BrokerStays, PTL
   DEF FairPipelineSpec, PipelineSpec, PipelineFairness, ProcessFairness, FaultsCease

(* connectWithRetry, the exit on a closed connection and the restart bring  *)
(* the worker back to a broker that is there, whatever had been going on.   *)
THEOREM WorkerComesBack ==
    FairPipelineSpec /\ []NothingIsStranded /\ FaultsCease => WorkerReturns
<1>1. At("consuming") \/ At("cancelled") => Ready
  BY DEF At, Ready
<1> QED BY <1>1, WorkerStays, PTL DEF WorkerReturns

-----------------------------------------------------------------------------
(* What becomes of a message.                                              *)

Job(o, phase) == job[o] = phase

(* A callback goes from the UPDATE to an ack or a nack, or straight to the  *)
(* nack, and is then heard of; a lost connection only ends it sooner.       *)
LEMMA JobsGoForward ==
    ASSUME PipelineInv, [PipelineNext]_pipelineVars, NEW o \in Orders
    PROVE  /\ Job(o, "processing") => \/ Job(o, "processing")' \/ Job(o, "updated")'
                                      \/ Job(o, "nacked")' \/ Job(o, "none")'
           /\ Job(o, "updated") => \/ Job(o, "updated")' \/ Job(o, "acked")'
                                   \/ Job(o, "nacked")' \/ Job(o, "none")'
           /\ Job(o, "acked") => Job(o, "acked")' \/ Job(o, "none")'
           /\ Job(o, "nacked") => Job(o, "nacked")' \/ Job(o, "none")'
<1> USE DEF PipelineInv, PipelineTypeOK, WorkerTypeOK, OrderInv, JobInv, Job
<1>1. CASE ServiceStep /\ UNCHANGED workerVars
  BY <1>1 DEF workerVars
<1>2. ASSUME NEW p \in Orders,
             JobStarts(p) \/ JobUpdates(p) \/ JobSucceeds(p) \/ JobFails(p) \/ BrokerSettles(p)
      PROVE  \/ job'[o] = job[o]
             \/ job[o] = "none"
             \/ job[o] = "processing" /\ job'[o] \in {"updated", "nacked"}
             \/ job[o] = "updated" /\ job'[o] \in {"acked", "nacked"}
             \/ job[o] \in {"acked", "nacked"} /\ job'[o] = "none"
  BY <1>2 DEF JobStarts, MayDeliver, JobUpdates, JobSucceeds, JobFails, BrokerSettles
<1>3. CASE \/ WorkerStarts \/ AttemptSucceeds \/ AttemptFails \/ BackoffEnds
           \/ ConsumeStarts \/ ConsumerCancelled \/ WorkerExits
  BY <1>3 DEF WorkerStarts, AttemptSucceeds, AttemptFails, BackoffEnds, ConsumeStarts,
     ConsumerCancelled, WorkerExits, Exit
<1>4. CASE Disconnect
  BY <1>4 DEF Disconnect, Exit, workerVars
<1>5. CASE UNCHANGED workerVars
  BY <1>5 DEF workerVars
<1>6. CASE WorkerStep
  BY <1>2, <1>3, <1>6 DEF WorkerStep
<1> QED BY <1>1, <1>4, <1>5, <1>6 DEF PipelineNext, pipelineVars

(* The steps that end what a callback is at. *)
LEMMA JobsEnd ==
    ASSUME PipelineInv, NEW o \in Orders
    PROVE  /\ Job(o, "processing") /\ JobGoesOn(o) => ~Job(o, "processing")'
           /\ Job(o, "updated") /\ JobGoesOn(o) => ~Job(o, "updated")'
           /\ Job(o, "acked") /\ JobSettles(o) => ~Job(o, "acked")'
           /\ Job(o, "nacked") /\ JobSettles(o) => ~Job(o, "nacked")'
BY DEF PipelineInv, PipelineTypeOK, WorkerTypeOK, Job, JobGoesOn, JobUpdates, JobSucceeds,
       JobFails, JobSettles, BrokerSettles

(* They can be taken. *)
LEMMA JobsMayEnd ==
    ASSUME NothingIsStranded, NEW o \in Orders
    PROVE  /\ Job(o, "processing") => ENABLED <<JobGoesOn(o)>>_pipelineVars
           /\ Job(o, "updated") => ENABLED <<JobGoesOn(o)>>_pipelineVars
           /\ Job(o, "acked") => ENABLED <<JobSettles(o)>>_pipelineVars
           /\ Job(o, "nacked") => ENABLED <<JobSettles(o)>>_pipelineVars
<1>1. MessageGoesOn(o)
  BY DEF NothingIsStranded
<1> QED BY <1>1 DEF MessageGoesOn, Job

In(o, place) == message[o] = place

(* A delivered message has a callback at one of its phases. *)
LEMMA UnackedIsJob ==
    ASSUME PipelineInv, NEW o \in Orders
    PROVE  In(o, "unacked") <=> \/ Job(o, "processing") \/ Job(o, "updated")
                                \/ Job(o, "acked") \/ Job(o, "nacked")
BY DEF PipelineInv, PipelineTypeOK, WorkerTypeOK, OrderInv, JobInv, JobPhases, Job, In

(* index.js acks or nacks every message it is delivered: no delivery stays  *)
(* open for ever and holds its place of the prefetch, over the failures of  *)
(* the update, the worker's death and the broker's, with no bound on them.  *)
DeliveryEnds(o) == In(o, "unacked") ~> ~In(o, "unacked")

(* Every delivery ends, with fair callbacks and a broker that reads acks. *)
THEOREM EveryDeliveryEnds ==
    ASSUME NEW o \in Orders
    PROVE  FairPipelineSpec /\ []NothingIsStranded => DeliveryEnds(o)
<1>1. ASSUME PipelineInv, [PipelineNext]_pipelineVars
      PROVE  /\ Job(o, "processing") => \/ Job(o, "processing")' \/ Job(o, "updated")'
                                        \/ Job(o, "nacked")' \/ Job(o, "none")'
             /\ Job(o, "updated") => \/ Job(o, "updated")' \/ Job(o, "acked")'
                                     \/ Job(o, "nacked")' \/ Job(o, "none")'
             /\ Job(o, "acked") => Job(o, "acked")' \/ Job(o, "none")'
             /\ Job(o, "nacked") => Job(o, "nacked")' \/ Job(o, "none")'
  BY <1>1, JobsGoForward
<1>2. PipelineInv =>
        /\ Job(o, "processing") /\ <<JobGoesOn(o)>>_pipelineVars => ~Job(o, "processing")'
        /\ Job(o, "updated") /\ <<JobGoesOn(o)>>_pipelineVars => ~Job(o, "updated")'
        /\ Job(o, "acked") /\ <<JobSettles(o)>>_pipelineVars => ~Job(o, "acked")'
        /\ Job(o, "nacked") /\ <<JobSettles(o)>>_pipelineVars => ~Job(o, "nacked")'
  BY JobsEnd
<1>3. NothingIsStranded =>
        /\ Job(o, "processing") => ENABLED <<JobGoesOn(o)>>_pipelineVars
        /\ Job(o, "updated") => ENABLED <<JobGoesOn(o)>>_pipelineVars
        /\ Job(o, "acked") => ENABLED <<JobSettles(o)>>_pipelineVars
        /\ Job(o, "nacked") => ENABLED <<JobSettles(o)>>_pipelineVars
  BY JobsMayEnd
<1>4. PipelineInv => (In(o, "unacked") <=> \/ Job(o, "processing") \/ Job(o, "updated")
                                           \/ Job(o, "acked") \/ Job(o, "nacked"))
  BY UnackedIsJob
<1>5. Job(o, "none") => ~(\/ Job(o, "processing") \/ Job(o, "updated")
                          \/ Job(o, "acked") \/ Job(o, "nacked"))
  BY DEF Job
<1> QED
  BY <1>1, <1>2, <1>3, <1>4, <1>5, FairnessOfOne, PipelineInvariant, PTL
  DEF FairPipelineSpec, PipelineSpec, MessageFairness, DeliveryEnds

(* A message that the broker has stays with the broker until the worker     *)
(* settles it; one on the wire gets there or is lost with its connection.   *)
LEMMA MessagesGoForward ==
    ASSUME PipelineInv, [PipelineNext]_pipelineVars, NEW o \in Orders
    PROVE  /\ In(o, "wire") => In(o, "wire")' \/ In(o, "ready")' \/ In(o, "lost")'
           /\ In(o, "ready") => In(o, "ready")' \/ In(o, "unacked")'
           /\ In(o, "unacked") => \/ In(o, "unacked")' \/ In(o, "ready")'
                                  \/ In(o, "settled")' \/ In(o, "dropped")'
           /\ In(o, "settled") => In(o, "settled")'
           /\ In(o, "dropped") => In(o, "dropped")'
           /\ In(o, "lost") => In(o, "lost")'
<1> USE DEF PipelineInv, PipelineTypeOK, OrderInv, HandlerInv, MessageInv, JobInv, In
<1>1. CASE message' = [p \in Orders |-> LoseWire(message[p])]
  BY <1>1 DEF LoseWire
<1>2. CASE message' = [p \in Orders |-> Requeue(message[p])]
  BY <1>2 DEF Requeue
<1>3. CASE BrokerStops
  BY <1>3 DEF BrokerStops, LoseWire, Requeue
<1>4. CASE \E p \in Orders : BrokerReceives(p)
  BY <1>4 DEF BrokerReceives
<1>5. CASE UNCHANGED message
  BY <1>5
<1>6. CASE \E p \in Orders : message[p] = "unsent" /\ message' = [message EXCEPT ![p] = "wire"]
  BY <1>6
<1>7. ASSUME NEW p \in Orders,
             JobStarts(p) \/ JobUpdates(p) \/ JobSucceeds(p) \/ JobFails(p) \/ BrokerSettles(p)
      PROVE  \/ message'[o] = message[o]
             \/ message[o] = "ready" /\ message'[o] = "unacked"
             \/ message[o] = "unacked" /\ message'[o] \in {"settled", "dropped"}
  BY <1>7 DEF JobStarts, MayDeliver, JobUpdates, JobSucceeds, JobFails, BrokerSettles
<1>8. CASE ServiceStep
  <2>1. ASSUME NEW p \in Orders, NEW ch, Publish(p, ch), reply[p] = NoReply
        PROVE  \/ UNCHANGED message
               \/ message[p] = "unsent" /\ message' = [message EXCEPT ![p] = "wire"]
    BY <2>1 DEF Publish, NoReply
  <2>2. CASE \E p \in Orders : InsertReturns(p)
    BY <1>5, <1>6, <2>1, <2>2 DEF InsertReturns, InFlight
  <2>3. CASE \E c \in Callers : QueueDeclared(c)
    BY <1>5, <1>6, <2>1, <2>3 DEF QueueDeclared, InFlight, Attempting
  <2>4. CASE ServiceCrash
    BY <1>1, <2>4 DEF ServiceCrash
  <2>5. CASE \/ ServiceStarts
             \/ \E p \in Orders : PostWhileDown(p) \/ PostInvalid(p) \/ Post(p)
                                  \/ LookupReturns(p) \/ InsertRuns(p) \/ InsertFails(p)
             \/ \E c \in Callers : Connected(c) \/ ConnectFails(c) \/ ChannelCreated(c)
    BY <1>5, <2>5 DEF ServiceStarts, PostWhileDown, PostInvalid, Post, LookupReturns,
       InsertRuns, InsertFails, Connected, ConnectFails, ChannelCreated
  <2> QED BY <1>8, <2>2, <2>3, <2>4, <2>5 DEF ServiceStep
<1>9. CASE WorkerStep
  <2>1. CASE \/ WorkerStarts \/ AttemptSucceeds \/ AttemptFails \/ BackoffEnds
             \/ ConsumeStarts \/ ConsumerCancelled
    BY <1>5, <2>1 DEF WorkerStarts, AttemptSucceeds, AttemptFails, BackoffEnds, ConsumeStarts,
       ConsumerCancelled
  <2>2. CASE WorkerExits
    BY <1>2, <2>2 DEF WorkerExits
  <2> QED BY <1>7, <1>9, <2>1, <2>2 DEF WorkerStep
<1> QED BY <1>3, <1>4, <1>5, <1>8, <1>9
        DEF PipelineNext, pipelineVars, queueVars, BrokerStarts

(* Without faults nothing is requeued. *)
LEMMA CalmMessages ==
    ASSUME PipelineInv, [PipelineNext]_pipelineVars, [UNCHANGED faults]_pipelineVars,
           NEW o \in Orders
    PROVE  In(o, "unacked") => In(o, "unacked")' \/ In(o, "settled")' \/ In(o, "dropped")'
<1> USE DEF PipelineInv, PipelineTypeOK, OrderInv, HandlerInv, MessageInv, JobInv, In
<1>1. UNCHANGED faults
  BY DEF pipelineVars
<1>2. ASSUME NEW kind, Fault(kind) PROVE FALSE
  BY <1>1, <1>2 DEF Fault
<1>3. CASE ServiceStep
  <2>1. message'[o] = message[o] \/ message[o] # "unacked"
    BY <1>2, <1>3 DEF ServiceStep, ServiceStarts, ServiceCrash, PostWhileDown, PostInvalid,
       Post, LookupReturns, InsertRuns, InsertFails, InsertReturns, Connected, ConnectFails,
       ChannelCreated, QueueDeclared, Publish, InFlight, Attempting, NoReply
  <2> QED BY <2>1
<1>4. CASE WorkerStep
  BY <1>2, <1>4 DEF WorkerStep, WorkerStarts, AttemptSucceeds, AttemptFails, BackoffEnds,
     ConsumeStarts, ConsumerCancelled, WorkerExits, JobStarts, MayDeliver, JobUpdates,
     JobSucceeds, JobFails, BrokerSettles
<1>5. CASE BrokerStops
  BY <1>2, <1>5 DEF BrokerStops
<1>6. CASE BrokerStarts \/ \E p \in Orders : BrokerReceives(p)
  BY <1>6 DEF BrokerStarts, BrokerReceives
<1> QED BY <1>3, <1>4, <1>5, <1>6 DEF PipelineNext, pipelineVars, queueVars

(* In the end the prefetch has room for what is ready.  It has, since there *)
(* are finitely many orders and every delivery ends: RoomComes derives it.  *)
RoomFor(o) == In(o, "ready") => MayDeliver(o)

RoomInTheEnd == \A o \in Orders : <>[]RoomFor(o)

(* Once the faults have ceased, a message in the queue is delivered and     *)
(* settled, unless the consumer was cancelled.                              *)
LEMMA ReadyIsSettled ==
    ASSUME NEW o \in Orders
    PROVE  FairPipelineSpec /\ []NothingIsStranded /\ FaultsCease /\ <>[]RoomFor(o)
              => (In(o, "ready") ~> In(o, "settled") \/ In(o, "dropped") \/ At("cancelled"))
<1>1. ASSUME PipelineInv, [PipelineNext]_pipelineVars
      PROVE  /\ In(o, "ready") => In(o, "ready")' \/ In(o, "unacked")'
             /\ In(o, "unacked") => \/ In(o, "unacked")' \/ In(o, "ready")'
                                    \/ In(o, "settled")' \/ In(o, "dropped")'
             /\ In(o, "settled") => In(o, "settled")'
             /\ In(o, "dropped") => In(o, "dropped")'
  BY <1>1, MessagesGoForward
<1>2. ASSUME PipelineInv, [PipelineNext]_pipelineVars, [UNCHANGED faults]_pipelineVars
      PROVE  In(o, "unacked") => In(o, "unacked")' \/ In(o, "settled")' \/ In(o, "dropped")'
  BY <1>2, CalmMessages
<1>3. PipelineInv /\ In(o, "ready") /\ <<JobBegins(o)>>_pipelineVars => ~In(o, "ready")'
  BY DEF PipelineInv, PipelineTypeOK, In, JobBegins, JobStarts
<1>4. NothingIsStranded /\ In(o, "ready") /\ RoomFor(o) /\ At("consuming")
         => ENABLED <<JobBegins(o)>>_pipelineVars
  <2>1. NothingIsStranded => MessageGoesOn(o)
    BY DEF NothingIsStranded
  <2> QED BY <2>1 DEF MessageGoesOn, RoomFor, At
<1>5. FairPipelineSpec /\ []NothingIsStranded => DeliveryEnds(o)
  BY EveryDeliveryEnds
<1>6. FairPipelineSpec => WF_pipelineVars(JobBegins(o))
  BY FairnessOfOne, PTL DEF FairPipelineSpec, MessageFairness
<1> QED
  BY <1>1, <1>2, <1>3, <1>4, <1>5, <1>6, CalmStep, WorkerStays, PipelineInvariant, PTL
  DEF FairPipelineSpec, PipelineSpec, FaultsCease, DeliveryEnds

(* No message is left in the queue or with the worker for ever, but by a    *)
(* cancelled consumer: index.js's acks and nacks, the requeue of what a     *)
(* dead worker had and the worker's return empty the queue.                 *)
THEOREM QueueIsDrained ==
    FairPipelineSpec /\ []NothingIsStranded /\ FaultsCease /\ RoomInTheEnd => QueueDrains
<1>1. ASSUME NEW o \in Orders
      PROVE  FairPipelineSpec /\ []NothingIsStranded /\ FaultsCease /\ RoomInTheEnd => Drains(o)
  <2>1. RoomInTheEnd => <>[]RoomFor(o)
    BY DEF RoomInTheEnd
  <2>2. /\ In(o, "ready") <=> message[o] = "ready"
        /\ In(o, "settled") \/ In(o, "dropped") <=> message[o] \in {"settled", "dropped"}
        /\ At("cancelled") <=> worker = "cancelled"
    BY DEF In, At
  <2>3. FairPipelineSpec /\ []NothingIsStranded /\ FaultsCease /\ <>[]RoomFor(o)
           => (In(o, "ready") ~> In(o, "settled") \/ In(o, "dropped") \/ At("cancelled"))
    BY ReadyIsSettled
  <2> QED BY <2>1, <2>2, <2>3, PTL DEF Drains
<1> QED BY <1>1 DEF QueueDrains

(* Where the broker cancels no consumer, no worker is left ready and idle. *)
LEMMA NeverCancelled ==
    ASSUME "cancel" \notin Faults
    PROVE  PipelineSpec => []~At("cancelled")
<1>1. PipelineInit => ~At("cancelled")
  BY DEF PipelineInit, WorkerInit, At
<1>2. PipelineInv /\ ~At("cancelled") /\ [PipelineNext]_pipelineVars => ~At("cancelled")'
  <2> SUFFICES ASSUME PipelineInv, ~At("cancelled"), [PipelineNext]_pipelineVars
               PROVE  ~At("cancelled")'
    OBVIOUS
  <2>1. CASE UNCHANGED workerVars
    BY <2>1 DEF workerVars, At
  <2>2. CASE WorkerStep
    BY <2>2 DEF WorkerStep, WorkerStarts, AttemptSucceeds, AttemptFails, BackoffEnds,
       ConsumeStarts, ConsumerCancelled, WorkerExits, Exit, Fault, JobStarts, JobUpdates,
       JobSucceeds, JobFails, BrokerSettles, At
  <2>3. CASE Disconnect
    BY <2>3 DEF Disconnect, Exit, workerVars, At
  <2> QED BY <2>1, <2>2, <2>3 DEF PipelineNext, pipelineVars
<1> QED BY <1>1, <1>2, PipelineInvariant, PTL DEF PipelineSpec

(* Every accepted order is completed in the end, unless its message is one  *)
(* of those the code gives up: the bytes of an unconfirmed publish, and     *)
(* what a failed job nacks without requeue.                                 *)
THEOREM AcceptedAreProcessed ==
    ASSUME "cancel" \notin Faults
    PROVE  FairPipelineSpec /\ []NothingIsStranded /\ FaultsCease /\ RoomInTheEnd
              => AcceptedIsProcessed
<1>1. ASSUME NEW o \in Orders
      PROVE  FairPipelineSpec /\ []NothingIsStranded /\ FaultsCease /\ RoomInTheEnd
                => IsProcessed(o)
  <2>1. RoomInTheEnd => <>[]RoomFor(o)
    BY DEF RoomInTheEnd
  <2>2. ASSUME PipelineInv, [PipelineNext]_pipelineVars
        PROVE  /\ In(o, "wire") => In(o, "wire")' \/ In(o, "ready")' \/ In(o, "lost")'
               /\ In(o, "unacked") => \/ In(o, "unacked")' \/ In(o, "ready")'
                                      \/ In(o, "settled")' \/ In(o, "dropped")'
    BY <2>2, MessagesGoForward
  <2>3. PipelineInv /\ In(o, "wire") /\ <<PublishArrives(o)>>_pipelineVars => ~In(o, "wire")'
    BY DEF PipelineInv, PipelineTypeOK, In, PublishArrives, BrokerReceives
  <2>4. NothingIsStranded /\ In(o, "wire") => ENABLED <<PublishArrives(o)>>_pipelineVars
    <3>1. NothingIsStranded => MessageGoesOn(o)
      BY DEF NothingIsStranded
    <3> QED BY <3>1 DEF MessageGoesOn, In
  <2>5. FairPipelineSpec => WF_pipelineVars(PublishArrives(o))
    BY FairnessOfOne, PTL DEF FairPipelineSpec, MessageFairness
  <2>6. FairPipelineSpec /\ []NothingIsStranded => DeliveryEnds(o)
    BY EveryDeliveryEnds
  <2>7. FairPipelineSpec /\ []NothingIsStranded /\ FaultsCease /\ <>[]RoomFor(o)
           => (In(o, "ready") ~> In(o, "settled") \/ In(o, "dropped") \/ At("cancelled"))
    BY ReadyIsSettled
  <2>8. PipelineInv /\ reply[o] = 202
           => \/ In(o, "wire") \/ In(o, "ready") \/ In(o, "unacked")
              \/ In(o, "settled") \/ In(o, "dropped") \/ In(o, "lost")
    BY DEF PipelineInv, PipelineTypeOK, OrderInv, MessageInv, Places, In
  <2>9. PipelineInv /\ (In(o, "settled") \/ In(o, "dropped") \/ In(o, "lost"))
           => row[o] = "completed" \/ message[o] \in {"lost", "dropped"}
    BY DEF PipelineInv, OrderInv, MessageInv, In
  <2> QED
    BY <2>1, <2>2, <2>3, <2>4, <2>5, <2>6, <2>7, <2>8, <2>9, NeverCancelled,
       PipelineInvariant, PTL
    DEF FairPipelineSpec, PipelineSpec, DeliveryEnds, IsProcessed
<1> QED BY <1>1 DEF AcceptedIsProcessed

-----------------------------------------------------------------------------
(* The prefetch has room in the end.                                       *)

(* Once the faults have ceased a delivery holds its place of the prefetch   *)
(* only until it is settled, and the message never asks for one again.      *)
SettlesForGood(p) ==
    <>[](In(p, "unacked") => <>[](In(p, "settled") \/ In(p, "dropped")))

(* index.js: each delivery that fills the prefetch makes room for good.     *)
THEOREM DeliveredIsSettled ==
    ASSUME NEW p \in Orders
    PROVE  FairPipelineSpec /\ []NothingIsStranded /\ FaultsCease => SettlesForGood(p)
<1>1. ASSUME PipelineInv, [PipelineNext]_pipelineVars
      PROVE  /\ In(p, "settled") => In(p, "settled")'
             /\ In(p, "dropped") => In(p, "dropped")'
  BY <1>1, MessagesGoForward
<1>2. ASSUME PipelineInv, [PipelineNext]_pipelineVars, [UNCHANGED faults]_pipelineVars
      PROVE  In(p, "unacked") => In(p, "unacked")' \/ In(p, "settled")' \/ In(p, "dropped")'
  BY <1>2, CalmMessages
<1>3. FairPipelineSpec /\ []NothingIsStranded => DeliveryEnds(p)
  BY EveryDeliveryEnds
<1> QED
  BY <1>1, <1>2, <1>3, PipelineInvariant, PTL
  DEF FairPipelineSpec, PipelineSpec, FaultsCease, DeliveryEnds, SettlesForGood

(* The messages that the worker is not through with, or that it never gets. *)
Through(p) == In(p, "settled") \/ In(p, "dropped")
Unsettled == {p \in Orders : ~Through(p)}

UnsettledAre(k) == Cardinality(Unsettled) = k
UnsettledAtLeast(k) == Cardinality(Unsettled) >= k

(* What is settled stays so. *)
LEMMA UnsettledNeverGrow ==
    ASSUME PipelineInv, [PipelineNext]_pipelineVars
    PROVE  /\ Cardinality(Unsettled) \in Nat /\ Cardinality(Unsettled') \in Nat
           /\ Cardinality(Unsettled') <= Cardinality(Unsettled)
           /\ Cardinality(Unsettled') = Cardinality(Unsettled) => Unsettled' = Unsettled
<1>1. Unsettled' \subseteq Unsettled
  BY MessagesGoForward DEF Unsettled, Through
<1>2. IsFiniteSet(Unsettled)
  <2>1. Unsettled \subseteq Orders
    BY DEF Unsettled
  <2> QED BY <2>1, OrdersAssumption, FS_Subset
<1> QED BY <1>1, <1>2, FS_Subset, FS_CardinalityType

(* A natural number that changes over time has a least value, and takes it. *)
(* That is so in every behaviour, whatever the number were; it is a         *)
(* hypothesis because the provers have no induction over the values of a    *)
(* variable.                                                                *)
Fewest(k) == []UnsettledAtLeast(k) /\ <>UnsettledAre(k)
FewestAreReached == \E k \in Nat : Fewest(k)

NoMoreFaults == [][UNCHANGED faults]_pipelineVars

Quiet(k, p) == NoMoreFaults /\ UnsettledAre(k) => ~In(p, "unacked")
AlwaysQuiet(k, p) == []Quiet(k, p)

(* When the fewest are left nothing is delivered any more, for it would be  *)
(* settled.                                                                 *)
LEMMA FewestAreNotDelivered ==
    ASSUME NEW k \in Nat, NEW p \in Orders
    PROVE  FairPipelineSpec /\ []NothingIsStranded /\ Fewest(k) => AlwaysQuiet(k, p)
<1>1. ASSUME PipelineInv, [PipelineNext]_pipelineVars, UnsettledAre(k)
      PROVE  /\ UnsettledAre(k)' \/ ~UnsettledAtLeast(k)'
             /\ UnsettledAre(k)' => (Through(p)' => Through(p))
  BY <1>1, UnsettledNeverGrow DEF UnsettledAre, UnsettledAtLeast, Unsettled
<1>2. ASSUME PipelineInv, [PipelineNext]_pipelineVars, [UNCHANGED faults]_pipelineVars
      PROVE  In(p, "unacked") => In(p, "unacked")' \/ Through(p)'
  BY <1>2, CalmMessages DEF Through
<1>3. In(p, "unacked") => ~Through(p)
  BY DEF In, Through
<1>4. FairPipelineSpec /\ []NothingIsStranded => DeliveryEnds(p)
  BY EveryDeliveryEnds
<1> QED
  BY <1>1, <1>2, <1>3, <1>4, PipelineInvariant, PTL
  DEF FairPipelineSpec, PipelineSpec, Fewest, NoMoreFaults, Quiet, AlwaysQuiet, DeliveryEnds

NothingDelivered == \A p \in Orders : ~In(p, "unacked")

(* index.js: the prefetch, however small and however many orders there are, *)
(* keeps no message from being delivered in the end, since every delivery   *)
(* is acked or nacked and neither brings it back.                           *)
THEOREM RoomComes ==
    FairPipelineSpec /\ []NothingIsStranded /\ FaultsCease /\ FewestAreReached => RoomInTheEnd
<1>1. ASSUME NEW k \in Nat
      PROVE  FairPipelineSpec /\ []NothingIsStranded /\ FaultsCease /\ Fewest(k)
                => <>[]NothingDelivered
  <2>1. FairPipelineSpec /\ []NothingIsStranded /\ Fewest(k)
          => \A p \in Orders : AlwaysQuiet(k, p)
    BY FewestAreNotDelivered
  <2>2. (\A p \in Orders : AlwaysQuiet(k, p)) => [](\A p \in Orders : Quiet(k, p))
    BY DEF AlwaysQuiet
  <2>3. (\A p \in Orders : Quiet(k, p))
          => (NoMoreFaults /\ UnsettledAre(k) => NothingDelivered)
    BY DEF Quiet, NothingDelivered
  <2>4. PipelineInv /\ [PipelineNext]_pipelineVars /\ UnsettledAre(k)
          => UnsettledAre(k)' \/ ~UnsettledAtLeast(k)'
    BY UnsettledNeverGrow DEF UnsettledAre, UnsettledAtLeast
  <2> QED
    BY <2>1, <2>2, <2>3, <2>4, PipelineInvariant, PTL
    DEF FairPipelineSpec, PipelineSpec, FaultsCease, NoMoreFaults, Fewest
<1>2. ASSUME NEW o \in Orders PROVE <>[]NothingDelivered => <>[]RoomFor(o)
  <2>1. ASSUME NothingDelivered PROVE RoomFor(o)
    <3>1. InPlace("unacked") = {}
      BY <2>1 DEF NothingDelivered, InPlace, In
    <3>2. Cardinality(InPlace("unacked")) = 0
      BY <3>1, FS_EmptySet
    <3> QED BY <3>2, PrefetchAssumption DEF RoomFor, In, MayDeliver
  <2> QED BY <2>1, PTL
<1> QED BY <1>1, <1>2 DEF FewestAreReached, RoomInTheEnd

(* The prefetch contended for: every accepted order is completed, or its    *)
(* message given up, however many orders share however small a prefetch.    *)
THEOREM AcceptedAreProcessedWithContention ==
    ASSUME "cancel" \notin Faults
    PROVE  FairPipelineSpec /\ []NothingIsStranded /\ FaultsCease /\ FewestAreReached
              => AcceptedIsProcessed
BY RoomComes, AcceptedAreProcessed
=============================================================================
