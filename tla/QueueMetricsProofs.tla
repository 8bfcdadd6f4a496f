------------------------- MODULE QueueMetricsProofs -------------------------
(***************************************************************************)
(* The counters of QueueMetrics are the sizes of sets of orders, and the   *)
(* alert's window holds samples of whatever rate() has seen.               *)
(***************************************************************************)
EXTENDS QueueMetrics, OrderPipelineProofs

(* The orders whose sendToQueue has returned. *)
Sent == {o \in Orders : message[o] # "unsent"}

(* An order's delivery was counted, and its message is gone or about to be. *)
IsHandled(o) == message[o] \in {"settled", "dropped"} \/ job[o] \in {"acked", "nacked"}
Handled == {o \in Orders : IsHandled(o)}

(* The orders whose publish failed, and what that leaves of them. *)
Stranded == {o \in Orders : handler[o] = "publishError"}
StrandedInv == \A o \in Stranded : reply[o] = 500 /\ row[o] # "absent"

CountersInv ==
    /\ published \in [success : Nat, error : Nat]
    /\ consumed \in [completed : Nat, failed : Nat]
    /\ recounted \in Nat
    /\ published.success = Cardinality(Sent)
    /\ published.error = Cardinality(Stranded)
    /\ consumed.completed + consumed.failed = recounted + Cardinality(Handled)

(* What rate() has seen of a series has samples. *)
WindowInv ==
    /\ exposed \subseteq sampled /\ sampled \subseteq Series
    /\ increase \in [Series -> Nat]
    /\ \A s \in Series : increase[s] > 0 => s \in sampled

MeteredInv == PipelineInv /\ StrandedInv /\ CountersInv /\ WindowInv

-----------------------------------------------------------------------------
(* Sizes of sets of orders.                                                *)

(* Every set of orders is finite, so that its size is a number. *)
LEMMA OrderSets ==
    ASSUME NEW S, S \subseteq Orders
    PROVE  IsFiniteSet(S) /\ Cardinality(S) \in Nat
BY OrdersAssumption, FS_Subset, FS_CardinalityType

(* The size of a union of two sets with nothing in common. *)
LEMMA DisjointUnion ==
    ASSUME NEW S, NEW T, S \subseteq Orders, T \subseteq Orders, S \cap T = {}
    PROVE  Cardinality(S \cup T) = Cardinality(S) + Cardinality(T)
<1>1. /\ IsFiniteSet(S) /\ IsFiniteSet(T)
      /\ Cardinality(S) \in Nat /\ Cardinality(T) \in Nat
  BY OrderSets
<1>2. Cardinality(S \cup T) = Cardinality(S) + Cardinality(T) - Cardinality(S \cap T)
  BY <1>1, FS_Union
<1>3. Cardinality(S \cap T) = 0
  BY FS_EmptySet
<1> QED BY <1>1, <1>2, <1>3

-----------------------------------------------------------------------------
(* What a step does to one order, seen from the counters.                  *)

(* A message is sent once and stays sent; a delivery is handled by an ack   *)
(* or a nack, for good unless its message comes back; a failed publish      *)
(* stays failed.                                                            *)
Moves(o) ==
    /\ message[o] # "unsent" => message'[o] # "unsent"
    /\ message[o] = "unsent" => message'[o] \in {"unsent", "wire"}
    /\ IsHandled(o)' <=> \/ IsHandled(o) /\ o \notin CountedInVain
                         \/ o \in Completed \cup Failed
    /\ handler[o] = "publishError" => handler'[o] = "publishError"
    /\ FailsToPublish(o) => reply'[o] = 500
    /\ row[o] # "absent" => row'[o] # "absent"

(* order-service moves an order until it is sent, and jobs not at all. *)
LEMMA ServiceMoves ==
    ASSUME PipelineInv, ServiceStep, UNCHANGED workerVars, NEW o \in Orders
    PROVE  Moves(o)
<1> USE DEF PipelineInv, PipelineTypeOK, ServiceTypeOK, WorkerTypeOK, OrderInv, JobInv,
        HandlerInv, Moves, IsHandled, CountedInVain, Completed, Failed, FailsToPublish,
        workerVars, InFlight, Attempting, NoReply
<1>1. CASE ServiceStarts
  BY <1>1 DEF ServiceStarts
<1>2. CASE ServiceCrash
  BY <1>2 DEF ServiceCrash, LoseWire
<1>3. CASE \E p \in Orders : PostWhileDown(p) \/ PostInvalid(p) \/ Post(p)
  BY <1>3 DEF PostWhileDown, PostInvalid, Post, Await, End
<1>4. CASE \E p \in Orders : LookupReturns(p) \/ InsertRuns(p) \/ InsertFails(p)
  BY <1>4 DEF LookupReturns, InsertRuns, InsertFails, InsertCommits, Await, End, serviceVars
<1>5. ASSUME NEW p \in Orders, InsertReturns(p) PROVE Moves(o)
  BY <1>5 DEF InsertReturns, Publish, Await, End, MessageInv
<1>6. ASSUME NEW c \in Callers, Connected(c) \/ ChannelCreated(c) PROVE Moves(o)
  BY <1>6 DEF Connected, ChannelCreated
<1>7. ASSUME NEW c \in Callers, ConnectFails(c) PROVE Moves(o)
  BY <1>7 DEF ConnectFails, End
<1>8. ASSUME NEW c \in Callers, QueueDeclared(c) PROVE Moves(o)
  BY <1>8 DEF QueueDeclared, Publish, End, MessageInv
<1> QED BY <1>1, <1>2, <1>3, <1>4, <1>5, <1>6, <1>7, <1>8 DEF ServiceStep

(* The worker moves jobs; its end brings their messages back. *)
LEMMA WorkerMoves ==
    ASSUME PipelineInv, WorkerStep, UNCHANGED serviceVars, NEW o \in Orders
    PROVE  Moves(o)
<1> USE DEF PipelineInv, PipelineTypeOK, WorkerTypeOK, OrderInv, JobInv, Moves, IsHandled,
        CountedInVain, Completed, Failed, FailsToPublish, ActiveJobs, serviceVars
<1>1. CASE WorkerStarts \/ AttemptSucceeds \/ AttemptFails \/ BackoffEnds
           \/ ConsumeStarts \/ ConsumerCancelled
  BY <1>1 DEF WorkerStarts, AttemptSucceeds, AttemptFails, BackoffEnds, ConsumeStarts,
     ConsumerCancelled
<1>2. CASE WorkerExits
  BY <1>2 DEF WorkerExits, Exit, Requeue
<1>3. CASE \E p \in Orders : JobStarts(p)
  BY <1>3 DEF JobStarts, MayDeliver
<1>4. CASE \E p \in Orders : JobUpdates(p)
  BY <1>4 DEF JobUpdates, UpdateCommits
<1>5. CASE \E p \in Orders : JobSucceeds(p) \/ JobFails(p)
  BY <1>5 DEF JobSucceeds, JobFails
<1>6. CASE \E p \in Orders : BrokerSettles(p)
  BY <1>6 DEF BrokerSettles
<1> QED BY <1>1, <1>2, <1>3, <1>4, <1>5, <1>6 DEF WorkerStep

(* Every step of the pipeline moves every order so. *)
LEMMA OrdersMove ==
    ASSUME PipelineInv, PipelineNext, NEW o \in Orders
    PROVE  Moves(o)
<1> USE DEF PipelineInv, PipelineTypeOK, ServiceTypeOK, WorkerTypeOK, OrderInv, JobInv, Moves,
        IsHandled, CountedInVain, Completed, Failed, FailsToPublish, ActiveJobs
<1>1. CASE (\E p \in Orders : BrokerReceives(p)) /\ UNCHANGED <<serviceVars, workerVars>>
  BY <1>1 DEF BrokerReceives, serviceVars, workerVars
<1>2. CASE BrokerStops /\ ConnectionsClose /\ Disconnect
  BY <1>2 DEF BrokerStops, ConnectionsClose, Disconnect, Exit, Connection, Requeue, LoseWire,
     workerVars, HandlerInv, Attempting
<1>3. CASE BrokerStarts /\ UNCHANGED <<serviceVars, workerVars>>
  BY <1>3 DEF BrokerStarts, serviceVars, workerVars
<1> QED BY <1>1, <1>2, <1>3, ServiceMoves, WorkerMoves DEF PipelineNext

(* A request that was answered because its publish failed stays answered so. *)
LEMMA RepliesStay ==
    ASSUME PipelineInv, PipelineNext, NEW o \in Orders, handler[o] = "publishError"
    PROVE  reply'[o] = reply[o]
<1> USE DEF PipelineInv, PipelineTypeOK, ServiceTypeOK, OrderInv, HandlerInv, InFlight, Attempting
<1>1. CASE ServiceStep
  BY <1>1 DEF ServiceStep, ServiceStarts, ServiceCrash, PostWhileDown, PostInvalid, Post,
     LookupReturns, InsertRuns, InsertFails, InsertReturns, Connected, ConnectFails,
     ChannelCreated, QueueDeclared, Publish, Await, End, serviceVars
<1>2. CASE BrokerStops /\ ConnectionsClose
  BY <1>2 DEF ConnectionsClose
<1>3. CASE UNCHANGED serviceVars
  BY <1>3 DEF serviceVars
<1> QED BY <1>1, <1>2, <1>3 DEF PipelineNext

(* A publish fails after the INSERT has returned its row. *)
LEMMA FailsWithARow ==
    ASSUME PipelineInv, PipelineNext, NEW o \in Orders, FailsToPublish(o)
    PROVE  row'[o] # "absent"
<1> USE DEF PipelineInv, PipelineTypeOK, ServiceTypeOK, OrderInv, HandlerInv, InFlight,
        Attempting, FailsToPublish
<1>1. CASE ServiceStep
  BY <1>1 DEF ServiceStep, ServiceStarts, ServiceCrash, PostWhileDown, PostInvalid, Post,
     LookupReturns, InsertRuns, InsertFails, InsertReturns, Connected, ConnectFails,
     ChannelCreated, QueueDeclared, Publish, Await, End, serviceVars
<1>2. CASE BrokerStops /\ ConnectionsClose
  BY <1>2 DEF BrokerStops, ConnectionsClose
<1>3. CASE UNCHANGED serviceVars
  BY <1>3 DEF serviceVars
<1> QED BY <1>1, <1>2, <1>3 DEF PipelineNext

-----------------------------------------------------------------------------
(* The three parts of the invariant over a step of the pipeline.           *)

(* A failed publish leaves an order that is in Postgres, and answered 500. *)
LEMMA StrandedStep ==
    ASSUME PipelineInv, StrandedInv, PipelineNext
    PROVE  StrandedInv'
<1> SUFFICES ASSUME NEW o \in Orders, handler'[o] = "publishError"
             PROVE  reply'[o] = 500 /\ row'[o] # "absent"
  BY DEF StrandedInv, Stranded
<1>1. Moves(o)
  BY OrdersMove
<1>2. CASE handler[o] = "publishError"
  <2>1. reply[o] = 500 /\ row[o] # "absent"
    BY <1>2 DEF StrandedInv, Stranded
  <2>2. reply'[o] = reply[o]
    BY <1>2, <2>1, RepliesStay
  <2> QED BY <1>1, <2>1, <2>2 DEF Moves
<1>3. CASE handler[o] # "publishError"
  <2>1. reply'[o] = 500
    BY <1>1, <1>3 DEF Moves, FailsToPublish
  <2>2. row'[o] # "absent"
    BY <1>3, FailsWithARow DEF FailsToPublish
  <2> QED BY <2>1, <2>2
<1> QED BY <1>2, <1>3

(* Every publish that returns is one more sent order, every failed one one *)
(* more stranded order.                                                    *)
LEMMA PublishedStep ==
    ASSUME PipelineInv, CountersInv, PipelineNext, CountPublished
    PROVE  /\ published' \in [success : Nat, error : Nat]
           /\ published'.success = Cardinality(Sent')
           /\ published'.error = Cardinality(Stranded')
<1>1. \A o \in Orders : Moves(o)
  BY OrdersMove
<1>2. /\ Sent \subseteq Orders /\ Written \subseteq Orders
      /\ Stranded \subseteq Orders /\ NotWritten \subseteq Orders
  BY DEF Sent, Written, Stranded, NotWritten
<1>3. Sent' = Sent \cup Written /\ Sent \cap Written = {}
  BY <1>1 DEF Sent, Written, Moves
<1>4. Stranded' = Stranded \cup NotWritten /\ Stranded \cap NotWritten = {}
  BY <1>1 DEF Stranded, NotWritten, FailsToPublish, Moves
<1>5. Cardinality(Written) \in Nat /\ Cardinality(NotWritten) \in Nat
  BY <1>2, OrderSets
<1>6. Cardinality(Sent') = Cardinality(Sent) + Cardinality(Written)
  BY <1>2, <1>3, DisjointUnion
<1>7. Cardinality(Stranded') = Cardinality(Stranded) + Cardinality(NotWritten)
  BY <1>2, <1>4, DisjointUnion
<1> QED BY <1>5, <1>6, <1>7 DEF CountersInv, CountPublished

(* Every ack and nack is one more handled order; one that comes back is     *)
(* counted among the recounted, and is not handled any more.                *)
LEMMA ConsumedStep ==
    ASSUME PipelineInv, CountersInv, PipelineNext, CountConsumed
    PROVE  /\ consumed' \in [completed : Nat, failed : Nat]
           /\ recounted' \in Nat
           /\ consumed'.completed + consumed'.failed = recounted' + Cardinality(Handled')
<1> DEFINE kept == Handled \ CountedInVain
<1>1. \A o \in Orders : Moves(o)
  BY OrdersMove
<1>2. /\ Handled \subseteq Orders /\ kept \subseteq Orders /\ CountedInVain \subseteq Orders
      /\ Completed \subseteq Orders /\ Failed \subseteq Orders
  BY DEF Handled, CountedInVain, Completed, Failed, ActiveJobs
<1>3. Handled = kept \cup CountedInVain /\ kept \cap CountedInVain = {}
  BY DEF Handled, IsHandled, CountedInVain
<1>4. Completed \cap Failed = {}
  BY DEF Completed, Failed
<1>5. kept \cap (Completed \cup Failed) = {}
  BY DEF Handled, IsHandled, Completed, Failed, ActiveJobs, PipelineInv, OrderInv, JobInv
<1>6. Handled' = kept \cup (Completed \cup Failed)
  BY <1>1, <1>2 DEF Moves, Handled
<1>7. /\ Cardinality(Completed) \in Nat /\ Cardinality(Failed) \in Nat
      /\ Cardinality(CountedInVain) \in Nat /\ Cardinality(kept) \in Nat
  BY <1>2, OrderSets
<1>8. Cardinality(Handled) = Cardinality(kept) + Cardinality(CountedInVain)
  BY <1>2, <1>3, DisjointUnion
<1>9. Cardinality(Completed \cup Failed) = Cardinality(Completed) + Cardinality(Failed)
  BY <1>2, <1>4, DisjointUnion
<1>10. Cardinality(Handled')
          = Cardinality(kept) + Cardinality(Completed) + Cardinality(Failed)
  <2>1. Cardinality(Handled') = Cardinality(kept) + Cardinality(Completed \cup Failed)
    BY <1>2, <1>5, <1>6, DisjointUnion
  <2> QED BY <1>7, <1>9, <2>1
<1>11. /\ consumed'.completed = consumed.completed + Cardinality(Completed)
       /\ consumed'.failed = consumed.failed + Cardinality(Failed)
       /\ recounted' = recounted + Cardinality(CountedInVain)
  BY DEF CountConsumed
<1>12. consumed' \in [completed : Nat, failed : Nat] /\ recounted' \in Nat
  BY <1>7 DEF CountConsumed, CountersInv
<1> QED BY <1>7, <1>8, <1>10, <1>11, <1>12 DEF CountersInv

(* A count is seen only of a series that has samples, which it keeps. *)
LEMMA WindowStep ==
    ASSUME PipelineInv, WindowInv, Scrape
    PROVE  WindowInv'
<1>1. Counts \in [Series -> Nat]
  <2>1. /\ Written \subseteq Orders /\ Completed \subseteq Orders /\ Failed \subseteq Orders
    BY DEF Written, Completed, Failed, ActiveJobs
  <2>2. Cardinality(Written) \in Nat /\ Cardinality(Completed \cup Failed) \in Nat
    BY <2>1, OrderSets
  <2> QED BY <2>2 DEF Counts
<1>2. Running \subseteq Series
  BY DEF Running
<1>3. exposed' \subseteq sampled' /\ sampled' \subseteq Series
  BY <1>2 DEF Scrape, WindowInv
<1>4. increase' \in [Series -> Nat]
  BY <1>1 DEF Scrape, WindowInv
<1>5. ASSUME NEW s \in Series, increase'[s] > 0 PROVE s \in sampled'
  BY <1>1, <1>5 DEF Scrape, WindowInv
<1> QED BY <1>3, <1>4, <1>5 DEF WindowInv

-----------------------------------------------------------------------------
(* Nothing is counted at the start. *)
LEMMA MeteredInitInv == MeteredInit => MeteredInv
<1> SUFFICES ASSUME MeteredInit PROVE MeteredInv
  OBVIOUS
<1>1. PipelineInv
  BY InitInv DEF MeteredInit
<1>2. Sent = {} /\ Stranded = {} /\ Handled = {}
  BY DEF MeteredInit, PipelineInit, QueueInit, ServiceInit, WorkerInit, Sent, Stranded,
         Handled, IsHandled
<1>3. StrandedInv
  BY <1>2 DEF StrandedInv
<1>4. CountersInv
  BY <1>2, FS_EmptySet DEF MeteredInit, CountersInv
<1>5. WindowInv
  BY DEF MeteredInit, WindowInv
<1> QED BY <1>1, <1>3, <1>4, <1>5 DEF MeteredInv

(* Every step, the window's included, preserves the invariant. *)
LEMMA MeteredStepInv == MeteredInv /\ [MeteredNext]_meteredVars => MeteredInv'
<1> SUFFICES ASSUME MeteredInv, [MeteredNext]_meteredVars PROVE MeteredInv'
  OBVIOUS
<1>1. CASE MeteredStep
  <2>1. PipelineInv'
    BY <1>1, StepInv DEF MeteredStep, MeteredInv
  <2>2. StrandedInv'
    BY <1>1, StrandedStep DEF MeteredStep, MeteredInv
  <2>3. CountersInv'
    BY <1>1, PublishedStep, ConsumedStep DEF MeteredStep, MeteredInv, CountersInv
  <2>4. WindowInv'
    BY <1>1, WindowStep DEF MeteredStep, MeteredInv
  <2> QED BY <2>1, <2>2, <2>3, <2>4 DEF MeteredInv
<1>2. CASE UNCHANGED <<pipelineVars, counterVars>>
  <2>1. PipelineInv'
    BY <1>2, StepInv DEF MeteredInv
  <2>2. StrandedInv' /\ CountersInv'
    BY <1>2 DEF MeteredInv, pipelineVars, counterVars, serviceVars, workerVars, queueVars,
       StrandedInv, Stranded, CountersInv, Sent, Handled, IsHandled
  <2> QED
    <3>1. CASE WindowMoves
      BY <2>1, <2>2, <3>1 DEF WindowMoves, MeteredInv, WindowInv
    <3>2. CASE UNCHANGED windowVars
      BY <2>1, <2>2, <3>2 DEF MeteredInv, WindowInv, windowVars
    <3> QED BY <1>1, <3>1, <3>2 DEF MeteredNext, meteredVars
<1> QED BY <1>1, <1>2 DEF MeteredNext, WindowMoves, meteredVars

(* The counters are the sizes of the sets they count, whatever dies. *)
THEOREM MeteredInvariant == MeteredSpec => []MeteredInv
BY MeteredInitInv, MeteredStepInv, PTL DEF MeteredSpec

(* Every variable has its type; a series that is exposed has samples. *)
THEOREM MeteredTypeCorrect == MeteredSpec => []MeteredTypeOK
<1>1. MeteredInv => MeteredTypeOK
  BY DEF MeteredInv, PipelineInv, CountersInv, WindowInv, MeteredTypeOK
<1> QED BY <1>1, MeteredInvariant, PTL

(* Published minus consumed is the backlog, but for what came back after it *)
(* was counted: over every death, outage and redelivery.                    *)
THEOREM BacklogIsMeasured == MeteredSpec => []PublishedMinusConsumedIsBacklog
<1>1. MeteredInv => PublishedMinusConsumedIsBacklog
  <2> SUFFICES ASSUME MeteredInv PROVE PublishedMinusConsumedIsBacklog
    OBVIOUS
  <2>1. Sent = Backlog \cup Handled /\ Backlog \cap Handled = {}
    BY DEF Sent, Backlog, Handled, IsHandled, ActiveJobs, MeteredInv, PipelineInv,
       PipelineTypeOK, WorkerTypeOK, OrderInv, JobInv, Places, JobPhases
  <2>2. Backlog \subseteq Orders /\ Handled \subseteq Orders
    BY DEF Backlog, Handled
  <2>3. Cardinality(Sent) = Cardinality(Backlog) + Cardinality(Handled)
    BY <2>1, <2>2, DisjointUnion
  <2>4. Cardinality(Backlog) \in Nat /\ Cardinality(Handled) \in Nat
    BY <2>2, OrderSets
  <2> QED
    BY <2>3, <2>4 DEF MeteredInv, CountersInv, PublishedMinusConsumedIsBacklog
<1> QED BY <1>1, MeteredInvariant, PTL

(* Each counted publish error is one order left pending in Postgres. *)
THEOREM ErrorsAreStranded == MeteredSpec => []ErrorsAreStrandedOrders
<1>1. MeteredInv => ErrorsAreStrandedOrders
  <2> SUFFICES ASSUME MeteredInv PROVE ErrorsAreStrandedOrders
    OBVIOUS
  <2>1. ASSUME NEW o \in Stranded PROVE row[o] = "pending" /\ message[o] = "unsent"
    BY <2>1 DEF Stranded, StrandedInv, MeteredInv, PipelineInv, PipelineTypeOK, OrderInv,
       MessageInv, RowStatus
  <2>2. Stranded = {o \in Orders : /\ handler[o] = "publishError"
                                   /\ row[o] = "pending"
                                   /\ message[o] = "unsent"}
    BY <2>1 DEF Stranded
  <2> QED BY <2>2 DEF MeteredInv, CountersInv, ErrorsAreStrandedOrders
<1> QED BY <1>1, MeteredInvariant, PTL

(* With `or vector(0)` the alert has a result whenever the window saw more  *)
(* published than consumed, also when no worker has been there to expose    *)
(* a series.                                                                *)
THEOREM AlertIsNeverSilenced == MeteredSpec => []BacklogAlertIsNeverSilenced
<1>1. MeteredInv => BacklogAlertIsNeverSilenced
  <2> SUFFICES ASSUME MeteredInv, increase["published"] > increase["consumed"]
               PROVE  BacklogGrowing
    BY DEF BacklogAlertIsNeverSilenced
  <2>1. "published" \in Series /\ "consumed" \in Series
    BY DEF Series
  <2>2. increase["published"] \in Nat /\ increase["consumed"] \in Nat
    BY <2>1 DEF MeteredInv, WindowInv
  <2>3. SumRate("published") = {increase["published"]}
    BY <2>1, <2>2 DEF MeteredInv, WindowInv, SumRate
  <2>4. PICK c \in OrZero(SumRate("consumed")) : c = increase["consumed"] \/ c = 0
    BY DEF OrZero, SumRate
  <2>5. increase["published"] - c > 0
    BY <2>2, <2>4
  <2>6. increase["published"] - c \in Minus(SumRate("published"), OrZero(SumRate("consumed")))
    BY <2>3, <2>4 DEF Minus
  <2> QED BY <2>5, <2>6 DEF BacklogGrowing
<1> QED BY <1>1, MeteredInvariant, PTL

(* Counting and scraping change nothing: what is proved of the pipeline is  *)
(* so of the metered one, which the run pipeline_safety checks it on.       *)
THEOREM MeteredIsPipeline == MeteredSpec => PipelineSpec
<1>1. MeteredInit => PipelineInit
  BY DEF MeteredInit
<1>2. [MeteredNext]_meteredVars => [PipelineNext]_pipelineVars
  BY DEF MeteredNext, MeteredStep, WindowMoves, meteredVars
<1> QED BY <1>1, <1>2, PTL DEF MeteredSpec, PipelineSpec
=============================================================================
