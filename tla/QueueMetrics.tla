---------------------------- MODULE QueueMetrics ----------------------------
(***************************************************************************)
(* What order-service counts as published and the worker as consumed       *)
(* (queue.js, worker/src/index.js, metrics.js of both), on top of          *)
(* OrderPipeline, and the alert that compares the two,                     *)
(* QueueBacklogGrowing in observability/prometheus/rules/alerts.yml.       *)
(*                                                                         *)
(* The counters are taken as increase() sums them up, over the restarts of *)
(* their processes.  Prometheus (external) is reduced to what the alert's  *)
(* window holds: a series has samples there if a process exposed it at     *)
(* some time in it, which takes a first count, and rate() sees what was    *)
(* counted after the first sample.  Scrapes come in time for every count.  *)
(***************************************************************************)
EXTENDS OrderPipeline, Integers

VARIABLES
    published,  \* queue_messages_published_total, by status
    consumed,   \* queue_messages_consumed_total, by status
    recounted,  \* the deliveries counted for messages that came back
    exposed,    \* the series that a running process exposes
    sampled,    \* the series with samples in the alert's window
    increase    \* increase[s]: what rate() sees of series s in the window

counterVars == <<published, consumed, recounted>>
windowVars == <<exposed, sampled, increase>>
meteredVars == <<pipelineVars, counterVars, windowVars>>

Series == {"published", "consumed"}

MeteredInit ==
    /\ PipelineInit
    /\ published = [success |-> 0, error |-> 0]
    /\ consumed = [completed |-> 0, failed |-> 0]
    /\ recounted = 0
    /\ exposed = {} /\ sampled = {}
    /\ increase = [s \in Series |-> 0]

-----------------------------------------------------------------------------
(* What a step of the pipeline has to do with the queue.                   *)

(* The orders whose sendToQueue returns. *)
Written == {o \in Orders : message[o] = "unsent" /\ message'[o] = "wire"}

(* The orders whose publishOrderCreated throws. *)
NotWritten == {o \in Orders : FailsToPublish(o)}

(* The jobs that reach channel.ack, and channel.nack. *)
Completed == {o \in Orders : job[o] = "updated" /\ job'[o] = "acked"}
Failed == {o \in ActiveJobs : job'[o] = "nacked"}

(* The messages that come back though they were counted. *)
CountedInVain == {o \in Orders : job[o] \in {"acked", "nacked"} /\ message'[o] = "ready"}

CountPublished_Finally ==
    published' = [success |-> published.success + Cardinality(Written),
                  error   |-> published.error + Cardinality(Written \cup NotWritten)]

CountPublished ==
    published' = [success |-> published.success + Cardinality(Written),
                  error   |-> published.error + Cardinality(NotWritten)]

CountConsumed_OnlyCompleted ==
    /\ consumed' = [consumed EXCEPT !.completed = @ + Cardinality(Completed)]
    /\ recounted' = recounted + Cardinality(CountedInVain)

CountConsumed ==
    /\ consumed' = [completed |-> consumed.completed + Cardinality(Completed),
                    failed    |-> consumed.failed + Cardinality(Failed)]
    /\ recounted' = recounted + Cardinality(CountedInVain)

(* What is counted under the labels that the alert selects. *)
Counts == [s \in Series |-> IF s = "published" THEN Cardinality(Written)
                            ELSE Cardinality(Completed \cup Failed)]

(* The series of processes that run after the step. *)
Running == {s \in Series : IF s = "published" THEN service' = "up" ELSE worker' # "down"}

(* A process exposes a series from its first count to its end; a count is  *)
(* seen against an earlier sample, be it of the process before this one.   *)
Scrape ==
    /\ exposed' = (exposed \cup {s \in Series : Counts[s] > 0}) \cap Running
    /\ sampled' = sampled \cup exposed'
    /\ increase' = [s \in Series |-> IF s \in sampled THEN increase[s] + Counts[s]
                                     ELSE increase[s]]

(* The window moves on: what was counted falls out of it, and the samples  *)
(* of series that no process exposes any more.                             *)
WindowMoves ==
    /\ sampled' = exposed
    /\ increase' = [s \in Series |-> 0]
    /\ UNCHANGED <<pipelineVars, counterVars, exposed>>

MeteredStep == PipelineNext /\ CountPublished /\ CountConsumed /\ Scrape

MeteredNext == MeteredStep \/ WindowMoves

MeteredSpec == MeteredInit /\ [][MeteredNext]_meteredVars

-----------------------------------------------------------------------------
(* PromQL.  A vector without labels has one value or, if no series has     *)
(* samples, none; an operator has a result where both its sides do.        *)
SumRate(s) == IF s \in sampled THEN {increase[s]} ELSE {}

Minus(v, w) == {x - y : x \in v, y \in w}

OrZero_Left_Out(v) == v

OrZero(v) == IF v = {} THEN {0} ELSE v

(* QueueBacklogGrowing's expression, its threshold taken as 0. *)
BacklogGrowing == \E d \in Minus(SumRate("published"), OrZero(SumRate("consumed"))) : d > 0

-----------------------------------------------------------------------------
MeteredTypeOK ==
    /\ PipelineTypeOK
    /\ published \in [success : Nat, error : Nat]
    /\ consumed \in [completed : Nat, failed : Nat]
    /\ recounted \in Nat
    /\ exposed \subseteq sampled /\ sampled \subseteq Series
    /\ increase \in [Series -> Nat]

(* The messages that are published and not handled yet, or lost. *)
Backlog ==
    {o \in Orders : message[o] \in {"wire", "ready", "lost"}
                    \/ (message[o] = "unacked" /\ o \in ActiveJobs)}

(* alerts.yml and the runbook take published minus consumed for the backlog *)
(* since the broker's own depth is gone.  It is off by exactly two things,  *)
(* whatever dies: publishes that were lost stay in it for ever, and a       *)
(* delivery that was counted before its message came back hides one.        *)
PublishedMinusConsumedIsBacklog ==
    published.success + recounted
        = consumed.completed + consumed.failed + Cardinality(Backlog)

(* alerts.yml, QueuePublishFailures: what is counted as an error is an      *)
(* order written to Postgres that stays pending, each such count one of     *)
(* them; racing connections and outages included.                           *)
ErrorsAreStrandedOrders ==
    published.error = Cardinality({o \in Orders : /\ handler[o] = "publishError"
                                                  /\ row[o] = "pending"
                                                  /\ message[o] = "unsent"})

(* alerts.yml: a worker that is down long enough makes its series absent,   *)
(* not zero, and the alert must not stop evaluating then: whenever more was *)
(* published in the window than consumed, the expression has a result.      *)
BacklogAlertIsNeverSilenced ==
    increase["published"] > increase["consumed"] => BacklogGrowing
=============================================================================
