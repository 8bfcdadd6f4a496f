# PulseOps, verified

TLA+ models of the PulseOps services, the TLC runs that check them on small
instances, and TLAPS proofs of the properties that matter most for every value
of the constants. The source of truth is the JavaScript under `services/`, with
`db/init.sql` and `docker-compose.yml`; the docs and incident reports are read
for what they claim of it.

## The system

A client talks to the **gateway**, a proxy in front of **user-service** and
**order-service**. `POST /orders` looks the user up (Redis first, then
user-service), inserts a `pending` row, publishes `order.created` to RabbitMQ and
answers 202. The **worker** consumes the queue, sets the row to `completed` and
acknowledges. An **alert-receiver** keeps Alertmanager's deliveries. Every
container has `restart: unless-stopped`.

| Component | State it keeps | Operations | Talks to |
|---|---|---|---|
| gateway | gauge and counters of its requests | proxy, 502 on a dead upstream | services, over HTTP |
| order-service handler | one await per request | POST, GET, health | user lookup, Postgres, queue |
| AMQP channel (`queue.js`) | module variable `channel` | connect, warm up, publish | RabbitMQ |
| user lookup (`userClient.js`, `redisClient.js`) | one shared Redis client | connect, GET, fetch, SET | Redis, user-service |
| user-service | `users` rows, a pool of connections | POST, GET | Postgres |
| orders table | `orders.status` | INSERT pending, UPDATE completed | |
| worker | retry counter, ready flag, running jobs | connect with retry, consume, ack/nack, exit | RabbitMQ, Postgres |
| error middleware, metrics | gauge, counters | per request | Prometheus, which scrapes |
| correlation ids, logging | the id in each request's `AsyncLocalStorage` | adopt or make, forward, log | HTTP header, AMQP `correlationId` |
| alert-receiver | the last 200 deliveries | webhook, GET /alerts | Alertmanager |
| Prometheus/Alertmanager rules, dashboards, tracing | configuration | | |

What is hard in it: handlers interleave at every `await` and share module
variables; the broker may drop both connections at once; any process may die
between two awaits and comes back empty; publishes are not confirmed; timers
abandon Redis operations that go on; a statement may commit though its caller saw
it fail. What makes each part correct:

- **order-service**: the reply, the row and the message agree, whatever fails;
  every request is answered; racing connections lose no publish.
- **queue and worker**: no more jobs than the prefetch; nothing acknowledged that
  is not completed; nothing left in the queue; the worker returns after outages.
- **user lookup**: Redis fails no lookup; every lookup ends; a registered user is
  never "not found"; one dial of the shared client at a time.
- **user-service**: each registration is told its own outcome; no connection of the
  pool is lost to failed statements, and nobody waits for a place that is free.
- **metrics**: what the SLI counts is what clients saw; published minus consumed is the
  backlog, and its alert always has a result; misses are the load on user-service, and no
  lookup degrades uncounted.
- **correlation ids**: the id a client is returned finds every line about its order, in
  every service, and none about another.
- **alert-receiver**: the log is the newest deliveries, in order, bounded.

`PROJECT.json` lists every component, the ones not modelled with the reason, and
the hazards at their lines.

## Modules

| Module | Models | Extends |
|---|---|---|
| `Environment` | faults, and the bound on them | |
| `OrderStore` | the orders table (`db/init.sql`) | |
| `OrderQueue` | the queue `order.created` and the bytes on the way to it | OrderStore, Environment |
| `OrderService` | `routes/orders.js` POST, `queue.js`, the gateway's 502 | OrderQueue |
| `Worker` | `worker/src/index.js`, `health.js` | OrderQueue |
| `OrderPipeline` | both, sharing the table and the queue | OrderService, Worker |
| `OrderLifecycle` | the abstract promise to the client | |
| `UserLookup` | `userClient.js`, `redisClient.js` and what they see of user-service | |
| `UserDirectory` | the abstract promise of `getUser` to its caller | |
| `LookupMetrics` | the cache and dependency counters of `userClient.js` | UserLookup |
| `QueueMetrics` | the published and consumed counters, the window of Prometheus, the alert QueueBacklogGrowing | OrderPipeline |
| `Correlation` | the request ids of the `logger.js` of all services, on an order's way | Environment |
| `UserAccounts` | user-service's POST `/users` over its Postgres pool (`users.js`, `db.js`) | Environment |
| `HttpEdge` | the gateway's proxy, the services' middleware and error codes, their metrics | Environment |
| `AlertHistory` | `alert-receiver/src/index.js` | |
| `OrderPipelineProofs`, `QueueMetricsProofs`, `UserLookupProofs`, `LookupMetricsProofs`, `UserAccountsProofs`, `HttpEdgeProofs`, `AlertHistoryProofs`, `CorrelationProofs` | theorems | |
| `MC*` | instances for TLC | |

**OrderService.** `handler[o]` is the await the handler of request `o` is at;
`reply[o]` the status sent. An action is what Node runs between two awaits:
`Post` up to `getUser`, `LookupReturns` up to the INSERT, `InsertReturns` up to the
publish or to `amqplib.connect`, and so on. `connectQueue` keeps no promise of a
connection being made, so each caller has a `link` of its own and `channel` names
the caller whose channel was assigned last. `sendToQueue` and the 202 lie in one
turn of the event loop and are one action. The INSERT's commit (`InsertRuns`) is
apart from its result (`InsertReturns`, `InsertFails`): an INSERT may fail after it
committed. An error that no one listens to kills the process (`ServiceCrash`, as
does SIGTERM); a close the broker asks for (`BrokerStops`) leaves the process up
with the closed channel in `channel`.

**OrderQueue.** `message[o]` is the one place the message about `o` is in: unsent,
on the wire, ready, unacknowledged, settled, dropped (nack without requeue) or
lost (buffered when the connection broke). The queue is durable and the messages
persistent, so a broker restart keeps what it had. The queue's order is left out: no
handler depends on it.

**Worker.** `worker` is what `main()` is at, `attempt` the loop variable of
`connectWithRetry`, `job[o]` what the callback does with `o`'s message. The process
exits when its last attempt fails or its connection closes, and is started again.

**OrderLifecycle** says what a client may rely on: one outcome, once; an order is
processed only if its client was told "accepted". `OrderPipeline` implements it with
`told` mapped to the class of the reply and `order` to the row.

**UserLookup.** `step[l]` is the await lookup `l` is at; `client` the shared Redis
client (`closed` is `isOpen = false`), `dials` the unsettled calls of `connect()`,
`writes` the SETs given to the client and not run yet, an abandoned one among them.
A timer may win at any moment. That a client which gave up can be opened again is an
assumption on node-redis, backed by incident-002, where the cache worked again after
an outage far longer than all the strategy's delays. In `OrderService` the lookup is
one step with three outcomes, those `outcome` can have here. `GET /health` shares the
client and has no timer: `check[c]` waits for `connect` or `ping` until the client
answers or gives up.

**UserDirectory** is what the handler of POST /orders may rely on: "notFound" is told only
of a user who was absent when the lookup began, "user" only of one who is registered, and
anything else is an error. `UserLookup` implements it with `absent` mapped to the lookups
that began before their user's registration and `told` to `outcome`, whose two failures
("error", and "refused" for a 4xx that is not a 404, which getUser throws as well) look alike
to the handler. A 404 that is on the
way (`missing`) may be overtaken by the registration; a cached entry, a late SET or a
timer never makes the answer wrong.

**LookupMetrics** conjoins to each step of `UserLookup` what it counts. Sets such as `Misses`
are the lookups that pass a place of getUser in the step: when the client gives up, many
at once. A call is counted by the status it is answered with: every 4xx is a `client_error`,
the 404 that fails nothing and the others, which fail the lookup. A SET that Redis runs may still be counted as an error, for its timer may win.

**QueueMetrics** does the same to `OrderPipeline`, with the counters as `increase()` sums
them up over restarts. Prometheus (external) is reduced to what the alert's window holds: a
series has samples if a process exposed it there, and a process exposes it after its first
count. A PromQL vector is a set of at most one value, so that an absent series makes
`present - absent` empty. The threshold of the alert is taken as 0.

**Correlation.** Each request is with a client's id or without, through the gateway or past
it (docker-compose.yml publishes order-service's port). `Adopt` is the middleware of all
three services; the context of a request is what `AsyncLocalStorage` gives its handler, and
the id of an event of the shared Redis client ('error') is that of the request whose
connect() created the socket. A line is a record of the service, the id it carries and the request it is about.

**UserAccounts.** `register[r]` is how far a registration is: waiting in the pool's line,
connecting, with its statement running, or with the result on the way. The pool is pg's
(external) as `db.js` configures it, that is not at all: ten connections, a line without
limit or timeout. A statement that fails costs its connection (`Removed`), and the line is
looked at again when that connection has ended (`ConnectionEnds`), so a request that comes
in between may overtake. `db.js` listens to no 'error' of the pool: when Postgres goes away
(`PostgresStops`) an idle connection ends the process. A statement that commits after its
process died is the same to everybody else as one that committed just before, and is
modelled as that.

**HttpEdge.** `gateway[r]` and `serving[r]` are how far request `r` is in either tier,
`input[r]` what it asks for, reduced to what the code of the answer depends on. The
gateway measures before it proxies; a service parses the body first (`Receive`,
`Reject`) and measures then (`Accept`). Counting and lowering the gauge happen on
'finish' (`GatewayFinishes`, `Respond`), which a client that hangs up prevents
(`Abort`). Whether the gateway then closes its connection to the service depends on
the Node version, so `HangUp` may or may not happen, and a handler that goes on with a
closed connection ends without 'finish' (`HandlerEnds`). A service's death resets its
metrics; the gateway's own death is left out, for no client would be left to compare with.

**AlertHistory.** The webhook has no `await`, so a delivery is one action: `unshift`
and the cut to `MAX_HISTORY`. Alertmanager (external) delivers until it reads a 2xx,
so a lost answer stores a notification twice. `deliveries` is a history variable, all
that was stored since the process started.

Definitions named `X_Something` before a definition `X` are plausible bugs of `X`;
each property of a passing run is violated under one of them.

## Runs

| Run | Instance | Shows |
|---|---|---|
| `pipeline_safety` | `QueueMetrics`: 2 orders and the warm-up, prefetch 1, 2 attempts, 2 faults, a window that moves at any time | reply, row and message agree; racing `connectQueue`s fail no publish; the counters measure the backlog, the alert is never silenced; refinement of OrderLifecycle |
| `pipeline_liveness` | the same with 1 fault, no cancellation | nothing under way is without a step, every request is answered, every accepted order processed or given up |
| `worker` | 3 messages, prefetch 2, 2 faults with cancellation | jobs bounded by the prefetch; the worker returns, ready means connected, the queue drains |
| `lookup` | `LookupMetrics`: 2 lookups of 1 id, 1 health check, 2 outages | stale and late writes, dials, error isolation, counters; refinement of UserDirectory; lookups and health checks end |
| `correlation` | 2 orders, one id that a client chose and fresh ones, deaths of order-service and the worker | one query finds an order's lines, and no other's |
| `accounts` | 4 requests, 2 emails, 2 connections, 1 fault | replies against rows, the pool's limit and line, every request answered |
| `edge_metrics` | 3 requests of every kind, 2 deaths of the service | counters and gauges against what clients saw |
| `alert_history` | 3 notifications, 5 deliveries, history of 2, 1 restart | the history is the newest deliveries |
| `stale_channel`, `publish_failure`, `active_gauge`, `client_fault` | | violations: see Findings |

Bounds. Two orders are enough for one to be redelivered while another publishes, and
with the warm-up there are three callers of `connectQueue`: two race while the third
finds the channel. `pipeline_safety` is the largest run, with 0.9 million states. Two lookups are enough for the late SET of one to meet the other. Four
registrations over two connections let one wait in the line while a fourth takes the
place of a removed connection before it. Two faults let a crash hit the recovery from another.
`MaxAttempts` is 2 instead of 10, `MaxRetries` 1 instead of 5 and `PoolMax` 2 instead of
10: the code tests these counters at the limit only, so one turn that is not the last
and one that is cover both branches. Three HTTP requests let one be answered, one
abandoned and one in flight when the service dies; a history of 2 overflows three times
in 5 deliveries. Faults are bounded by `MaxFaults`, outages of Redis by `MaxOutages`.
`CHECK_DEADLOCK FALSE` because the requests of an instance run out. Runs without
liveness use the permutations of requests as symmetry, the others none.

Fairness. In `OrderPipeline` and `Worker`: processes are restarted (docker-compose.yml),
awaits return, the broker comes back (`ProcessFairness`, and per request, connection and
message `RequestFairness`, `LinkFairness`, `MessageFairness`). The lookup's return is bounded by
`userClient.js`'s timers; that a query and a connection attempt end at all is Postgres's
and TCP's doing, for neither `pg` nor `amqplib` is given a timeout. No client and no
fault is fair, and `BrokerStops` needs none. `UserLookup` assumes only that a lookup's
own step is taken, which its timers see to (`AwaitFairness`); `HealthChecksEnd` names what
more it needs, that a dial ends and that a Redis that is up answers (`ClientFairness`), as
its own hypothesis, so that
`EveryLookupEnds` does not profit from it. `UserAccounts` assumes of each request that its
connect, statement and result come about (`RegistrationFairness`) and that ended
connections are noticed, not that Postgres or the process returns. A cancelled consumer (`ConsumerCancelled`) ignores the null message and stays ready
without consuming; `QueueDrains` says so, and the pipeline's liveness leaves that fault
out.

## Findings

- `stale_channel`: after a close the broker asks for, every publish fails on the
  closed channel in `channel` until the process restarts (`queue.js:8`), while the
  runbook and a comment say it connects again on demand.
- `publish_failure`: a failed publish is a 500 to the client (`queue.js:46`), while
  the runbook calls it silent.
- `active_gauge`: a client that disconnects leaves `http_active_requests` one too high
  until the restart (`metrics.js`, 'finish' only). `GaugesOffByAborts` says by how much.
- `client_fault`: an id or a quantity that only Postgres rejects is answered 500 and
  burns the error budget, which the SLO rules say a client cannot do.

Smaller disagreements, read off the models without a run of their own: the strategy
gives up after the seventh failed attempt (`redisClient.js:15`), incident-002 says five;
misses do not call `connect()` again while the client is open (`redisClient.js:26`), so
attempts do not pile up as docs/load-testing.md says (`OneDialAtATime`); a body that does
not parse is in none of a service's metrics, for `express.json()` comes before the
middleware that counts; a delivered notification is gone from `/alerts` after a restart
or 200 deliveries, while docs/alerting.md calls it the ground truth; a call whose body
breaks off is counted a success (`userClient.js:107`) and one that user-service refuses,
as it does an id that Express cannot decode, a `client_error` (`userClient.js:102`), though
both lookups fail, so DownstreamCallFailures sees neither (`CallErrorsAreFailedLookups` says
by how much the two differ); the Redis client's 'error' lines carry the id of the request that dialled,
which `logger.js:8` calls the current request's; WorkerProcessingFailures says that nacked
orders never reach "completed" (alerts.yml), but an UPDATE that fails after its commit, or
the redelivery of a completed order, is nacked too; published minus consumed, which the
runbook takes for the backlog, keeps lost publishes for ever and misses one message for each
delivery that was counted and came back (`PublishedMinusConsumedIsBacklog`).

## Proofs

For every value of the constants that meets the named assumptions (finite sets of
orders, lookups and requests, `Prefetch`, `MaxFaults` natural, `MaxAttempts`, `PoolMax`
and `MaxHistory` positive).

**OrderPipelineProofs.** `PipelineInv` is the inductive invariant: the type
invariant, `HandlerInv` (what reply, row and link go with each await),
`MessageInv` (a message is unsent exactly until a 202; a settled one has a completed
row), `JobInv` (a running job's message is unacknowledged, its row is not absent, and
only a connected worker has any) and `AttemptInv`. None of the safety properties is
inductive alone: that an order is processed only after a 202 needs that jobs have
messages and messages were published. The proof has one step per action; the broker's
shutdown, which moves both sides at once, is a lemma. `ConsumerInv` is the part of it
that the worker keeps by itself, under whatever fills its queue
(`WorkerKeepsItsPromises`). `PrefetchInv` bounds the
unacknowledged messages, on top of `PipelineInv`, with the library's facts on
cardinality. The refinement goes by the same cases: every action is one action of
OrderLifecycle, a stutter, or a `Fail` of the requests in flight.
`PipelineStaleUntilRestart` is the finding of `stale_channel` as a theorem: once the broker
has closed the channel in `channel` and no connection is under way, no step but the
process's end changes that, and none publishes.

Its second half proves what must happen, from `PipelineInv` and the fairness of single
actions. `Stage(o)` is how far a request is; no step of anybody's takes it back
(`RequestsGoForward`), its own fair step takes it on (`AwaitsEnd`), so that it is answered
over any number of crashes and outages (`RequestsAreAnswered`). Deliveries end in the same
way (`EveryDeliveryEnds`: every callback acks, nacks or dies). For the worker's return, the
draining of the queue and the completion of accepted orders the faults have to stop
(`FaultsCease`, as the bound of `Environment` makes them) and the prefetch has to have room
for what is ready (`RoomInTheEnd`). That it has is `RoomComes`. Once the faults have ceased a
delivery is settled and stays so (`DeliveredIsSettled`), which leaves one message less; the
number of unsettled messages never grows (`UnsettledNeverGrow`), so that when it is at its
least nothing is delivered any more (`FewestAreNotDelivered`) and the prefetch is empty.
`AcceptedAreProcessedWithContention` puts it together: for any number of orders, faults and
any prefetch every accepted order is completed or given up.

**UserLookupProofs.** `LookupInv`: whatever is cached or about to be written is a
registered user (`CacheInv`), a lookup past the beginning has a subject
(`SubjectInv`), and dials are one, of a client that is connecting (`DialInv`).

`SubjectInv` also says that a 404 on its way is of a lookup older than the registration:
with `CacheInv` it gives the refinement of UserDirectory, every await being a right reply or
a stutter. getUser's awaits have one direction, which the client's giving up or connecting
only takes further (`AwaitsGoForward`): with the timers, every lookup ends
(`EveryLookupEndsInTime`). A health check waits on a client that is open (`CheckInv`), so
with a Redis that comes back to stay it is answered (`HealthChecksEndWithRedis`). With one
that does not, the strategy answers. Only a failed attempt changes `retries` while a check
waits for a client that dials, whatever the lookups and the other checks do, and an outage
rejects the PINGs of a connected one (`AttemptCounts`, `ReadyInv`). Each wait therefore
leads to one more attempt, an answer or a connection (`AttemptsRunOut`): the step of an
induction over `retries`. For the limit that `redisClient.js` sets, five, its seven steps
are put together in `HealthChecksEndWithFiveRetries`, with no hypothesis about Redis at all.

**LookupMetricsProofs** and **QueueMetricsProofs** show that each counter is the size of a
set of lookups or orders. What a step does to one of them is a lemma by cases (`NextMoves`,
`Moves`); the sets then grow by disjoint parts, whose sizes are what is counted. Both build
on the inductive invariants of the modules they meter: a hit is never "not found" because
of `CacheInv`. `WindowInv` adds that rate() has seen only series with samples.

**CorrelationProofs.** The inductive invariant says that the id of a request is the same in
its header, its contexts, its message and its lines once it was adopted, and that fresh
ids are those of one request.

**UserAccountsProofs.** `RowsInv` (types, the line without repetition, which row each phase
goes with) gives `ReplyTellsWhoseRow` without counting. `PlaceInv` says that the places
held, plus the connections that are ending, cover the pool while anybody waits; it is
stronger than `NobodyWaitsForAFreePlace`, which is not inductive: an ending connection may
find its place taken. Its steps are lemmas on the size of the set of holders.

What must happen there rests on one direction of a registration (`Onward`: no step of
anybody's turns it back) and on `AnsweredInv`, that nobody is through without a reply. With
the fairness of its own steps, whoever has a connection is answered (`HoldersAreAnswered`).
The line is first come, first served (`AccountsLineKeepsItsOrder`); while it is not empty
somebody holds a connection or a place is free that the pool will look at
(`SomebodyIsServed`), and in either case the line moves or a newcomer comes (`LineMovesOn`).
A newcomer may take the place that was freed, but each comes once: `Load`, which counts the
requests yet to come twice and those in the line once, never grows, and while it stays so do
the line and the newcomers (`LoadNeverGrows`). At its least nobody can be waiting, for
`LineMovesOn` would make it less (`NobodyIsBlockedForEver`, `WaitersAreServed`). So
`EveryRegistrationIsAnswered` is proved for any number of requests (`EverybodyIsAnswered`).

**HttpEdgeProofs.** `EdgeInv` makes every gauge and counter the size of a set of
requests, and says which phases of the two tiers go together. Each action moves one
request in or out of those sets, so the proof rests on two lemmas about the cardinality
of a finite set that gains or loses one member. That the SLI misses no service error
needs more: the answers the service has counted are a subset of those told or untold.

**AlertHistoryProofs.** `UnshiftTruncated` says what unshifting and cutting does to a
sequence that is the newest part of another; `HistoryCorrect` follows from it.

The liveness theorems have hypotheses about what the provers cannot see, each of them true of
every behaviour:

- `[]NothingIsStranded`, `[]NobodyIsStuck` or `[]NoHolderIsStuck`: a fair action is enabled
  where its guard holds. ENABLED is an atom to the provers. The first is an invariant that
  `pipeline_liveness` checks, for there it relates broker, links and handlers. The others say
  no more than that the guards of an await's outcomes are complementary, which can be read
  off the actions; they are defined where they are used, in the proof modules.
- `FewestAreReached` and `LeastLoadIsTaken`: a natural number that varies has a least value
  and takes it, some k with `[](n >= k) /\ <>(n = k)`. This is the well-ordering of the
  naturals, applied to the number of unsettled messages and to `Load`. It stands for an
  induction about behaviours, which the library's induction theorems do not reach: they are
  about constants, and the conclusion of each step here is a leads-to. That the number is a
  natural one, that it never grows and that it must fall while anybody waits is proved.
- `FaultsCease` is of the same kind, with `MaxFaults` as the bound, and an assumption about
  the environment besides.

Only model-checked are `HealthChecksEnd` with another limit than five and a Redis that stays
away, `NothingIsStranded` and the violations. Every other property that a passing run checks
is proved, every safety and
action property and both refinements among them; `WorkerReturns` and `QueueDrains`, which the
run `worker` checks on the worker alone, are proved of the worker in the pipeline. `LookupTypeOK`, `CorrelationTypeOK` and
`PipelineTypeOK` are in no run of their own: they are proved, and the last is part of
`MeteredTypeOK`.

## Not modelled, and why

Reads (`GET /orders/:id`, `GET /users/:id` but as the lookup sees it), the formats of
logs and replies, histograms and durations, dashboards and load tests: see `PROJECT.json`.
The pools of order-service and the worker are the one `UserAccounts` models, with other
statements. Of the alert rules only the one that combines two services' series has a
module; the burn-rate rules are ratios over windows of time that TLC has no numbers for, and
Alertmanager's grouping and inhibition are the behaviour of another program. Scrapes come in
time for every count: a process that dies between a count and the scrape takes it along. The order of the queue and the payloads are abstracted; time is a
timer that may fire whenever it is armed.

## What is left

1. The pool under `OrderService`'s INSERT and the worker's UPDATE, in place of a statement
   that merely ends.
2. `UserLookup` under the `LookupReturns` of `OrderService`: its three outcomes are those
   `UserDirectory` allows.
3. Lost scrapes in `QueueMetrics`.
