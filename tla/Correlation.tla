----------------------------- MODULE Correlation -----------------------------
(***************************************************************************)
(* The correlation id of a POST /orders through the logs of the gateway,   *)
(* order-service, user-service and the worker (logger.js of each).         *)
(*                                                                         *)
(* A service adopts the x-request-id it is sent, or makes one, and opens   *)
(* an AsyncLocalStorage context with it; whatever the request's handler    *)
(* does after an await runs in that context again, and the logger's mixin  *)
(* reads the id from there.  So context[s][r] is the store in which        *)
(* service s handles request r, and every line written for r carries it.   *)
(*                                                                         *)
(* An event listener runs in the context in which its source was made: the *)
(* socket of the shared Redis client is made by whichever request finds    *)
(* the client closed, and its errors are logged in that request's context. *)
(*                                                                         *)
(* Only what the ids depend on is here: OrderPipeline, UserLookup and      *)
(* HttpEdge have the rest.  A line is kept without its wording.            *)
(***************************************************************************)
EXTENDS Environment

CONSTANTS
    Requests,   \* the POST /orders requests of clients
    Nobody,     \* what a line is about that is about no request
    ClientIds,  \* the ids a client may put into x-request-id itself
    NoId        \* no header, no store, no response yet

Services == {"gateway", "order-service", "user-service", "worker"}

(* randomUUID() for request r in service s: unlike any other id. *)
Fresh(s, r) == [by |-> s, for |-> r]

Ids == ClientIds \cup {Fresh(s, r) : s \in Services, r \in Requests}

ASSUME CorrelationAssumption ==
    /\ Nobody \notin Requests
    /\ NoId \notin Ids
    /\ ClientIds \cap {Fresh(s, r) : s \in Services, r \in Requests} = {}

VARIABLES
    service,        \* whether order-service's process is running
    door,           \* door[r]: the service that the client of r talks to
    phase,          \* phase[r]: how far r is
    header,         \* header[r]: the x-request-id order-service is sent
    context,        \* context[s][r]: the id in the store s handles r in
    asked,          \* the requests user-service is serving a GET for
    returned,       \* returned[r]: the x-request-id of the client's response
    message,        \* message[r]: where the message about r is
    carried,        \* carried[r]: its correlationId
    redisContext,   \* the id in the context of the shared Redis socket
    redis,          \* whether the shared client is open
    lines           \* all that was logged

requestVars == <<door, phase, header, returned>>
queueVars == <<message, carried>>
redisVars == <<redis, redisContext>>
correlationVars ==
    <<faults, service, requestVars, context, asked, queueVars, redisVars, lines>>

(* What runs in order-service, in the order in which it runs. *)
InHandler == {"lookup", "fetch", "insert", "publish"}
InService == {"parsing"} \cup InHandler
Phases == {"idle", "sent", "answered", "lost", "over"} \cup InService

Messages == {"none", "queued", "delivered", "processed", "gone"}

CorrelationInit ==
    /\ EnvironmentInit
    /\ service = "up"
    /\ door = [r \in Requests |-> "gateway"]
    /\ phase = [r \in Requests |-> "idle"]
    /\ header = [r \in Requests |-> NoId]
    /\ context = [s \in Services |-> [r \in Requests |-> NoId]]
    /\ asked = {}
    /\ returned = [r \in Requests |-> NoId]
    /\ message = [r \in Requests |-> "none"]
    /\ carried = [r \in Requests |-> NoId]
    /\ redis = "closed" /\ redisContext = NoId
    /\ lines = {}

(* The mixin: a line that s writes about r, in r's context. *)
Line(s, r) == [from |-> s, about |-> r, id |-> context[s][r]]

Logs(line) == lines' = lines \cup {line}

(* requestLoggingMiddleware: an inbound id is honoured. *)
Adopt(s, r, id) == IF id = NoId THEN Fresh(s, r) ELSE id

(* Request r goes on to the next phase. *)
Goes(r, next) == phase' = [phase EXCEPT ![r] = next]

-----------------------------------------------------------------------------
(* The client and the gateway.                                             *)

Send_NotForwarded(r, id) ==
    /\ phase[r] = "idle"
    /\ Goes(r, "sent")
    /\ context' = [context EXCEPT !["gateway"][r] = Adopt("gateway", r, id)]
    /\ header' = [header EXCEPT ![r] = id]
    /\ UNCHANGED <<faults, service, door, asked, returned, queueVars, redisVars, lines>>

(* Through the gateway: its middleware writes the id back onto the headers *)
(* that the proxy then forwards.                                           *)
Send(r, id) ==
    /\ phase[r] = "idle"
    /\ Goes(r, "sent")
    /\ context' = [context EXCEPT !["gateway"][r] = Adopt("gateway", r, id)]
    /\ header' = [header EXCEPT ![r] = Adopt("gateway", r, id)]
    /\ UNCHANGED <<faults, service, door, asked, returned, queueVars, redisVars, lines>>

(* Straight to order-service's own port. *)
SendDirect(r, id) ==
    /\ phase[r] = "idle"
    /\ Goes(r, "sent")
    /\ door' = [door EXCEPT ![r] = "order-service"]
    /\ header' = [header EXCEPT ![r] = id]
    /\ UNCHANGED <<faults, service, context, asked, returned, queueVars, redisVars, lines>>

(* The client has order-service's answer.  The proxy copies its headers    *)
(* over the gateway's own, x-request-id with them.                         *)
Relay(r) ==
    /\ phase[r] = "answered"
    /\ Goes(r, "over")
    /\ returned' = [returned EXCEPT ![r] = context["order-service"][r]]
    /\ IF door[r] = "gateway" THEN Logs(Line("gateway", r)) ELSE UNCHANGED lines
    /\ UNCHANGED <<faults, service, door, header, context, asked, queueVars, redisVars>>

(* onError: order-service is down or has died with the request; a 502,     *)
(* under the id that the gateway had set on its response already.          *)
Unreachable(r) ==
    /\ door[r] = "gateway"
    /\ phase[r] = "lost" \/ (phase[r] = "sent" /\ service = "down")
    /\ Goes(r, "over")
    /\ returned' = [returned EXCEPT ![r] = context["gateway"][r]]
    /\ Logs(Line("gateway", r))
    /\ UNCHANGED <<faults, service, door, header, context, asked, queueVars, redisVars>>

-----------------------------------------------------------------------------
(* order-service and user-service.                                         *)

Enter_OneForAll(r) ==
    /\ phase[r] = "sent" /\ service = "up"
    /\ Goes(r, "parsing")
    /\ context' = [context EXCEPT !["order-service"] =
                     [q \in Requests |-> IF q = r \/ phase[q] \in InService
                                         THEN Adopt("order-service", r, header[r]) ELSE @[q]]]
    /\ UNCHANGED <<faults, service, door, header, asked, returned, queueVars, redisVars, lines>>

(* The middleware runs before anything else can fail, then the body is     *)
(* awaited.                                                                *)
Enter(r) ==
    /\ phase[r] = "sent" /\ service = "up"
    /\ Goes(r, "parsing")
    /\ context' = [context EXCEPT !["order-service"][r] =
                     Adopt("order-service", r, header[r])]
    /\ UNCHANGED <<faults, service, door, header, asked, returned, queueVars, redisVars, lines>>

(* A body that does not parse, or lacks a field; or an await of the        *)
(* handler fails, or there is no such user.                                *)
EndsEarly(r) ==
    /\ phase[r] \in InService
    /\ Goes(r, "answered")
    /\ Logs(Line("order-service", r))
    /\ UNCHANGED <<faults, service, door, header, context, asked, returned, queueVars, redisVars>>

(* getUser begins; it makes the Redis socket if the client is closed. *)
LookUp(r) ==
    /\ phase[r] = "parsing"
    /\ Goes(r, "lookup")
    /\ redis' = "open"
    /\ redisContext' = IF redis = "closed" THEN context["order-service"][r] ELSE redisContext
    /\ UNCHANGED <<faults, service, door, header, context, asked, returned, queueVars, lines>>

(* A cache hit. *)
Hit(r) ==
    /\ phase[r] = "lookup"
    /\ Goes(r, "insert")
    /\ UNCHANGED <<faults, service, door, header, context, asked, returned,
                   queueVars, redisVars, lines>>

Fetch_NoHeader(r) ==
    /\ phase[r] = "lookup"
    /\ Goes(r, "fetch")
    /\ asked' = asked \cup {r}
    /\ context' = [context EXCEPT !["user-service"][r] = Adopt("user-service", r, NoId)]
    /\ UNCHANGED <<faults, service, door, header, returned, queueVars, redisVars, lines>>

(* A miss: fetch sends the id that getRequestId reads, after the awaits on *)
(* Redis, and user-service's middleware adopts it.                         *)
Fetch(r) ==
    /\ phase[r] = "lookup"
    /\ Goes(r, "fetch")
    /\ asked' = asked \cup {r}
    /\ context' = [context EXCEPT !["user-service"][r] =
                     Adopt("user-service", r, context["order-service"][r])]
    /\ UNCHANGED <<faults, service, door, header, returned, queueVars, redisVars, lines>>

(* user-service finishes its response and logs it, be it too late for      *)
(* order-service or not.                                                   *)
UserServiceAnswers(r) ==
    /\ r \in asked
    /\ asked' = asked \ {r}
    /\ Logs(Line("user-service", r))
    /\ UNCHANGED <<faults, service, requestVars, context, queueVars, redisVars>>

Fetched(r) ==
    /\ phase[r] = "fetch" /\ r \notin asked
    /\ Goes(r, "insert")
    /\ UNCHANGED <<faults, service, door, header, context, asked, returned,
                   queueVars, redisVars, lines>>

(* The row is there: 'order created'. *)
Insert(r) ==
    /\ phase[r] = "insert"
    /\ Goes(r, "publish")
    /\ Logs(Line("order-service", r))
    /\ UNCHANGED <<faults, service, door, header, context, asked, returned, queueVars, redisVars>>

(* The message takes the id along as its correlationId: the publisher's,   *)
(* whichever request the connection was made for.                          *)
Publish(r) ==
    /\ phase[r] = "publish"
    /\ Goes(r, "answered")
    /\ message' = [message EXCEPT ![r] = "queued"]
    /\ carried' = [carried EXCEPT ![r] = context["order-service"][r]]
    /\ Logs(Line("order-service", r))
    /\ UNCHANGED <<faults, service, door, header, context, asked, returned, redisVars>>

(* The client emits 'error', and dials again or gives up and is closed. *)
RedisFails ==
    /\ redis = "open"
    /\ Logs([from |-> "order-service", about |-> Nobody, id |-> redisContext])
    /\ \/ UNCHANGED redisVars
       \/ redis' = "closed" /\ redisContext' = NoId
    /\ UNCHANGED <<faults, service, requestVars, context, asked, queueVars>>

ServiceDies ==
    /\ service = "up" /\ Fault("service")
    /\ service' = "down"
    /\ phase' = [r \in Requests |-> IF phase[r] \in InService THEN "lost" ELSE phase[r]]
    /\ redis' = "closed" /\ redisContext' = NoId
    /\ UNCHANGED <<door, header, context, asked, returned, queueVars, lines>>

ServiceReturns ==
    /\ service = "down"
    /\ service' = "up"
    /\ UNCHANGED <<faults, requestVars, context, asked, queueVars, redisVars, lines>>

-----------------------------------------------------------------------------
(* The worker.                                                             *)

(* The callback opens a context with the message's correlationId. *)
Deliver(r) ==
    /\ message[r] = "queued"
    /\ message' = [message EXCEPT ![r] = "delivered"]
    /\ context' = [context EXCEPT !["worker"][r] = carried[r]]
    /\ UNCHANGED <<faults, service, requestVars, asked, carried, redisVars, lines>>

(* 'order processed' or 'failed to process order', and the ack or nack. *)
Process(r) ==
    /\ message[r] = "delivered"
    /\ message' = [message EXCEPT ![r] = "processed"]
    /\ Logs(Line("worker", r))
    /\ UNCHANGED <<faults, service, requestVars, context, asked, carried, redisVars>>

(* The broker has read it. *)
Settle(r) ==
    /\ message[r] = "processed"
    /\ message' = [message EXCEPT ![r] = "gone"]
    /\ UNCHANGED <<faults, service, requestVars, context, asked, carried, redisVars, lines>>

(* What the worker was delivered and has not settled is delivered again. *)
WorkerDies ==
    /\ Fault("worker")
    /\ message' = [r \in Requests |-> IF message[r] \in {"delivered", "processed"}
                                      THEN "queued" ELSE message[r]]
    /\ UNCHANGED <<service, requestVars, context, asked, carried, redisVars, lines>>

-----------------------------------------------------------------------------
CorrelationNext ==
    \/ \E r \in Requests :
          \/ \E id \in ClientIds \cup {NoId} : Send(r, id) \/ SendDirect(r, id)
          \/ Relay(r) \/ Unreachable(r)
          \/ Enter(r) \/ EndsEarly(r) \/ LookUp(r) \/ Hit(r) \/ Fetch(r)
          \/ UserServiceAnswers(r) \/ Fetched(r) \/ Insert(r) \/ Publish(r)
          \/ Deliver(r) \/ Process(r) \/ Settle(r)
    \/ RedisFails \/ ServiceDies \/ ServiceReturns \/ WorkerDies

CorrelationSpec == CorrelationInit /\ [][CorrelationNext]_correlationVars

-----------------------------------------------------------------------------
CorrelationTypeOK ==
    /\ faults \in Nat
    /\ service \in {"up", "down"}
    /\ door \in [Requests -> Services]
    /\ phase \in [Requests -> Phases]
    /\ header \in [Requests -> Ids \cup {NoId}]
    /\ context \in [Services -> [Requests -> Ids \cup {NoId}]]
    /\ asked \subseteq Requests
    /\ returned \in [Requests -> Ids \cup {NoId}]
    /\ message \in [Requests -> Messages]
    /\ carried \in [Requests -> Ids \cup {NoId}]
    /\ redis \in {"open", "closed"}
    /\ redisContext \in Ids \cup {NoId}
    /\ lines \subseteq [from : Services, about : Requests \cup {Nobody}, id : Ids]

(* README.md: any response returns the id under which to find its request.  *)
(* Each line that any service writes about a request, before its response,  *)
(* after it, in a redelivery or for a process that has died, carries the id *)
(* that the client reads in the end.                                        *)
LinesCarryTheReturnedId ==
    \A line \in lines :
        line.about \in Requests /\ returned[line.about] # NoId
            => line.id = returned[line.about]

(* The services that have written about r under this id. *)
Wrote(r, id) == {s \in Services : [from |-> s, about |-> r, id |-> id] \in lines}

(* README.md: one query follows a request across all services and RabbitMQ. *)
(* The id a client was returned finds, for an order the worker is done      *)
(* with, lines of each service that had to do with it.                      *)
OneQueryFollowsTheOrder ==
    \A r \in Requests :
        message[r] = "gone" /\ returned[r] # NoId
            => /\ {door[r], "order-service", "worker"} \subseteq Wrote(r, returned[r])
               /\ context["user-service"][r] # NoId =>
                     "user-service" \in Wrote(r, returned[r])

(* That query finds no lines of another request, though requests interleave *)
(* at every await, unless the clients sent the same id themselves.  What it *)
(* may find beside its own are the errors of the shared Redis client, long  *)
(* after the request that made its socket was over.                         *)
QueryFindsNoOtherRequest ==
    \A k, l \in lines :
        k.id = l.id /\ k.about # l.about
            => k.id \in ClientIds \/ Nobody \in {k.about, l.about}
=============================================================================
