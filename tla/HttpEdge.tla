------------------------------ MODULE HttpEdge ------------------------------
(***************************************************************************)
(* The HTTP side of PulseOps: a request passes the gateway and one service *)
(* behind it, order-service or user-service, whose middleware is the same. *)
(* Each tier raises a gauge when its metrics middleware sees the request,  *)
(* and lowers it and counts the request when the response is 'finish'ed,   *)
(* that is, handed to a socket that is still there.                        *)
(*                                                                         *)
(* In the gateway the metrics middleware comes before the proxy; in a      *)
(* service it comes after express.json(), so that it never sees a body     *)
(* that does not parse.                                                    *)
(*                                                                         *)
(* What a client may send is reduced to what the answer depends on; the    *)
(* handler of POST /orders is in OrderService, where a reply 500 or 404    *)
(* stands for what `sound` and `unknown` lead to here.                     *)
(***************************************************************************)
EXTENDS Environment, FiniteSets

CONSTANT
    Requests    \* the requests of clients

ASSUME RequestsAssumption == IsFiniteSet(Requests)

VARIABLES
    service,        \* whether the service's process is running
    input,          \* input[r]: what request r asks for
    gateway,        \* gateway[r]: what the gateway does with r
    serving,        \* serving[r]: what the service does with r
    status,         \* status[r]: the code of the answer, 0 before
    gatewayActive,  \* http_active_requests of the gateway
    serviceActive,  \* ... and of the service
    gatewayTotal,   \* http_requests_total of the gateway, by class of code
    serviceTotal    \* ... and of the service

metricVars == <<gatewayActive, serviceActive, gatewayTotal, serviceTotal>>
edgeVars == <<faults, service, input, gateway, serving, status, metricVars>>

(* "malformed": the body does not parse; "incomplete": a field is missing;  *)
(* "unfit": only Postgres rejects it, an id that is no number or a negative *)
(* quantity; "taken": an email that is registered; "unknown": no such row.  *)
ClientFaults == {"malformed", "incomplete", "unfit", "taken", "unknown"}
Inputs == {"none", "sound"} \cup ClientFaults

GatewayPhases == {"idle", "proxying", "finished", "aborted"}

(* "cut" and "leaked": the connection is gone while the handler runs, and   *)
(* the handler has ended on it; "lost": the process died.                   *)
ServingPhases == {"idle", "parsing", "handling", "answered", "cut", "leaked", "lost"}

Classes == {"2xx", "4xx", "5xx"}
Codes == {200, 400, 404, 409, 500, 502}

Class(code) == IF code < 400 THEN "2xx" ELSE IF code < 500 THEN "4xx" ELSE "5xx"

Counted(total, code) == [total EXCEPT ![Class(code)] = @ + 1]

NothingCounted == [c \in Classes |-> 0]

EdgeInit ==
    /\ EnvironmentInit
    /\ service = "up"
    /\ input = [r \in Requests |-> "none"]
    /\ gateway = [r \in Requests |-> "idle"]
    /\ serving = [r \in Requests |-> "idle"]
    /\ status = [r \in Requests |-> 0]
    /\ gatewayActive = 0 /\ serviceActive = 0
    /\ gatewayTotal = NothingCounted /\ serviceTotal = NothingCounted

-----------------------------------------------------------------------------
(* The gateway.                                                            *)

(* A request arrives, is raised in the gauge and proxied. *)
Send(r, asked) ==
    /\ gateway[r] = "idle"
    /\ gateway' = [gateway EXCEPT ![r] = "proxying"]
    /\ input' = [input EXCEPT ![r] = asked]
    /\ gatewayActive' = gatewayActive + 1
    /\ UNCHANGED <<faults, service, serving, status, serviceActive, gatewayTotal, serviceTotal>>

(* The gateway's response is finished with this code. *)
GatewayFinishes(r, code) ==
    /\ gateway' = [gateway EXCEPT ![r] = "finished"]
    /\ gatewayActive' = gatewayActive - 1
    /\ gatewayTotal' = Counted(gatewayTotal, code)

Unreachable_Uncounted(r) ==
    /\ gateway[r] = "proxying"
    /\ serving[r] = "lost" \/ (serving[r] = "idle" /\ service = "down")
    /\ status' = [status EXCEPT ![r] = 502]
    /\ gateway' = [gateway EXCEPT ![r] = "finished"]
    /\ gatewayActive' = gatewayActive - 1
    /\ UNCHANGED <<faults, service, input, serving, serviceActive, gatewayTotal, serviceTotal>>

(* onError: the service is down, or died with the request. *)
Unreachable(r) ==
    /\ gateway[r] = "proxying"
    /\ serving[r] = "lost" \/ (serving[r] = "idle" /\ service = "down")
    /\ status' = [status EXCEPT ![r] = 502]
    /\ GatewayFinishes(r, 502)
    /\ UNCHANGED <<faults, service, input, serving, serviceActive, serviceTotal>>

Relay_CodeReadEarly(r) ==
    /\ gateway[r] = "proxying" /\ serving[r] = "answered"
    /\ GatewayFinishes(r, 200)
    /\ UNCHANGED <<faults, service, input, serving, status, serviceActive, serviceTotal>>

(* The service's answer is passed on. *)
Relay(r) ==
    /\ gateway[r] = "proxying" /\ serving[r] = "answered"
    /\ GatewayFinishes(r, status[r])
    /\ UNCHANGED <<faults, service, input, serving, status, serviceActive, serviceTotal>>

(* The client hangs up first: the response is never finished. *)
Abort(r) ==
    /\ gateway[r] = "proxying"
    /\ gateway' = [gateway EXCEPT ![r] = "aborted"]
    /\ UNCHANGED <<faults, service, input, serving, status, metricVars>>

-----------------------------------------------------------------------------
(* The service.                                                            *)

(* The request is there, perhaps after its client has gone. *)
Receive(r) ==
    /\ gateway[r] \in {"proxying", "aborted"} /\ serving[r] = "idle"
    /\ service = "up"
    /\ serving' = [serving EXCEPT ![r] = "parsing"]
    /\ UNCHANGED <<faults, service, input, gateway, status, metricVars>>

Reject_LowersGauge(r) ==
    /\ serving[r] = "parsing" /\ input[r] = "malformed"
    /\ serving' = [serving EXCEPT ![r] = "answered"]
    /\ status' = [status EXCEPT ![r] = 400]
    /\ serviceActive' = serviceActive - 1
    /\ UNCHANGED <<faults, service, input, gateway, gatewayActive, gatewayTotal, serviceTotal>>

(* express.json() fails: the error middleware answers with its 4xx.  The   *)
(* metrics middleware has not run.                                         *)
Reject(r) ==
    /\ serving[r] = "parsing" /\ input[r] = "malformed"
    /\ serving' = [serving EXCEPT ![r] = "answered"]
    /\ status' = [status EXCEPT ![r] = 400]
    /\ UNCHANGED <<faults, service, input, gateway, metricVars>>

(* The body parses: the metrics middleware raises the gauge. *)
Accept(r) ==
    /\ serving[r] = "parsing" /\ input[r] # "malformed"
    /\ serving' = [serving EXCEPT ![r] = "handling"]
    /\ serviceActive' = serviceActive + 1
    /\ UNCHANGED <<faults, service, input, gateway, status,
                   gatewayActive, gatewayTotal, serviceTotal>>

(* The codes the routers and the error middleware answer with.  A sound    *)
(* request fails when a dependency does; an error of Postgres carries no   *)
(* status, so one that is the client's doing is a 500 like any other.      *)
Answers(asked) ==
    CASE asked = "sound" -> {200, 500}
      [] asked = "incomplete" -> {400}
      [] asked = "unfit" -> {500}
      [] asked = "taken" -> {409, 500}
      [] asked = "unknown" -> {404, 500}
      [] OTHER -> {}

Respond_KeepsGauge(r, code) ==
    /\ serving[r] = "handling" /\ code \in Answers(input[r])
    /\ serving' = [serving EXCEPT ![r] = "answered"]
    /\ status' = [status EXCEPT ![r] = code]
    /\ serviceTotal' = Counted(serviceTotal, code)
    /\ UNCHANGED <<faults, service, input, gateway, serviceActive, gatewayActive, gatewayTotal>>

(* The handler answers and the response is finished. *)
Respond(r, code) ==
    /\ serving[r] = "handling" /\ code \in Answers(input[r])
    /\ serving' = [serving EXCEPT ![r] = "answered"]
    /\ status' = [status EXCEPT ![r] = code]
    /\ serviceActive' = serviceActive - 1
    /\ serviceTotal' = Counted(serviceTotal, code)
    /\ UNCHANGED <<faults, service, input, gateway, gatewayActive, gatewayTotal>>

(* The gateway closes the connection of a client that has gone; the        *)
(* handler goes on.                                                        *)
HangUp(r) ==
    /\ gateway[r] = "aborted"
    /\ \/ /\ serving[r] = "parsing"
          /\ serving' = [serving EXCEPT ![r] = "lost"]
       \/ /\ serving[r] = "handling"
          /\ serving' = [serving EXCEPT ![r] = "cut"]
    /\ UNCHANGED <<faults, service, input, gateway, status, metricVars>>

(* The handler answers to nobody: no 'finish', nothing lowered or counted. *)
HandlerEnds(r) ==
    /\ serving[r] = "cut"
    /\ serving' = [serving EXCEPT ![r] = "leaked"]
    /\ UNCHANGED <<faults, service, input, gateway, status, metricVars>>

(* The process dies and takes its metrics along. *)
ServiceDies ==
    /\ service = "up" /\ Fault("service")
    /\ service' = "down"
    /\ serving' = [r \in Requests |->
                     IF serving[r] \in {"idle", "answered"} THEN serving[r] ELSE "lost"]
    /\ serviceActive' = 0 /\ serviceTotal' = NothingCounted
    /\ UNCHANGED <<input, gateway, status, gatewayActive, gatewayTotal>>

ServiceReturns ==
    /\ service = "down"
    /\ service' = "up"
    /\ UNCHANGED <<faults, input, gateway, serving, status, metricVars>>

-----------------------------------------------------------------------------
EdgeNext ==
    \/ \E r \in Requests :
          \/ \E asked \in Inputs \ {"none"} : Send(r, asked)
          \/ Unreachable(r) \/ Relay(r) \/ Abort(r)
          \/ Receive(r) \/ Reject(r) \/ Accept(r)
          \/ \E code \in Codes : Respond(r, code)
          \/ HangUp(r) \/ HandlerEnds(r)
    \/ ServiceDies \/ ServiceReturns

EdgeSpec == EdgeInit /\ [][EdgeNext]_edgeVars

-----------------------------------------------------------------------------
InGateway(phases) == {r \in Requests : gateway[r] \in phases}
InService(phases) == {r \in Requests : serving[r] \in phases}

(* The requests that were answered with a code of class c. *)
Told(c) == {r \in InGateway({"finished"}) : Class(status[r]) = c}

(* The service's answers of class c that no client has seen yet. *)
Untold(c) == {r \in InService({"answered"}) : gateway[r] # "finished" /\ Class(status[r]) = c}

EdgeTypeOK ==
    /\ faults \in Nat
    /\ service \in {"up", "down"}
    /\ input \in [Requests -> Inputs]
    /\ gateway \in [Requests -> GatewayPhases]
    /\ serving \in [Requests -> ServingPhases]
    /\ status \in [Requests -> Codes \cup {0}]
    /\ gatewayActive \in Nat /\ serviceActive \in Nat
    /\ gatewayTotal \in [Classes -> Nat] /\ serviceTotal \in [Classes -> Nat]

(* slo-rules.yml measures the availability at the gateway, as the user      *)
(* experiences it: its counter holds each request whose client stayed, once *)
(* and in the class the client was answered with, whichever tier answered,  *)
(* and no request whose client hung up.                                     *)
SliCountsWhatClientsSaw ==
    \A c \in Classes : gatewayTotal[c] = Cardinality(Told(c))

(* No server error that order-service or user-service counts goes missing   *)
(* from the SLI: the gateway has counted it too, or still has to answer it, *)
(* or its client hung up.                                                   *)
SliMissesNoServiceError ==
    serviceTotal["5xx"] <= gatewayTotal["5xx"] + Cardinality(Untold("5xx"))

(* Each gauge is the number of requests under way and of those whose client *)
(* hung up, since the process started, and never falls below the former.    *)
GaugesOffByAborts ==
    /\ gatewayActive = Cardinality(InGateway({"proxying", "aborted"}))
    /\ serviceActive = Cardinality(InService({"handling", "cut", "leaked"}))

(* docs/observability.md: http_active_requests is the in-flight count. *)
ActiveRequestsAreInFlight == gatewayActive = Cardinality(InGateway({"proxying"}))

(* slo-rules.yml: a client that sends a bad body or asks for a row that     *)
(* does not exist must not be able to burn the error budget: it is not      *)
(* answered 5xx while no process and no dependency fails.                   *)
ClientFaultBurnsNoBudget ==
    \A r \in Requests : input[r] \in {"malformed", "incomplete", "unfit"} => status[r] # 500
=============================================================================
