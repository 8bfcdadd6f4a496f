--------------------------- MODULE HttpEdgeProofs ---------------------------
(***************************************************************************)
(* The gauges and counters of HttpEdge are the sizes of sets of requests.  *)
(* Every action moves one request into such a set or out of it, or leaves  *)
(* it as it is, but for the death of the service, which empties them.      *)
(***************************************************************************)
EXTENDS HttpEdge, FiniteSetTheorems, TLAPS

GatewayOpen == InGateway({"proxying", "aborted"})
ServiceOpen == InService({"handling", "cut", "leaked"})

(* The requests the service answered with a code of class c. *)
AnsweredWith(c) == {r \in InService({"answered"}) : Class(status[r]) = c}

(* A request that the gateway is done with is not being served. *)
FinishedInv ==
    \A r \in Requests : gateway[r] = "finished" => serving[r] \in {"idle", "lost", "answered"}

(* The service has counted no more answers than it gave. *)
ServiceCountInv ==
    \A c \in Classes : serviceTotal[c] <= Cardinality(AnsweredWith(c))

(* An answer has a code. *)
AnsweredInv == \A r \in Requests : serving[r] = "answered" => status[r] # 0

EdgeInv ==
    /\ EdgeTypeOK /\ FinishedInv /\ AnsweredInv
    /\ GaugesOffByAborts /\ SliCountsWhatClientsSaw /\ ServiceCountInv

-----------------------------------------------------------------------------
(* Every set of requests is finite, so that its size is a number. *)
LEMMA RequestSets ==
    ASSUME NEW S, S \subseteq Requests
    PROVE  IsFiniteSet(S) /\ Cardinality(S) \in Nat
BY RequestsAssumption, FS_Subset, FS_CardinalityType

(* A request that enters a set makes it larger by one. *)
LEMMA OneMore ==
    ASSUME NEW S, NEW T, NEW r \in Requests, S \subseteq Requests, r \notin S, T = S \cup {r}
    PROVE  Cardinality(T) = Cardinality(S) + 1
BY RequestSets, FS_AddElement

(* A request that leaves a set makes it smaller by one. *)
LEMMA OneLess ==
    ASSUME NEW S, NEW T, NEW r \in S, S \subseteq Requests, T = S \ {r}
    PROVE  Cardinality(T) = Cardinality(S) - 1
BY RequestSets, FS_RemoveElement

(* A code has a class. *)
LEMMA ClassOfCode == ASSUME NEW code \in Codes PROVE Class(code) \in Classes
BY DEF Class, Classes, Codes

(* The set whose size is the gateway's gauge is a set of requests; so are  *)
(* the others.                                                             *)
LEMMA SetsOfRequests ==
    /\ GatewayOpen \subseteq Requests /\ ServiceOpen \subseteq Requests
    /\ \A c : Told(c) \subseteq Requests
    /\ \A c : AnsweredWith(c) \subseteq Requests
BY DEF GatewayOpen, ServiceOpen, Told, AnsweredWith, InGateway, InService

(* Nothing has happened at the start. *)
LEMMA EdgeInitially == EdgeInit => EdgeInv
<1> SUFFICES ASSUME EdgeInit PROVE EdgeInv
  OBVIOUS
<1>1. EdgeTypeOK /\ FinishedInv /\ AnsweredInv
  BY DEF EdgeInit, EdgeTypeOK, FinishedInv, AnsweredInv, EnvironmentInit, Inputs, GatewayPhases,
         ServingPhases, NothingCounted
<1>2. /\ InGateway({"proxying", "aborted"}) = {} /\ InService({"handling", "cut", "leaked"}) = {}
      /\ \A c \in Classes : Told(c) = {} /\ AnsweredWith(c) = {}
  BY DEF EdgeInit, InGateway, InService, Told, AnsweredWith
<1> QED
  BY <1>1, <1>2, FS_EmptySet
  DEF EdgeInit, EdgeInv, GaugesOffByAborts, SliCountsWhatClientsSaw, ServiceCountInv,
      NothingCounted

-----------------------------------------------------------------------------
(* A request that arrives enters the gateway's gauge. *)
LEMMA SendInv ==
    ASSUME EdgeInv, NEW r \in Requests, NEW asked \in Inputs, Send(r, asked)
    PROVE  EdgeInv'
<1> USE DEF EdgeInv
<1>1. EdgeTypeOK' /\ FinishedInv' /\ AnsweredInv'
  BY DEF EdgeTypeOK, FinishedInv, AnsweredInv, Send, GatewayPhases
<1>2. GatewayOpen' = GatewayOpen \cup {r} /\ r \notin GatewayOpen
  BY DEF GatewayOpen, InGateway, Send, EdgeTypeOK
<1>3. ServiceOpen' = ServiceOpen
  BY DEF ServiceOpen, InService, Send
<1>4. \A c : Told(c)' = Told(c) /\ AnsweredWith(c)' = AnsweredWith(c)
  BY DEF Told, AnsweredWith, InGateway, InService, Send, EdgeTypeOK
<1>5. GaugesOffByAborts'
  BY <1>2, <1>3, OneMore, SetsOfRequests
  DEF GaugesOffByAborts, GatewayOpen, ServiceOpen, Send
<1> QED BY <1>1, <1>4, <1>5 DEF SliCountsWhatClientsSaw, ServiceCountInv, Send

(* A response the gateway finishes leaves its gauge and enters its counter, *)
(* once and in its class; the service's answers are what they were.         *)
LEMMA GatewayFinishesInv ==
    ASSUME EdgeInv, NEW r \in Requests, NEW code \in Codes,
           gateway[r] = "proxying",
           serving[r] \in {"idle", "lost", "answered"},
           GatewayFinishes(r, code),
           status' = [status EXCEPT ![r] = code],
           serving[r] = "answered" => status[r] = code,
           UNCHANGED <<faults, service, input, serving, serviceActive, serviceTotal>>
    PROVE  EdgeInv'
<1> USE DEF EdgeInv
<1>1. GatewayOpen' = GatewayOpen \ {r} /\ r \in GatewayOpen
  BY DEF GatewayOpen, InGateway, GatewayFinishes, EdgeTypeOK
<1>2. ServiceOpen' = ServiceOpen
  BY DEF ServiceOpen, InService
<1>3. Told(Class(code))' = Told(Class(code)) \cup {r} /\ r \notin Told(Class(code))
  BY DEF Told, InGateway, GatewayFinishes, EdgeTypeOK
<1>4. \A c \in Classes \ {Class(code)} : Told(c)' = Told(c)
  BY DEF Told, InGateway, GatewayFinishes, EdgeTypeOK
<1>5. \A c : AnsweredWith(c)' = AnsweredWith(c)
  BY DEF AnsweredWith, InService, EdgeTypeOK
<1>6. GaugesOffByAborts'
  BY <1>1, <1>2, OneLess, SetsOfRequests
  DEF GaugesOffByAborts, GatewayOpen, ServiceOpen, GatewayFinishes
<1>7. EdgeTypeOK'
  <2>1. gatewayActive' \in Nat
    BY <1>6, SetsOfRequests, RequestSets, <1>1 DEF GaugesOffByAborts, GatewayOpen
  <2> QED BY <2>1, ClassOfCode DEF EdgeTypeOK, GatewayFinishes, Counted, GatewayPhases
<1>8. FinishedInv' /\ AnsweredInv'
  BY DEF FinishedInv, AnsweredInv, Codes, GatewayFinishes, EdgeTypeOK
<1>9. SliCountsWhatClientsSaw'
  <2>1. Cardinality(Told(Class(code))') = Cardinality(Told(Class(code))) + 1
    BY <1>3, OneMore, SetsOfRequests
  <2>2. gatewayTotal' = [gatewayTotal EXCEPT ![Class(code)] = gatewayTotal[Class(code)] + 1]
    BY DEF GatewayFinishes, Counted
  <2> QED
    BY <1>4, <2>1, <2>2, ClassOfCode DEF SliCountsWhatClientsSaw, EdgeTypeOK
<1> QED BY <1>5, <1>6, <1>7, <1>8, <1>9 DEF ServiceCountInv

(* The service's answer enters the set it is counted in. *)
LEMMA AnsweredGrows ==
    ASSUME EdgeInv, NEW r \in Requests, NEW code \in Codes,
           serving[r] \in {"parsing", "handling"},
           serving' = [serving EXCEPT ![r] = "answered"],
           status' = [status EXCEPT ![r] = code],
           UNCHANGED gateway
    PROVE  /\ \A c \in Classes : Told(c)' = Told(c)
           /\ \A c \in Classes \ {Class(code)} : AnsweredWith(c)' = AnsweredWith(c)
           /\ Cardinality(AnsweredWith(Class(code))') = Cardinality(AnsweredWith(Class(code))) + 1
           /\ FinishedInv' /\ AnsweredInv'
<1> USE DEF EdgeInv
<1>1. \A c \in Classes : Told(c)' = Told(c)
  BY DEF Told, InGateway, EdgeTypeOK, FinishedInv
<1>2. \A c \in Classes \ {Class(code)} : AnsweredWith(c)' = AnsweredWith(c)
  BY DEF AnsweredWith, InService, EdgeTypeOK
<1>3. /\ AnsweredWith(Class(code))' = AnsweredWith(Class(code)) \cup {r}
      /\ r \notin AnsweredWith(Class(code))
  BY DEF AnsweredWith, InService, EdgeTypeOK
<1>4. FinishedInv' /\ AnsweredInv'
  BY DEF FinishedInv, AnsweredInv, Codes, EdgeTypeOK
<1> QED BY <1>1, <1>2, <1>3, <1>4, OneMore, SetsOfRequests

(* A body that does not parse is answered and counted by nobody. *)
LEMMA RejectInv == ASSUME EdgeInv, NEW r \in Requests, Reject(r) PROVE EdgeInv'
<1> USE DEF EdgeInv
<1>1. 400 \in Codes
  BY DEF Codes
<1>2. /\ \A c \in Classes : Told(c)' = Told(c)
      /\ \A c \in Classes \ {Class(400)} : AnsweredWith(c)' = AnsweredWith(c)
      /\ Cardinality(AnsweredWith(Class(400))') = Cardinality(AnsweredWith(Class(400))) + 1
      /\ FinishedInv' /\ AnsweredInv'
  <2> HIDE DEF EdgeInv
  <2> QED BY <1>1, AnsweredGrows DEF Reject, metricVars
<1>3. EdgeTypeOK'
  BY <1>1 DEF EdgeTypeOK, Reject, ServingPhases, metricVars
<1>4. ServiceOpen' = ServiceOpen /\ GatewayOpen' = GatewayOpen
  BY DEF ServiceOpen, GatewayOpen, InService, InGateway, Reject, EdgeTypeOK
<1>5. GaugesOffByAborts'
  BY <1>4 DEF GaugesOffByAborts, ServiceOpen, GatewayOpen, Reject, metricVars
<1>6. ServiceCountInv'
  <2>1. \A c \in Classes : Cardinality(AnsweredWith(c)) \in Nat
    BY RequestSets, SetsOfRequests
  <2> QED
    BY <1>2, <2>1, ClassOfCode, <1>1 DEF ServiceCountInv, Reject, metricVars, EdgeTypeOK
<1> QED BY <1>2, <1>3, <1>5, <1>6 DEF SliCountsWhatClientsSaw, Reject, metricVars

(* A request whose body parses enters the service's gauge. *)
LEMMA AcceptInv == ASSUME EdgeInv, NEW r \in Requests, Accept(r) PROVE EdgeInv'
<1> USE DEF EdgeInv
<1>1. EdgeTypeOK' /\ FinishedInv' /\ AnsweredInv'
  BY DEF EdgeTypeOK, FinishedInv, AnsweredInv, Accept, ServingPhases
<1>2. ServiceOpen' = ServiceOpen \cup {r} /\ r \notin ServiceOpen
  BY DEF ServiceOpen, InService, Accept, EdgeTypeOK
<1>3. GatewayOpen' = GatewayOpen
  BY DEF GatewayOpen, InGateway, Accept
<1>4. \A c : Told(c)' = Told(c) /\ AnsweredWith(c)' = AnsweredWith(c)
  BY DEF Told, AnsweredWith, InGateway, InService, Accept, EdgeTypeOK
<1>5. GaugesOffByAborts'
  BY <1>2, <1>3, OneMore, SetsOfRequests
  DEF GaugesOffByAborts, GatewayOpen, ServiceOpen, Accept
<1> QED BY <1>1, <1>4, <1>5 DEF SliCountsWhatClientsSaw, ServiceCountInv, Accept

(* A finished answer leaves the service's gauge and enters its counter. *)
LEMMA RespondInv ==
    ASSUME EdgeInv, NEW r \in Requests, NEW code \in Codes, Respond(r, code)
    PROVE  EdgeInv'
<1> USE DEF EdgeInv
<1>1. /\ \A c \in Classes : Told(c)' = Told(c)
      /\ \A c \in Classes \ {Class(code)} : AnsweredWith(c)' = AnsweredWith(c)
      /\ Cardinality(AnsweredWith(Class(code))') = Cardinality(AnsweredWith(Class(code))) + 1
      /\ FinishedInv' /\ AnsweredInv'
  <2> HIDE DEF EdgeInv
  <2> QED BY AnsweredGrows DEF Respond
<1>2. ServiceOpen' = ServiceOpen \ {r} /\ r \in ServiceOpen
  BY DEF ServiceOpen, InService, Respond, EdgeTypeOK
<1>3. GatewayOpen' = GatewayOpen
  BY DEF GatewayOpen, InGateway, Respond
<1>4. GaugesOffByAborts'
  BY <1>2, <1>3, OneLess, SetsOfRequests
  DEF GaugesOffByAborts, GatewayOpen, ServiceOpen, Respond
<1>5. serviceTotal' = [serviceTotal EXCEPT ![Class(code)] = serviceTotal[Class(code)] + 1]
  BY DEF Respond, Counted
<1>6. EdgeTypeOK'
  <2>1. serviceActive' \in Nat
    BY <1>4, <1>2, SetsOfRequests, RequestSets DEF GaugesOffByAborts, ServiceOpen
  <2> QED BY <1>5, <2>1, ClassOfCode DEF EdgeTypeOK, Respond, ServingPhases
<1>7. ServiceCountInv'
  <2>1. \A c \in Classes : Cardinality(AnsweredWith(c)) \in Nat
    BY RequestSets, SetsOfRequests
  <2> QED BY <1>1, <1>5, <2>1, ClassOfCode DEF ServiceCountInv, EdgeTypeOK
<1> QED BY <1>1, <1>4, <1>6, <1>7 DEF SliCountsWhatClientsSaw, Respond

(* What moves a request within the sets, or outside all of them. *)
LEMMA UncountedInv ==
    ASSUME EdgeInv, NEW r \in Requests,
           Abort(r) \/ Receive(r) \/ HangUp(r) \/ HandlerEnds(r)
    PROVE  EdgeInv'
<1> USE DEF EdgeInv
<1>1. EdgeTypeOK' /\ FinishedInv' /\ AnsweredInv'
  BY DEF EdgeTypeOK, FinishedInv, AnsweredInv, Abort, Receive, HangUp, HandlerEnds, GatewayPhases,
         ServingPhases, metricVars
<1>2. GatewayOpen' = GatewayOpen
  BY DEF GatewayOpen, InGateway, Abort, Receive, HangUp, HandlerEnds, EdgeTypeOK
<1>3. ServiceOpen' = ServiceOpen
  BY DEF ServiceOpen, InService, Abort, Receive, HangUp, HandlerEnds, EdgeTypeOK
<1>4. \A c : Told(c)' = Told(c)
  BY DEF Told, InGateway, Abort, Receive, HangUp, HandlerEnds, EdgeTypeOK
<1>5. \A c : AnsweredWith(c)' = AnsweredWith(c)
  BY DEF AnsweredWith, InService, Abort, Receive, HangUp, HandlerEnds, EdgeTypeOK
<1>6. UNCHANGED metricVars
  BY DEF Abort, Receive, HangUp, HandlerEnds
<1>7. GaugesOffByAborts'
  BY <1>2, <1>3, <1>6 DEF GaugesOffByAborts, GatewayOpen, ServiceOpen, metricVars
<1> QED
  BY <1>1, <1>4, <1>5, <1>6, <1>7 DEF SliCountsWhatClientsSaw, ServiceCountInv, metricVars

(* The death of the service empties its gauge and its counters, and takes  *)
(* with it every request that is neither answered nor still to come.       *)
LEMMA ServiceDiesInv == ASSUME EdgeInv, ServiceDies PROVE EdgeInv'
<1> USE DEF EdgeInv
<1>1. EdgeTypeOK' /\ FinishedInv' /\ AnsweredInv'
  BY DEF EdgeTypeOK, FinishedInv, AnsweredInv, ServiceDies, Fault, ServingPhases, NothingCounted
<1>2. GatewayOpen' = GatewayOpen
  BY DEF GatewayOpen, InGateway, ServiceDies
<1>3. ServiceOpen' = {}
  BY DEF ServiceOpen, InService, ServiceDies
<1>4. \A c : Told(c)' = Told(c)
  BY DEF Told, InGateway, ServiceDies
<1>5. \A c : AnsweredWith(c)' = AnsweredWith(c)
  BY DEF AnsweredWith, InService, ServiceDies, EdgeTypeOK
<1>6. GaugesOffByAborts'
  BY <1>2, <1>3, FS_EmptySet DEF GaugesOffByAborts, GatewayOpen, ServiceOpen, ServiceDies
<1>7. ServiceCountInv'
  <2>1. \A c \in Classes : Cardinality(AnsweredWith(c)) \in Nat
    BY RequestSets, SetsOfRequests
  <2> QED BY <1>5, <2>1 DEF ServiceCountInv, ServiceDies, NothingCounted
<1> QED BY <1>1, <1>4, <1>6, <1>7 DEF SliCountsWhatClientsSaw, ServiceDies

(* A service that returns, and a step that changes nothing. *)
LEMMA QuietInv ==
    ASSUME EdgeInv, ServiceReturns \/ UNCHANGED edgeVars PROVE EdgeInv'
<1>1. /\ UNCHANGED <<faults, input, gateway, serving, status, metricVars>>
      /\ service' \in {"up", "down"}
  BY DEF ServiceReturns, edgeVars, EdgeInv, EdgeTypeOK
<1> QED
  BY <1>1
  DEF EdgeInv, EdgeTypeOK, FinishedInv, GaugesOffByAborts, SliCountsWhatClientsSaw,
      ServiceCountInv, AnsweredInv, AnsweredWith, Told, InGateway, InService, metricVars

(* Every step preserves the invariant. *)
LEMMA EdgeStepInv == EdgeInv /\ [EdgeNext]_edgeVars => EdgeInv'
<1> SUFFICES ASSUME EdgeInv, [EdgeNext]_edgeVars PROVE EdgeInv'
  OBVIOUS
<1>1. ASSUME NEW r \in Requests, Unreachable(r) PROVE EdgeInv'
  <2>1. 502 \in Codes
    BY DEF Codes
  <2> QED BY <1>1, <2>1, GatewayFinishesInv DEF Unreachable
<1>2. ASSUME NEW r \in Requests, Relay(r) PROVE EdgeInv'
  <2>1. status[r] \in Codes
    BY <1>2 DEF Relay, EdgeInv, EdgeTypeOK, AnsweredInv
  <2>2. status' = [status EXCEPT ![r] = status[r]]
    BY <1>2 DEF Relay, EdgeInv, EdgeTypeOK
  <2> QED BY <1>2, <2>1, <2>2, GatewayFinishesInv DEF Relay
<1>3. ASSUME NEW r \in Requests, NEW asked \in Inputs \ {"none"}, Send(r, asked) PROVE EdgeInv'
  BY <1>3, SendInv
<1> QED
  BY <1>1, <1>2, <1>3, RejectInv, AcceptInv, RespondInv, UncountedInv, ServiceDiesInv, QuietInv
  DEF EdgeNext

-----------------------------------------------------------------------------
(* The inductive invariant. *)
THEOREM EdgeInvariant == EdgeSpec => []EdgeInv
BY EdgeInitially, EdgeStepInv, PTL DEF EdgeSpec

(* Every variable has its type; no gauge is lowered below 0, whatever hangs *)
(* up or dies.                                                              *)
THEOREM EdgeTypeCorrect == EdgeSpec => []EdgeTypeOK
<1>1. EdgeInv => EdgeTypeOK
  BY DEF EdgeInv
<1> QED BY <1>1, EdgeInvariant, PTL

(* The gateway's counters are the answers clients saw, by class. *)
THEOREM EdgeSliCountsWhatClientsSaw == EdgeSpec => []SliCountsWhatClientsSaw
<1>1. EdgeInv => SliCountsWhatClientsSaw
  BY DEF EdgeInv
<1> QED BY <1>1, EdgeInvariant, PTL

(* Each gauge is off by exactly the requests whose client hung up. *)
THEOREM EdgeGaugesOffByAborts == EdgeSpec => []GaugesOffByAborts
<1>1. EdgeInv => GaugesOffByAborts
  BY DEF EdgeInv
<1> QED BY <1>1, EdgeInvariant, PTL

(* Every 5xx the service counts is counted at the gateway, or on the way    *)
(* there, or its client hung up: the answers counted are those told and     *)
(* those not told yet.                                                      *)
THEOREM EdgeSliMissesNoServiceError == EdgeSpec => []SliMissesNoServiceError
<1>1. EdgeInv => SliMissesNoServiceError
  <2> SUFFICES ASSUME EdgeInv PROVE SliMissesNoServiceError
    OBVIOUS
  <2>1. AnsweredWith("5xx") \subseteq Told("5xx") \cup Untold("5xx")
    BY DEF AnsweredWith, Told, Untold, InService, InGateway
  <2>2. Told("5xx") \cup Untold("5xx") \subseteq Requests
    BY DEF Told, Untold, InService, InGateway
  <2>3. /\ IsFiniteSet(Told("5xx") \cup Untold("5xx"))
        /\ IsFiniteSet(Told("5xx")) /\ IsFiniteSet(Untold("5xx"))
        /\ IsFiniteSet(Told("5xx") \cap Untold("5xx"))
    BY <2>2, RequestsAssumption, FS_Subset
  <2>4. Cardinality(AnsweredWith("5xx")) <= Cardinality(Told("5xx") \cup Untold("5xx"))
    BY <2>1, <2>3, FS_Subset
  <2>5. Cardinality(Told("5xx") \cup Untold("5xx"))
          = Cardinality(Told("5xx")) + Cardinality(Untold("5xx"))
              - Cardinality(Told("5xx") \cap Untold("5xx"))
    BY <2>3, FS_Union
  <2>6. /\ Cardinality(AnsweredWith("5xx")) \in Nat
        /\ Cardinality(Told("5xx")) \in Nat /\ Cardinality(Untold("5xx")) \in Nat
        /\ Cardinality(Told("5xx") \cap Untold("5xx")) \in Nat
    BY <2>2, <2>3, RequestSets, SetsOfRequests, FS_CardinalityType
  <2>7. /\ serviceTotal["5xx"] <= Cardinality(AnsweredWith("5xx"))
        /\ gatewayTotal["5xx"] = Cardinality(Told("5xx"))
        /\ serviceTotal["5xx"] \in Nat
    BY DEF EdgeInv, ServiceCountInv, SliCountsWhatClientsSaw, EdgeTypeOK, Classes
  <2> HIDE DEF Told, Untold, AnsweredWith
  <2> QED BY <2>4, <2>5, <2>6, <2>7 DEF SliMissesNoServiceError
<1> QED BY <1>1, EdgeInvariant, PTL
=============================================================================
