-------------------------- MODULE CorrelationProofs --------------------------
(***************************************************************************)
(* Proofs about Correlation, for every set of requests and of client ids   *)
(* and every number of faults.                                             *)
(***************************************************************************)
EXTENDS Correlation, TLAPS

(* The one id of request r: that of the service its client talks to. *)
Root(r) == IF door[r] = "gateway" THEN context["gateway"][r]
                                  ELSE context["order-service"][r]

(* The record of a line of s about r under r's own id. *)
Own(s, r) == [from |-> s, about |-> r, id |-> Root(r)]

(* Wherever request r has an id, it is Root(r). *)
OneIdInv ==
    \A r \in Requests :
        /\ \A s \in Services : context[s][r] \in {NoId, Root(r)}
        /\ carried[r] \in {NoId, Root(r)}
        /\ returned[r] \in {NoId, Root(r)}
        /\ Root(r) \in ClientIds \cup {NoId, Fresh("gateway", r), Fresh("order-service", r)}

(* What there is of request r in each phase. *)
PhaseInv ==
    \A r \in Requests :
        /\ door[r] \in {"gateway", "order-service"}
        /\ phase[r] = "idle" => door[r] = "gateway" /\ context["gateway"][r] = NoId
        /\ phase[r] # "idle" /\ door[r] = "gateway"
              => header[r] = context["gateway"][r] /\ header[r] # NoId
        /\ door[r] = "order-service"
              => context["gateway"][r] = NoId /\ header[r] \in ClientIds \cup {NoId}
        /\ phase[r] \in {"idle", "sent"} => context["order-service"][r] = NoId
        /\ phase[r] \in {"idle", "sent", "parsing", "lookup"}
              => context["user-service"][r] = NoId
        /\ phase[r] \in InService \cup {"answered"} => context["order-service"][r] # NoId
        /\ phase[r] # "over" => returned[r] = NoId
        /\ r \in asked => /\ phase[r] \in {"fetch", "answered", "lost", "over"}
                          /\ message[r] = "none"
                          /\ context["user-service"][r] # NoId

(* What there is of the message about r. *)
CarriedInv ==
    \A r \in Requests :
        /\ message[r] # "none" => carried[r] # NoId /\ phase[r] \in {"answered", "over"}
        /\ message[r] = "none" => context["worker"][r] = NoId
        /\ message[r] \in {"delivered", "processed"} => context["worker"][r] # NoId

(* A line about a request carries the id of the request ... *)
LineInv ==
    /\ redis = "open" => redisContext # NoId
    /\ \A line \in lines :
          line.about \in Requests => line.id = Root(line.about) /\ line.id # NoId

(* ... and the lines there must be are there. *)
LoggedInv ==
    \A r \in Requests :
        /\ returned[r] # NoId /\ door[r] = "gateway" => Own("gateway", r) \in lines
        /\ phase[r] = "publish" \/ message[r] # "none" => Own("order-service", r) \in lines
        /\ message[r] \in {"processed", "gone"} => Own("worker", r) \in lines
        /\ context["user-service"][r] # NoId /\ r \notin asked
              => Own("user-service", r) \in lines

CorrelationInv ==
    CorrelationTypeOK /\ OneIdInv /\ PhaseInv /\ CarriedInv /\ LineInv /\ LoggedInv

-----------------------------------------------------------------------------
(* An adopted id is an id, and the inbound one if there is one. *)
LEMMA AdoptedId ==
    ASSUME NEW s \in Services, NEW r \in Requests, NEW id \in Ids \cup {NoId}
    PROVE  Adopt(s, r, id) \in Ids /\ Adopt(s, r, id) # NoId
BY CorrelationAssumption DEF Adopt, Ids

(* No two generated ids are the same. *)
LEMMA FreshDiffers ==
    ASSUME NEW s, NEW t, NEW q, NEW r, Fresh(s, q) = Fresh(t, r)
    PROVE  q = r
<1>1. Fresh(s, q).for = q /\ Fresh(t, r).for = r
  BY DEF Fresh
<1> QED BY <1>1

(* The invariant holds at the start. *)
LEMMA CorrelationInvInit == CorrelationInit => CorrelationInv
BY CorrelationAssumption
   DEF CorrelationInit, EnvironmentInit, CorrelationInv, CorrelationTypeOK, OneIdInv, PhaseInv,
       CarriedInv, LineInv, LoggedInv, Root, Own, Services, Phases, InService, InHandler, Messages

(* The invariant is kept by each action. *)
LEMMA CorrelationStepInv ==
    ASSUME CorrelationInv, [CorrelationNext]_correlationVars
    PROVE  CorrelationInv'
<1> USE CorrelationAssumption
    DEF CorrelationInv, CorrelationTypeOK, OneIdInv, PhaseInv, CarriedInv, LineInv, LoggedInv,
        Root, Own, Line, Logs, Goes, Services, Phases, InService, InHandler, Messages,
        requestVars, queueVars, redisVars
<1>1. ASSUME NEW r \in Requests, NEW id \in ClientIds \cup {NoId}, Send(r, id)
      PROVE  CorrelationInv'
  <2>1. CorrelationTypeOK'
    <3>1. Adopt("gateway", r, id) \in Ids
      BY AdoptedId DEF Ids
    <3> QED BY <1>1, <3>1 DEF Send
  <2>2. OneIdInv'
    BY <1>1 DEF Send, Ids, Adopt
  <2>3. PhaseInv'
    BY <1>1 DEF Send, Ids, Adopt
  <2>4. CarriedInv'
    BY <1>1 DEF Send, Ids, Adopt
  <2>5. LineInv'
    BY <1>1 DEF Send, Ids, Adopt
  <2>6. LoggedInv'
    BY <1>1 DEF Send, Ids, Adopt
  <2> QED BY <2>1, <2>2, <2>3, <2>4, <2>5, <2>6 DEF CorrelationInv
<1>2. ASSUME NEW r \in Requests, NEW id \in ClientIds \cup {NoId}, SendDirect(r, id)
      PROVE  CorrelationInv'
  <2>1. id \in Ids \cup {NoId}
    BY DEF Ids
  <2> QED BY <1>2, <2>1 DEF SendDirect
<1>3. ASSUME NEW r \in Requests, Relay(r)
      PROVE  CorrelationInv'
  BY <1>3 DEF Relay
<1>4. ASSUME NEW r \in Requests, Unreachable(r)
      PROVE  CorrelationInv'
  <2>1. CorrelationTypeOK'
    BY <1>4 DEF Unreachable
  <2>2. OneIdInv'
    BY <1>4 DEF Unreachable
  <2>3. PhaseInv'
    BY <1>4 DEF Unreachable
  <2>4. CarriedInv'
    BY <1>4 DEF Unreachable
  <2>5. LineInv'
    BY <1>4 DEF Unreachable
  <2>6. LoggedInv'
    BY <1>4 DEF Unreachable
  <2> QED BY <2>1, <2>2, <2>3, <2>4, <2>5, <2>6 DEF CorrelationInv
<1>5. ASSUME NEW r \in Requests, Enter(r)
      PROVE  CorrelationInv'
  <2>1. CorrelationTypeOK'
    <3>1. Adopt("order-service", r, header[r]) \in Ids
      BY AdoptedId
    <3> QED BY <1>5, <3>1 DEF Enter
  <2>2. OneIdInv'
    BY <1>5 DEF Enter, Ids, Adopt
  <2>3. PhaseInv'
    BY <1>5 DEF Enter, Ids, Adopt
  <2>4. CarriedInv'
    BY <1>5 DEF Enter, Ids, Adopt
  <2>5. LineInv'
    BY <1>5 DEF Enter, Ids, Adopt
  <2>6. LoggedInv'
    BY <1>5 DEF Enter, Ids, Adopt
  <2> QED BY <2>1, <2>2, <2>3, <2>4, <2>5, <2>6 DEF CorrelationInv
<1>6. ASSUME NEW r \in Requests, EndsEarly(r)
      PROVE  CorrelationInv'
  BY <1>6 DEF EndsEarly
<1>7. ASSUME NEW r \in Requests, LookUp(r)
      PROVE  CorrelationInv'
  BY <1>7 DEF LookUp
<1>8. ASSUME NEW r \in Requests, Hit(r)
      PROVE  CorrelationInv'
  BY <1>8 DEF Hit
<1>9. ASSUME NEW r \in Requests, Fetch(r)
      PROVE  CorrelationInv'
  <2>1. Adopt("user-service", r, context["order-service"][r]) = context["order-service"][r]
    BY <1>9 DEF Fetch, Adopt
  <2> QED BY <1>9, <2>1 DEF Fetch
<1>10. ASSUME NEW r \in Requests, UserServiceAnswers(r)
      PROVE  CorrelationInv'
  BY <1>10 DEF UserServiceAnswers
<1>11. ASSUME NEW r \in Requests, Fetched(r)
      PROVE  CorrelationInv'
  BY <1>11 DEF Fetched
<1>12. ASSUME NEW r \in Requests, Insert(r)
      PROVE  CorrelationInv'
  <2>1. CorrelationTypeOK'
    BY <1>12 DEF Insert
  <2>2. OneIdInv'
    BY <1>12 DEF Insert
  <2>3. PhaseInv'
    BY <1>12 DEF Insert
  <2>4. CarriedInv'
    BY <1>12 DEF Insert
  <2>5. LineInv'
    BY <1>12 DEF Insert
  <2>6. LoggedInv'
    BY <1>12 DEF Insert
  <2> QED BY <2>1, <2>2, <2>3, <2>4, <2>5, <2>6 DEF CorrelationInv
<1>13. ASSUME NEW r \in Requests, Publish(r)
      PROVE  CorrelationInv'
  BY <1>13 DEF Publish
<1>14. ASSUME NEW r \in Requests, Deliver(r)
      PROVE  CorrelationInv'
  BY <1>14 DEF Deliver
<1>15. ASSUME NEW r \in Requests, Process(r)
      PROVE  CorrelationInv'
  BY <1>15 DEF Process
<1>16. ASSUME NEW r \in Requests, Settle(r)
      PROVE  CorrelationInv'
  BY <1>16 DEF Settle
<1>17. CASE RedisFails
  BY <1>17 DEF RedisFails
<1>18. CASE ServiceDies
  BY <1>18 DEF ServiceDies, Fault
<1>19. CASE ServiceReturns
  BY <1>19 DEF ServiceReturns
<1>20. CASE WorkerDies
  BY <1>20 DEF WorkerDies, Fault
<1>21. CASE UNCHANGED correlationVars
  BY <1>21 DEF correlationVars
<1> QED
  BY <1>1, <1>2, <1>3, <1>4, <1>5, <1>6, <1>7, <1>8, <1>9, <1>10, <1>11, <1>12, <1>13,
     <1>14, <1>15, <1>16, <1>17, <1>18, <1>19, <1>20, <1>21 DEF CorrelationNext

(* Types, and no line without an id. *)
THEOREM CorrelationInvariant == CorrelationSpec => []CorrelationInv
<1>1. CorrelationInit => CorrelationInv
  BY CorrelationInvInit
<1>2. CorrelationInv /\ [CorrelationNext]_correlationVars => CorrelationInv'
  BY CorrelationStepInv
<1> QED BY <1>1, <1>2, PTL DEF CorrelationSpec

(* Every value has its type; no line of a service is without an id. *)
THEOREM CorrelationTypeCorrect == CorrelationSpec => []CorrelationTypeOK
<1>1. CorrelationInv => CorrelationTypeOK
  BY DEF CorrelationInv
<1> QED BY <1>1, CorrelationInvariant, PTL

(* What a client reads in x-request-id is in every line about its request, *)
(* in all services, redeliveries and crashes.                              *)
THEOREM LinesAreFound == CorrelationSpec => []LinesCarryTheReturnedId
<1>1. CorrelationInv => LinesCarryTheReturnedId
  BY DEF CorrelationInv, OneIdInv, LineInv, LinesCarryTheReturnedId
<1> QED BY <1>1, CorrelationInvariant, PTL

(* The returned id finds each service's part in an order that is done with. *)
THEOREM OrdersAreFollowed == CorrelationSpec => []OneQueryFollowsTheOrder
<1>1. CorrelationInv => OneQueryFollowsTheOrder
  <2> SUFFICES ASSUME CorrelationInv, NEW r \in Requests,
                      message[r] = "gone", returned[r] # NoId
               PROVE  /\ {door[r], "order-service", "worker"} \subseteq Wrote(r, returned[r])
                      /\ context["user-service"][r] # NoId =>
                            "user-service" \in Wrote(r, returned[r])
    BY DEF OneQueryFollowsTheOrder
  <2>1. returned[r] = Root(r) /\ r \notin asked
    BY DEF CorrelationInv, OneIdInv, PhaseInv
  <2>2. /\ Own("order-service", r) \in lines /\ Own("worker", r) \in lines
        /\ door[r] = "gateway" => Own("gateway", r) \in lines
        /\ context["user-service"][r] # NoId => Own("user-service", r) \in lines
    BY <2>1 DEF CorrelationInv, LoggedInv
  <2> QED BY <2>1, <2>2 DEF CorrelationInv, PhaseInv, Own, Wrote, Services
<1> QED BY <1>1, CorrelationInvariant, PTL

(* No two requests share an id that their clients did not choose. *)
THEOREM QueriesAreSeparate == CorrelationSpec => []QueryFindsNoOtherRequest
<1>1. CorrelationInv => QueryFindsNoOtherRequest
  <2> SUFFICES ASSUME CorrelationInv, NEW k \in lines, NEW l \in lines,
                      k.id = l.id, k.about # l.about, Nobody \notin {k.about, l.about}
               PROVE  k.id \in ClientIds
    BY DEF QueryFindsNoOtherRequest
  <2> DEFINE q == k.about
             r == l.about
  <2>1. q \in Requests /\ r \in Requests
    BY DEF CorrelationInv, CorrelationTypeOK
  <2>2. k.id = Root(q) /\ l.id = Root(r) /\ k.id # NoId
    BY <2>1 DEF CorrelationInv, LineInv
  <2>3. /\ k.id \in ClientIds \cup {Fresh("gateway", q), Fresh("order-service", q)}
        /\ l.id \in ClientIds \cup {Fresh("gateway", r), Fresh("order-service", r)}
    BY <2>1, <2>2 DEF CorrelationInv, OneIdInv
  <2>4. \A s, t : Fresh(s, q) # Fresh(t, r)
    BY FreshDiffers
  <2> QED BY <2>3, <2>4
<1> QED BY <1>1, CorrelationInvariant, PTL
=============================================================================
