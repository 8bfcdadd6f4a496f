---------------------------- MODULE OrderService ----------------------------
(***************************************************************************)
(* order-service: the POST /orders handler (routes/orders.js) and the AMQP *)
(* channel it publishes through (queue.js), with the gateway's answer when *)
(* the process is not there (gateway/src/index.js).                        *)
(*                                                                         *)
(* Node runs a handler without interruption from one await to the next, so *)
(* an action is what runs between two awaits.  Between them any other      *)
(* handler may run, the broker may stop and the process may die.           *)
(*                                                                         *)
(* connectQueue keeps no promise of the connection being made: each caller *)
(* that finds `channel` unset makes a connection of its own.  So a         *)
(* connection is named by its caller, a request or the warm-up at startup, *)
(* and `channel` names the connection whose channel was assigned last.     *)
(*                                                                         *)
(* A socket error makes amqplib emit 'error', which nothing listens to, so *)
(* the process dies: that is ServiceCrash.  A close the broker asks for    *)
(* (BrokerStops) emits 'close' only: the process goes on, with the closed  *)
(* channel still in `channel`.                                             *)
(***************************************************************************)
EXTENDS OrderQueue

CONSTANTS
    Warm,       \* warmQueueConnection, as a caller of connectQueue
    NoChannel   \* `channel` before its first assignment

ASSUME CallerAssumption == Warm \notin Orders /\ NoChannel \notin Orders \cup {Warm}

VARIABLES
    service,    \* whether the process is running
    handler,    \* handler[o]: the await that POST o is at, or how it ended
    reply,      \* reply[o]: the status code sent for POST o, 0 before
    channel,    \* queue.js's module variable `channel`
    link        \* link[c]: the connection that caller c of connectQueue made

serviceVars == <<service, handler, reply, channel, link>>

Callers == Orders \cup {Warm}

HandlerPhases == {"idle", "lookup", "insert", "connect", "replied", "publishError"}

LinkPhases == {"none", "connecting", "opening", "declaring", "open", "closed"}

NoReply == 0
Replies == {NoReply, 202, 400, 404, 500, 502}

(* A handler waiting at one of its awaits. *)
InFlight == {"lookup", "insert", "connect"}

(* A channel that sendToQueue writes to; on any other it throws. *)
Usable == {"declaring", "open"}

(* A connection past its handshake: closing it rejects what awaits on it. *)
Established == {"opening"} \cup Usable

ServiceInit ==
    /\ service = "down"
    /\ handler = [o \in Orders |-> "idle"]
    /\ reply = [o \in Orders |-> NoReply]
    /\ channel = NoChannel
    /\ link = [c \in Callers |-> "none"]

(* The handler of POST o answers with this code and ends. *)
End(o, code, phase) ==
    /\ handler' = [handler EXCEPT ![o] = phase]
    /\ reply' = [reply EXCEPT ![o] = code]

(* The handler of POST o goes on to the await called phase. *)
Await(o, phase) ==
    /\ handler' = [handler EXCEPT ![o] = phase]
    /\ UNCHANGED reply

-----------------------------------------------------------------------------
(* From the client's request to the row.                                   *)

(* The gateway cannot reach the process. *)
PostWhileDown(o) ==
    /\ handler[o] = "idle" /\ service = "down"
    /\ End(o, 502, "replied")
    /\ UNCHANGED <<service, channel, link, row, message, broker, faults>>

(* A body without userId, item or quantity. *)
PostInvalid(o) ==
    /\ handler[o] = "idle" /\ service = "up"
    /\ End(o, 400, "replied")
    /\ UNCHANGED <<service, channel, link, row, message, broker, faults>>

Post(o) ==
    /\ handler[o] = "idle" /\ service = "up"
    /\ Await(o, "lookup")
    /\ UNCHANGED <<service, channel, link, row, message, broker, faults>>

(* getUser's outcome; module UserLookup says how it comes about. *)
LookupReturns(o) ==
    /\ handler[o] = "lookup"
    /\ \/ Await(o, "insert")
       \/ End(o, 404, "replied")
       \/ End(o, 500, "replied")
    /\ UNCHANGED <<service, channel, link, row, message, broker, faults>>

InsertRuns(o) ==
    /\ handler[o] = "insert"
    /\ InsertCommits(o)
    /\ UNCHANGED <<serviceVars, message, broker, faults>>

InsertFails_NotForwarded(o) ==
    /\ handler[o] = "insert"
    /\ Await(o, "replied")
    /\ UNCHANGED <<service, channel, link, row, message, broker, faults>>

(* The query rejects, whether or not the statement was committed. *)
InsertFails(o) ==
    /\ handler[o] = "insert"
    /\ End(o, 500, "replied")
    /\ UNCHANGED <<service, channel, link, row, message, broker, faults>>

-----------------------------------------------------------------------------
(* From the row to the queue.                                              *)

Publish_ReplyThrows(o, ch) ==
    \/ /\ link[ch] \in Usable
       /\ message' = [message EXCEPT ![o] = "wire"]
       /\ End(o, 500, "replied")
    \/ /\ link[ch] \notin Usable
       /\ End(o, 500, "publishError")
       /\ UNCHANGED message

Publish_Swallows(o, ch) ==
    /\ End(o, 202, "replied")
    /\ message' = IF link[ch] \in Usable THEN [message EXCEPT ![o] = "wire"] ELSE message

(* sendToQueue on channel ch, and the reply: no await lies between them.   *)
(* When it throws, the error is counted and thrown on, to a 500.           *)
Publish(o, ch) ==
    \/ /\ link[ch] \in Usable
       /\ message' = [message EXCEPT ![o] = "wire"]
       /\ End(o, 202, "replied")
    \/ /\ link[ch] \notin Usable
       /\ End(o, 500, "publishError")
       /\ UNCHANGED message

(* The INSERT returns its row and connectQueue is called: it returns the   *)
(* channel there is, or starts a connection.                               *)
InsertReturns(o) ==
    /\ handler[o] = "insert" /\ row[o] = "pending"
    /\ \/ /\ channel # NoChannel
          /\ Publish(o, channel)
          /\ UNCHANGED link
       \/ /\ channel = NoChannel
          /\ Await(o, "connect")
          /\ link' = [link EXCEPT ![o] = "connecting"]
          /\ UNCHANGED message
    /\ UNCHANGED <<service, channel, row, broker, faults>>

Connected_AssignsEarly(c) ==
    /\ link[c] = "connecting" /\ broker = "up"
    /\ link' = [link EXCEPT ![c] = "opening"]
    /\ channel' = c
    /\ UNCHANGED <<service, handler, reply, row, message, broker, faults>>

(* amqplib.connect resolves; createChannel is called. *)
Connected(c) ==
    /\ link[c] = "connecting" /\ broker = "up"
    /\ link' = [link EXCEPT ![c] = "opening"]
    /\ UNCHANGED <<service, handler, reply, channel, row, message, broker, faults>>

(* amqplib.connect rejects: the request is answered 500, the warm-up logs. *)
ConnectFails(c) ==
    /\ link[c] = "connecting" /\ broker = "down"
    /\ link' = [link EXCEPT ![c] = "none"]
    /\ \/ c \in Orders /\ End(c, 500, "publishError")
       \/ c = Warm /\ UNCHANGED <<handler, reply>>
    /\ UNCHANGED <<service, channel, row, message, broker, faults>>

(* createChannel resolves: `channel` is assigned; assertQueue is called. *)
ChannelCreated(c) ==
    /\ link[c] = "opening"
    /\ link' = [link EXCEPT ![c] = "declaring"]
    /\ channel' = c
    /\ UNCHANGED <<service, handler, reply, row, message, broker, faults>>

(* assertQueue resolves: connectQueue returns `channel`, which by now may  *)
(* be another caller's, and the request publishes on it.                   *)
QueueDeclared(c) ==
    /\ link[c] = "declaring"
    /\ link' = [link EXCEPT ![c] = "open"]
    /\ \/ c \in Orders /\ Publish(c, channel)
       \/ c = Warm /\ UNCHANGED <<handler, reply, message>>
    /\ UNCHANGED <<service, channel, row, broker, faults>>

-----------------------------------------------------------------------------
(* What happens to the process.                                            *)

(* The broker closes the connections.  A connectQueue that awaits on one   *)
(* rejects; a channel that had been assigned to `channel` stays there.     *)
ConnectionsClose ==
    LET rejected == {o \in Orders : link[o] \in {"opening", "declaring"}}
    IN  /\ link' = [c \in Callers |-> IF link[c] \in Established
                                      THEN "closed" ELSE link[c]]
        /\ handler' = [o \in Orders |-> IF o \in rejected
                                        THEN "publishError" ELSE handler[o]]
        /\ reply' = [o \in Orders |-> IF o \in rejected THEN 500 ELSE reply[o]]
        /\ UNCHANGED <<service, channel>>

ServiceCrash_AnswersAgain ==
    /\ service = "up" /\ Fault("service")
    /\ service' = "down"
    /\ handler' = [o \in Orders |-> IF handler[o] # "idle" THEN "replied" ELSE handler[o]]
    /\ reply' = [o \in Orders |-> IF handler[o] # "idle" THEN 502 ELSE reply[o]]
    /\ channel' = NoChannel
    /\ link' = [c \in Callers |-> "none"]
    /\ message' = [o \in Orders |-> LoseWire(message[o])]
    /\ UNCHANGED <<row, broker>>

(* The process exits, on a signal, an uncaught error or a kill: the gateway *)
(* answers 502 for what it was handling, and what it had not written to a   *)
(* socket is lost.                                                          *)
ServiceCrash ==
    /\ service = "up" /\ Fault("service")
    /\ service' = "down"
    /\ handler' = [o \in Orders |-> IF handler[o] \in InFlight
                                    THEN "replied" ELSE handler[o]]
    /\ reply' = [o \in Orders |-> IF handler[o] \in InFlight THEN 502 ELSE reply[o]]
    /\ channel' = NoChannel
    /\ link' = [c \in Callers |-> "none"]
    /\ message' = [o \in Orders |-> LoseWire(message[o])]
    /\ UNCHANGED <<row, broker>>

(* The container starts: the process listens and warms the connection. *)
ServiceStarts ==
    /\ service = "down"
    /\ service' = "up"
    /\ link' = [link EXCEPT ![Warm] = "connecting"]
    /\ UNCHANGED <<handler, reply, channel, row, message, broker, faults>>

-----------------------------------------------------------------------------
ServiceStep ==
    \/ ServiceStarts \/ ServiceCrash
    \/ \E o \in Orders :
          \/ PostWhileDown(o) \/ PostInvalid(o) \/ Post(o)
          \/ LookupReturns(o) \/ InsertRuns(o) \/ InsertFails(o) \/ InsertReturns(o)
    \/ \E c \in Callers :
          Connected(c) \/ ConnectFails(c) \/ ChannelCreated(c) \/ QueueDeclared(c)

(* order-service with a broker, and nobody who consumes. *)
ServiceNext ==
    \/ ServiceStep
    \/ (\E o \in Orders : BrokerReceives(o)) /\ UNCHANGED serviceVars
    \/ BrokerStops /\ ConnectionsClose
    \/ BrokerStarts /\ UNCHANGED serviceVars

publisherVars == <<serviceVars, queueVars, row, faults>>

PublisherInit == ServiceInit /\ QueueInit /\ StoreInit /\ EnvironmentInit

ServiceSpec == PublisherInit /\ [][ServiceNext]_publisherVars

-----------------------------------------------------------------------------
ServiceTypeOK ==
    /\ service \in {"up", "down"}
    /\ handler \in [Orders -> HandlerPhases]
    /\ reply \in [Orders -> Replies]
    /\ channel \in Callers \cup {NoChannel}
    /\ link \in [Callers -> LinkPhases]

(* An order that POST o has just failed to publish. *)
FailsToPublish(o) == handler[o] # "publishError" /\ handler'[o] = "publishError"

(* queue.js: concurrent callers of connectQueue each make a connection, and *)
(* one may publish on the channel another has just assigned, not declared   *)
(* yet.  None of this loses a publish: it fails only because the broker is  *)
(* away or going away, or because the broker had closed the channel that    *)
(* `channel` still holds.                                                   *)
PublishFailsOnlyByOutage ==
    [][\A o \in Orders : FailsToPublish(o) =>
          \/ broker' = "down"
          \/ channel # NoChannel /\ link[channel] = "closed"]_publisherVars

(* docs/runbooks/slo-burn-rate.md: after a dropped connection the request   *)
(* re-establishes it in-band; queue.js: publishOrderCreated connects on     *)
(* demand.  So a publish fails, with the broker up, only after an attempt   *)
(* of its own to connect.                                                   *)
DroppedConnectionIsReestablished ==
    [][\A o \in Orders : FailsToPublish(o) /\ broker' = "up" => link[o] # "none"]_publisherVars

(* docs/runbooks/dependency-degraded.md: when publishing fails nothing      *)
(* user-facing does: the order stays pending and the client hears no error. *)
PublishFailureIsSilent ==
    \A o \in Orders : handler[o] = "publishError" => reply[o] \notin {500, 502}
=============================================================================
