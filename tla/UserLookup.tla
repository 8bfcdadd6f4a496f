----------------------------- MODULE UserLookup -----------------------------
(***************************************************************************)
(* getUser (order-service/src/userClient.js): the cache-aside lookup of a  *)
(* user, over one Redis client shared by every request (redisClient.js)    *)
(* and a call to user-service on a miss.  Rows of users are inserted by    *)
(* POST /users and never change or go away.  GET /health (index.js) uses   *)
(* the same client, and waits for it without a timer.                      *)
(*                                                                         *)
(* withTimeout races an operation against a timer and abandons it, without *)
(* cancelling it, when the timer wins: an abandoned connect goes on        *)
(* dialling and an abandoned SET may reach Redis after its lookup is over. *)
(* A timer may win at any moment, Redis being slow, hung or down.          *)
(*                                                                         *)
(* node-redis, as redisClient.js uses it: isOpen is true from the call of  *)
(* connect() until the strategy returns an Error, which rejects connect()  *)
(* and what is queued; a client that loses its connection dials again by   *)
(* itself.  incident-002 shows a client back in use after an outage much   *)
(* longer than the strategy's delays, so one that gave up can be reopened. *)
(***************************************************************************)
EXTENDS Naturals, FiniteSets

CONSTANTS
    Lookups,        \* the calls of getUser
    Checks,         \* the callers of GET /health, each again and again
    Users,          \* user ids, registered or not
    NoUser,         \* the subject of a lookup that has not begun
    MaxRetries,     \* the strategy's limit, 5 in redisClient.js
    MaxOutages      \* bound on the number of Redis outages

ASSUME LookupAssumption ==
    /\ IsFiniteSet(Lookups) /\ IsFiniteSet(Checks) /\ Lookups \cap Checks = {}
    /\ NoUser \notin Users
    /\ MaxRetries \in Nat /\ MaxOutages \in Nat

VARIABLES
    users,      \* the ids with a row in users
    redis,      \* whether the Redis server answers
    outages,    \* how many outages it has had
    cache,      \* cache[u]: what Redis holds under user:u
    writes,     \* the SETs given to the client that Redis has not run
    client,     \* the shared client: "closed" is isOpen = false
    retries,    \* failed attempts in the client's present round of dialling
    dials,      \* the lookups and checks whose client.connect() has not settled
    check,      \* check[c]: the await that check c is at, or how it ended
    step,       \* step[l]: the await that lookup l is at
    subject,    \* subject[l]: the userId it was called with
    caching,    \* caching[l]: its variable redis is still defined
    known,      \* the lookups that began after their user was registered
    outcome     \* outcome[l]: what getUser returned or threw

storeVars == <<users, redis, outages, cache, writes>>
(* The client, and the health checks that wait for nothing else. *)
clientVars == <<client, retries, dials, check>>
lookupVars == <<step, subject, caching, known, outcome>>
userLookupVars == <<storeVars, clientVars, lookupVars>>

(* "null" would be the JSON of a user that was not found. *)
CacheValues == {"empty", "user", "null"}
Write == [key : Users, value : CacheValues \ {"empty"}]
(* "missing" and "body": user-service's 404, or its 200, is on the way. *)
Steps == {"idle", "connect", "get", "fetch", "missing", "body", "set", "done"}
ReadingCache == {"connect", "get"}
AwaitsOrigin == {"fetch", "missing", "body"}
CheckPhases == {"idle", "connect", "ping", "healthy", "unhealthy"}
AwaitsClient == {"connect", "ping"}
(* getUser throws: user-service refused the request, or anything else.     *)
Failures == {"refused", "error"}
Outcomes == {"none", "user", "notFound"} \cup Failures

Init ==
    /\ users = {}
    /\ redis = "up"
    /\ outages = 0
    /\ cache = [u \in Users |-> "empty"]
    /\ writes = {}
    /\ client = "closed"
    /\ retries = 0
    /\ dials = {}
    /\ check = [c \in Checks |-> "idle"]
    /\ step = [l \in Lookups |-> "idle"]
    /\ subject = [l \in Lookups |-> NoUser]
    /\ caching = [l \in Lookups |-> FALSE]
    /\ known = {}
    /\ outcome = [l \in Lookups |-> "none"]

(* Lookup l goes on to its next await, or ends with this outcome. *)
Proceed(l, next) ==
    /\ step' = [step EXCEPT ![l] = next]
    /\ UNCHANGED outcome

Finish(l, result) ==
    /\ step' = [step EXCEPT ![l] = "done"]
    /\ outcome' = [outcome EXCEPT ![l] = result]

-----------------------------------------------------------------------------
(* The cache.                                                              *)

Ask_WhenNotReady(l, u) ==
    /\ step[l] = "idle"
    /\ subject' = [subject EXCEPT ![l] = u]
    /\ known' = IF u \in users THEN known \cup {l} ELSE known
    /\ \/ /\ client # "ready"
          /\ client' = "connecting"
          /\ retries' = 0
          /\ dials' = dials \cup {l}
          /\ UNCHANGED check
          /\ Proceed(l, "connect")
       \/ /\ client = "ready"
          /\ UNCHANGED clientVars
          /\ Proceed(l, "get")
    /\ UNCHANGED <<storeVars, caching>>

(* getUser is called.  connectRedis opens the client if nobody did; if     *)
(* somebody did, it returns at once and GET is given to the client.        *)
Ask(l, u) ==
    /\ step[l] = "idle"
    /\ subject' = [subject EXCEPT ![l] = u]
    /\ known' = IF u \in users THEN known \cup {l} ELSE known
    /\ \/ /\ client = "closed"
          /\ client' = "connecting"
          /\ retries' = 0
          /\ dials' = dials \cup {l}
          /\ UNCHANGED check
          /\ Proceed(l, "connect")
       \/ /\ client # "closed"
          /\ UNCHANGED clientVars
          /\ Proceed(l, "get")
    /\ UNCHANGED <<storeVars, caching>>

CacheReadFails_Rethrows(l) ==
    /\ step[l] \in ReadingCache
    /\ Finish(l, "error")
    /\ UNCHANGED <<storeVars, clientVars, subject, caching, known>>

CacheReadFails_OnlyWhileClosed(l) ==
    /\ step[l] \in ReadingCache /\ client = "closed"
    /\ Proceed(l, "fetch")
    /\ UNCHANGED <<storeVars, clientVars, subject, caching, known>>

(* Connecting or reading fails or takes 750 ms: a miss, and no SET later. *)
CacheReadFails(l) ==
    /\ step[l] \in ReadingCache
    /\ Proceed(l, "fetch")
    /\ UNCHANGED <<storeVars, clientVars, subject, caching, known>>

(* GET answers: what was cached, or a miss with the cache at hand. *)
CacheAnswers(l) ==
    /\ step[l] = "get" /\ client = "ready" /\ redis = "up"
    /\ \/ /\ cache[subject[l]] # "empty"
          /\ Finish(l, IF cache[subject[l]] = "user" THEN "user" ELSE "notFound")
          /\ UNCHANGED caching
       \/ /\ cache[subject[l]] = "empty" /\ Proceed(l, "fetch")
          /\ caching' = [caching EXCEPT ![l] = TRUE]
    /\ UNCHANGED <<storeVars, clientVars, subject, known>>

-----------------------------------------------------------------------------
(* user-service, and the cache again.                                      *)

(* It reads no such row and answers 404. *)
UserMissing(l) ==
    /\ step[l] = "fetch" /\ subject[l] \notin users
    /\ Proceed(l, "missing")
    /\ UNCHANGED <<storeVars, clientVars, subject, caching, known>>

UserNotFound_Cached(l) ==
    /\ step[l] = "missing"
    /\ Finish(l, "notFound")
    /\ writes' = IF caching[l] /\ client # "closed"
                 THEN writes \cup {[key |-> subject[l], value |-> "null"]} ELSE writes
    /\ UNCHANGED <<users, redis, outages, cache, clientVars, subject, caching, known>>

(* The 404 arrives; by now there may be such a row. *)
UserNotFound(l) ==
    /\ step[l] = "missing"
    /\ Finish(l, "notFound")
    /\ UNCHANGED <<storeVars, clientVars, subject, caching, known>>

(* There is a row: the 200 is here, and the body is on the way. *)
UserFound(l) ==
    /\ step[l] = "fetch" /\ subject[l] \in users
    /\ Proceed(l, "body")
    /\ UNCHANGED <<storeVars, clientVars, subject, caching, known>>

(* A 4xx that is not a 404, which getUser throws: Express could not decode *)
(* the id, so that no row has it.                                          *)
UserRefused(l) ==
    /\ step[l] = "fetch" /\ subject[l] \notin users
    /\ Finish(l, "refused")
    /\ UNCHANGED <<storeVars, clientVars, subject, caching, known>>

OriginFails_NullUser(l) ==
    /\ step[l] \in AwaitsOrigin
    /\ Finish(l, "notFound")
    /\ UNCHANGED <<storeVars, clientVars, subject, caching, known>>

(* No answer in 2000 ms, no connection, a 5xx, or a body that breaks off:  *)
(* getUser throws.                                                         *)
OriginFails(l) ==
    /\ step[l] \in AwaitsOrigin
    /\ Finish(l, "error")
    /\ UNCHANGED <<storeVars, clientVars, subject, caching, known>>

(* The body is read; SET is given to the client if GET had worked.  On a   *)
(* closed client it rejects at once.                                       *)
UserArrives(l) ==
    /\ step[l] = "body"
    /\ \/ /\ caching[l]
          /\ Proceed(l, "set")
          /\ writes' = IF client = "closed" THEN writes
                       ELSE writes \cup {[key |-> subject[l], value |-> "user"]}
       \/ /\ ~caching[l]
          /\ Finish(l, "user")
          /\ UNCHANGED writes
    /\ UNCHANGED <<users, redis, outages, cache, clientVars, subject, caching, known>>

(* SET is acknowledged, fails or takes 750 ms: the user is returned. *)
SetEnds(l) ==
    /\ step[l] = "set"
    /\ Finish(l, "user")
    /\ UNCHANGED <<storeVars, clientVars, subject, caching, known>>

-----------------------------------------------------------------------------
(* GET /health.                                                            *)

(* SELECT 1 has failed, or has returned and connectRedis is called, as in  *)
(* Ask; then PING is given to the client.                                  *)
CheckStarts(c) ==
    /\ check[c] \notin AwaitsClient
    /\ \/ /\ check' = [check EXCEPT ![c] = "unhealthy"]
          /\ UNCHANGED <<client, retries, dials>>
       \/ /\ client = "closed"
          /\ client' = "connecting"
          /\ retries' = 0
          /\ dials' = dials \cup {c}
          /\ check' = [check EXCEPT ![c] = "connect"]
       \/ /\ client # "closed"
          /\ check' = [check EXCEPT ![c] = "ping"]
          /\ UNCHANGED <<client, retries, dials>>
    /\ UNCHANGED <<storeVars, lookupVars>>

(* PING answers: 200. *)
CheckAnswers(c) ==
    /\ check[c] = "ping" /\ client = "ready" /\ redis = "up"
    /\ check' = [check EXCEPT ![c] = "healthy"]
    /\ UNCHANGED <<storeVars, client, retries, dials, lookupVars>>

(* What the checks wait for is rejected: 503. *)
ChecksFail(awaits) ==
    check' = [c \in Checks |-> IF check[c] \in awaits THEN "unhealthy" ELSE check[c]]

-----------------------------------------------------------------------------
(* The shared client.                                                      *)

(* connect() resolves: whoever still waits for it gives its GET or PING. *)
Connected ==
    /\ client = "connecting" /\ redis = "up"
    /\ client' = "ready"
    /\ dials' = {}
    /\ step' = [l \in Lookups |-> IF l \in dials /\ step[l] = "connect"
                                  THEN "get" ELSE step[l]]
    /\ check' = [c \in Checks |-> IF check[c] = "connect" THEN "ping" ELSE check[c]]
    /\ UNCHANGED <<storeVars, retries, subject, caching, known, outcome>>

DialFails_Redials ==
    /\ client = "connecting" /\ redis = "down"
    /\ retries' = IF retries <= MaxRetries THEN retries + 1 ELSE retries
    /\ UNCHANGED <<storeVars, client, dials, check, lookupVars>>

(* An attempt fails; past the limit the strategy returns an Error: connect *)
(* and the queued operations reject, and the client is closed.             *)
DialFails ==
    /\ client = "connecting" /\ redis = "down"
    /\ \/ /\ retries <= MaxRetries
          /\ retries' = retries + 1
          /\ UNCHANGED <<client, dials, check, writes, step>>
       \/ /\ retries > MaxRetries
          /\ client' = "closed"
          /\ dials' = {}
          /\ ChecksFail(AwaitsClient)
          /\ writes' = {}
          /\ step' = [l \in Lookups |-> IF step[l] \in ReadingCache
                                        THEN "fetch" ELSE step[l]]
          /\ UNCHANGED retries
    /\ UNCHANGED <<users, redis, outages, cache, subject, caching, known, outcome>>

(* Redis runs a SET, its lookup perhaps over. *)
WriteRuns(w) ==
    /\ w \in writes /\ client = "ready" /\ redis = "up"
    /\ cache' = [cache EXCEPT ![w.key] = w.value]
    /\ writes' = writes \ {w}
    /\ UNCHANGED <<users, redis, outages, clientVars, lookupVars>>

(* Redis goes away: a ready client loses what it had sent and dials anew. *)
RedisStops ==
    /\ redis = "up" /\ outages < MaxOutages
    /\ redis' = "down"
    /\ outages' = outages + 1
    /\ \/ /\ client = "ready"
          /\ client' = "connecting" /\ retries' = 0 /\ writes' = {}
          /\ ChecksFail({"ping"})
       \/ /\ client # "ready"
          /\ UNCHANGED <<client, retries, check, writes>>
    /\ UNCHANGED <<users, cache, dials, lookupVars>>

RedisStarts ==
    /\ redis = "down"
    /\ redis' = "up"
    /\ UNCHANGED <<users, outages, cache, writes, clientVars, lookupVars>>

(* The entry's TTL runs out, or Redis lost it. *)
Expires(u) ==
    /\ cache[u] # "empty"
    /\ cache' = [cache EXCEPT ![u] = "empty"]
    /\ UNCHANGED <<users, redis, outages, writes, clientVars, lookupVars>>

(* POST /users inserts a row (user-service/src/routes/users.js). *)
Register(u) ==
    /\ u \notin users
    /\ users' = users \cup {u}
    /\ UNCHANGED <<redis, outages, cache, writes, clientVars, lookupVars>>

-----------------------------------------------------------------------------
LookupStep(l) ==
    \/ CacheReadFails(l) \/ CacheAnswers(l) \/ UserMissing(l) \/ UserNotFound(l)
    \/ UserFound(l) \/ UserRefused(l) \/ OriginFails(l) \/ UserArrives(l) \/ SetEnds(l)

Next ==
    \/ \E l \in Lookups : LookupStep(l) \/ \E u \in Users : Ask(l, u)
    \/ \E c \in Checks : CheckStarts(c) \/ CheckAnswers(c)
    \/ \E w \in writes : WriteRuns(w)
    \/ \E u \in Users : Expires(u) \/ Register(u)
    \/ Connected \/ DialFails \/ RedisStops \/ RedisStarts

Spec == Init /\ [][Next]_userLookupVars

(* Only getUser's own awaits are fair, and they are because each has a     *)
(* timer: nothing is assumed of Redis, of the client or of user-service.   *)
AwaitFairness(l) == WF_userLookupVars(LookupStep(l))

LookupFairness == \A l \in Lookups : AwaitFairness(l)

FairSpec == Spec /\ LookupFairness

(* For the health checks: attempts to connect end, and a Redis that is up  *)
(* answers.                                                                *)
DialEnds == Connected \/ DialFails

CheckFairness(c) == WF_userLookupVars(CheckAnswers(c))

ChecksFairness == \A c \in Checks : CheckFairness(c)

ClientFairness == WF_userLookupVars(DialEnds) /\ ChecksFairness

-----------------------------------------------------------------------------
LookupTypeOK ==
    /\ users \subseteq Users
    /\ redis \in {"up", "down"}
    /\ outages \in 0..MaxOutages
    /\ cache \in [Users -> CacheValues]
    /\ writes \subseteq Write
    /\ client \in {"closed", "connecting", "ready"}
    /\ retries \in 0..(MaxRetries + 1)
    /\ dials \subseteq Lookups \cup Checks
    /\ check \in [Checks -> CheckPhases]
    /\ step \in [Lookups -> Steps]
    /\ subject \in [Lookups -> Users \cup {NoUser}]
    /\ caching \in [Lookups -> BOOLEAN]
    /\ known \subseteq Lookups
    /\ outcome \in [Lookups -> Outcomes]

(* A 404 is not cached, so a user who is registered when the lookup begins  *)
(* is never "not found": not from an entry or a late SET of an earlier      *)
(* lookup of the same id, before it was registered.                         *)
RegisteredUserIsFound == \A l \in known : outcome[l] # "notFound"

(* incident-002: Redis can fail completely, hang, or come and go, and a     *)
(* lookup only ever fails in its call to user-service.                      *)
RedisFailsNoLookup ==
    [][\A l \in Lookups : outcome'[l] \in Failures /\ outcome[l] \notin Failures
          => step[l] \in AwaitsOrigin]_userLookupVars

Directory == INSTANCE UserDirectory WITH
    absent <- {l \in Lookups : step[l] # "idle" /\ l \notin known},
    told <- [l \in Lookups |-> IF outcome[l] \in Failures THEN "error" ELSE outcome[l]]

(* userClient.js: with the cache, the late SETs and every timer, getUser    *)
(* answers like the table of users itself: a fallen cache or a slow         *)
(* user-service is an error or a slower answer, never a wrong one.          *)
ImplementsDirectory == Directory!DirectorySpec

(* incident-002: no lookup hangs, with Redis and user-service never         *)
(* answering and never failing.                                             *)
LookupEnds(l) == step[l] # "idle" ~> step[l] = "done"

EveryLookupEnds == \A l \in Lookups : LookupEnds(l)

(* redisClient.js tests isOpen and calls connect() with nothing in between: *)
(* over abandoned connects and clients that gave up, no two calls of        *)
(* connect() are ever under way at once.                                    *)
OneDialAtATime == Cardinality(dials) <= 1

(* redisClient.js: giving up is what makes client.connect() reject.  A      *)
(* health check has no timer, so that, with Redis down for ever, only the   *)
(* strategy ends it; all it takes is that attempts end and that a Redis     *)
(* that is up answers.                                                      *)
CheckEnds(c) == check[c] \in AwaitsClient ~> check[c] \in {"healthy", "unhealthy"}

HealthChecksEnd == ClientFairness => \A c \in Checks : CheckEnds(c)
=============================================================================
