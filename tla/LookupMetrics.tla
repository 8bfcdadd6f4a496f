---------------------------- MODULE LookupMetrics ----------------------------
(***************************************************************************)
(* What getUser (order-service/src/userClient.js, metrics.js) counts while *)
(* it degrades: cache hits, misses and errors, and the calls to            *)
(* user-service by status, on top of UserLookup.  The alerts RedisErrors   *)
(* and DownstreamCallFailures read these counters, and no request that     *)
(* still succeeds shows an outage in any other way.                        *)
(*                                                                         *)
(* A counter moves in the steps of its own lookup, after the await: an     *)
(* abandoned operation that ends later counts nothing.                     *)
(***************************************************************************)
EXTENDS UserLookup

VARIABLES
    cacheReads,     \* cache_hits_total and cache_misses_total
    cacheErrors,    \* cache_errors_total, by operation
    calls           \* dependency_requests_total, by status

counterVars == <<cacheReads, cacheErrors, calls>>
meteredLookupVars == <<userLookupVars, counterVars>>

MeteredLookupInit ==
    /\ Init
    /\ cacheReads = [hit |-> 0, miss |-> 0]
    /\ cacheErrors = [get |-> 0, set |-> 0]
    /\ calls = [success |-> 0, client_error |-> 0, error |-> 0]

(* What a step of the lookups is to getUser. *)
Passes(from, to) == {l \in Lookups : step[l] \in from /\ step'[l] \in to}

Hits == Passes({"get"}, {"done"})
Misses == Passes(ReadingCache, {"fetch"})
Degraded == {l \in Misses : ~caching'[l]}

(* The answer, or the lack of one, that fetch ends with; response.json()   *)
(* comes after it.                                                         *)
Answered(status) ==
    LET settled(results) == {l \in Passes({"fetch", "missing"}, {"done"}) :
                                outcome'[l] \in results}
    IN  CASE status = "success" -> Passes({"fetch"}, {"body"})
          [] status = "client_error" -> settled({"notFound", "refused"})
          [] status = "error" -> settled({"error"})

CountReads_DegradedIsNoMiss ==
    cacheReads' = [hit  |-> cacheReads.hit + Cardinality(Hits),
                   miss |-> cacheReads.miss + Cardinality(Misses \ Degraded)]

CountReads ==
    cacheReads' = [hit  |-> cacheReads.hit + Cardinality(Hits),
                   miss |-> cacheReads.miss + Cardinality(Misses)]

CountErrors_GetOnly ==
    LET ended == Passes({"set"}, {"done"})
    IN  \E failed \in SUBSET ended :
            /\ failed # ended => client = "ready" /\ redis = "up"
            /\ cacheErrors' =
                   [get |-> cacheErrors.get
                              + Cardinality({l \in Degraded : step[l] = "get"}),
                    set |-> cacheErrors.set + Cardinality(failed)]

(* SET may fail, or take too long, at any time; it is acknowledged by a    *)
(* Redis that answers.                                                     *)
CountErrors ==
    LET ended == Passes({"set"}, {"done"})
    IN  \E failed \in SUBSET ended :
            /\ failed # ended => client = "ready" /\ redis = "up"
            /\ cacheErrors' = [get |-> cacheErrors.get + Cardinality(Degraded),
                               set |-> cacheErrors.set + Cardinality(failed)]

CountCalls_OnlyA404IsTheClients ==
    LET refused == {l \in Answered("client_error") : outcome'[l] = "refused"}
    IN  calls' = [calls EXCEPT
            !.success = @ + Cardinality(Answered("success")),
            !.client_error = @ + Cardinality(Answered("client_error") \ refused),
            !.error = @ + Cardinality(Answered("error") \cup refused)]

CountCalls ==
    calls' = [status \in {"success", "client_error", "error"} |->
                 calls[status] + Cardinality(Answered(status))]

MeteredLookupNext == Next /\ CountReads /\ CountErrors /\ CountCalls

MeteredLookupSpec == MeteredLookupInit /\ [][MeteredLookupNext]_meteredLookupVars

MeteredFairSpec == MeteredLookupSpec /\ LookupFairness

-----------------------------------------------------------------------------
(* Through with the cache, and without a hit. *)
Past == {l \in Lookups : step[l] \notin {"idle", "connect", "get"}}
Ended(result) == {l \in Lookups : outcome[l] = result}

(* alerts.yml, RedisErrors: "requests still succeed by falling through to   *)
(* user-service - so this shows up as extra load".  Each lookup is one hit  *)
(* or one miss, and the misses are the calls to user-service, the ones      *)
(* still under way included: over clients that give up on many lookups at   *)
(* once, timers and late answers, no lookup is counted twice or nowhere.    *)
MissesAreTheLoad ==
    /\ cacheReads.hit + cacheReads.miss = Cardinality(Past)
    /\ cacheReads.miss = calls.success + calls.client_error + calls.error
            + Cardinality({l \in Lookups : step[l] \in {"fetch", "missing"}})

(* userClient.js: "silent degradation is exactly what makes the Redis       *)
(* incident hard to spot".  Each miss had the cache at hand or is counted   *)
(* as a cache error, however its connect or GET was lost; and no lookup is  *)
(* two cache errors, since one that lost its GET does not try a SET.        *)
NoSilentDegradation ==
    /\ cacheReads.miss = cacheErrors.get + Cardinality({l \in Lookups : caching[l]})
    /\ cacheErrors.set <= Cardinality({l \in Ended("user") : caching[l]})

(* alerts.yml, DownstreamCallFailures: each counted error is a lookup that  *)
(* failed.  Of the lookups that failed, two kinds are not among them: those *)
(* whose body broke off are counted as successes, and those that            *)
(* user-service refused as client_error, where the 404s are, which fail     *)
(* nothing.                                                                 *)
CallErrorsAreFailedLookups ==
    /\ calls.client_error = Cardinality(Ended("notFound") \cup Ended("refused"))
    /\ calls.error <= Cardinality(Ended("error"))
    /\ cacheReads.hit + calls.success + calls.error
           = Cardinality(Ended("user") \cup Ended("error")
                             \cup {l \in Lookups : step[l] \in {"body", "set"}})
=============================================================================
