------------------------- MODULE LookupMetricsProofs -------------------------
(***************************************************************************)
(* The counters of LookupMetrics are the sizes of sets of lookups, for     *)
(* every number of lookups, retries and outages.                           *)
(***************************************************************************)
EXTENDS LookupMetrics, UserLookupProofs

(* A lookup has the cache at hand only after a miss, and when it tries SET. *)
CachingInv == \A l \in Lookups : /\ caching[l] => l \in Past
                                 /\ step[l] = "set" => caching[l]

AtHand == {l \in Lookups : caching[l]}
AtOrigin == {l \in Lookups : step[l] \in {"fetch", "missing"}}
Refusals == Ended("notFound") \cup Ended("refused")
Served == Ended("user") \cup Ended("error")
              \cup {l \in Lookups : step[l] \in {"body", "set"}}

CountersOK ==
    /\ cacheReads \in [hit : Nat, miss : Nat]
    /\ cacheErrors \in [get : Nat, set : Nat]
    /\ calls \in [success : Nat, client_error : Nat, error : Nat]

CountersInv == CountersOK /\ MissesAreTheLoad /\ NoSilentDegradation /\ CallErrorsAreFailedLookups

MeteredLookupInv == LookupInv /\ CachingInv /\ CountersInv

-----------------------------------------------------------------------------
(* Sizes of sets of lookups.                                               *)

(* Every set of lookups is finite, so that its size is a number. *)
LEMMA LookupSets ==
    ASSUME NEW S, S \subseteq Lookups
    PROVE  IsFiniteSet(S) /\ Cardinality(S) \in Nat
BY LookupAssumption, FS_Subset, FS_CardinalityType

(* The size of a union of two sets with nothing in common. *)
LEMMA LookupUnion ==
    ASSUME NEW S, NEW T, S \subseteq Lookups, T \subseteq Lookups, S \cap T = {}
    PROVE  Cardinality(S \cup T) = Cardinality(S) + Cardinality(T)
<1>1. /\ IsFiniteSet(S) /\ IsFiniteSet(T)
      /\ Cardinality(S) \in Nat /\ Cardinality(T) \in Nat
  BY LookupSets
<1>2. Cardinality(S \cup T) = Cardinality(S) + Cardinality(T) - Cardinality(S \cap T)
  BY <1>1, FS_Union
<1>3. Cardinality(S \cap T) = 0
  BY FS_EmptySet
<1> QED BY <1>1, <1>2, <1>3

(* A set of lookups is at least as large as its part. *)
LEMMA LookupSubset ==
    ASSUME NEW S, NEW T, S \subseteq T, T \subseteq Lookups
    PROVE  Cardinality(S) <= Cardinality(T)
BY LookupSets, FS_Subset

-----------------------------------------------------------------------------
(* What a step does to one lookup, seen from the counters.                 *)

Stays(l) ==
    /\ UNCHANGED <<outcome[l], caching[l]>>
    /\ \/ step'[l] = step[l]
       \/ step[l] = "idle" /\ step'[l] \in ReadingCache
       \/ step[l] = "connect" /\ step'[l] = "get"
       \/ step[l] = "fetch" /\ step'[l] = "missing"
       \/ step[l] = "body" /\ step'[l] = "set" /\ caching[l]

Leaves(l) ==
    \/ /\ step[l] \in ReadingCache /\ step'[l] = "fetch"
       /\ outcome'[l] = outcome[l]
    \/ /\ step[l] = "fetch" /\ step'[l] = "body"
       /\ UNCHANGED <<outcome[l], caching[l]>>
    \/ /\ step'[l] = "done" /\ UNCHANGED caching[l]
       /\ \/ step[l] \in {"get", "body", "set"} /\ outcome'[l] = "user"
          \/ step[l] = "missing" /\ outcome'[l] = "notFound"
          \/ step[l] = "fetch" /\ outcome'[l] = "refused"
          \/ step[l] \in AwaitsOrigin /\ outcome'[l] = "error"

(* An await of getUser. *)
LEMMA AwaitMoves ==
    ASSUME LookupInv, NEW l \in Lookups, LookupStep(l), NEW k \in Lookups
    PROVE  Stays(k) \/ Leaves(k)
<1> USE DEF LookupInv, LookupTypeOK, Stays, Leaves, Proceed, Finish, ReadingCache,
        AwaitsOrigin
<1>1. CASE CacheAnswers(l)
  <2>1. cache[subject[l]] = "user" \/ cache[subject[l]] = "empty"
    BY <1>1 DEF CacheAnswers, CacheInv, SubjectInv
  <2> QED BY <1>1, <2>1 DEF CacheAnswers
<1>2. CASE UserArrives(l)
  BY <1>2 DEF UserArrives
<1>3. CASE CacheReadFails(l) \/ UserMissing(l) \/ UserFound(l)
  BY <1>3 DEF CacheReadFails, UserMissing, UserFound
<1>4. CASE UserNotFound(l) \/ UserRefused(l) \/ OriginFails(l) \/ SetEnds(l)
  BY <1>4 DEF UserNotFound, UserRefused, OriginFails, SetEnds
<1> QED BY <1>1, <1>2, <1>3, <1>4 DEF LookupStep

(* Any step. *)
LEMMA NextMoves ==
    ASSUME LookupInv, [Next]_userLookupVars, NEW k \in Lookups
    PROVE  Stays(k) \/ Leaves(k)
<1> USE DEF LookupInv, LookupTypeOK, Stays, Leaves, lookupVars, ReadingCache
<1>1. CASE \E l \in Lookups : LookupStep(l)
  BY <1>1, AwaitMoves
<1>2. CASE \E l \in Lookups, u \in Users : Ask(l, u)
  BY <1>2 DEF Ask, Proceed
<1>3. CASE Connected
  BY <1>3 DEF Connected
<1>4. CASE DialFails
  BY <1>4 DEF DialFails
<1>5. ASSUME UNCHANGED lookupVars PROVE Stays(k)
  BY <1>5
<1>6. CASE \E c \in Checks : CheckStarts(c) \/ CheckAnswers(c)
  BY <1>5, <1>6 DEF CheckStarts, CheckAnswers
<1>7. CASE (\E w \in writes : WriteRuns(w)) \/ (\E u \in Users : Expires(u) \/ Register(u))
  BY <1>5, <1>7 DEF WriteRuns, Expires, Register
<1>8. CASE RedisStops \/ RedisStarts \/ UNCHANGED userLookupVars
  BY <1>5, <1>8 DEF RedisStops, RedisStarts, userLookupVars
<1> QED BY <1>1, <1>2, <1>3, <1>4, <1>6, <1>7, <1>8 DEF Next

-----------------------------------------------------------------------------
(* How the sets behind the counters grow.                                  *)

LEMMA CacheSetsGrow ==
    ASSUME LookupInv, CachingInv, [Next]_userLookupVars
    PROVE  /\ Past' = (Past \cup Hits) \cup Misses
           /\ Past \cap Hits = {} /\ (Past \cup Hits) \cap Misses = {}
           /\ AtHand' = AtHand \cup (Misses \ Degraded)
           /\ AtHand \cap (Misses \ Degraded) = {}
           /\ Degraded \subseteq Misses
           /\ CachingInv'
<1> USE DEF LookupInv, LookupTypeOK, Steps
<1>1. \A l \in Lookups : Stays(l) \/ Leaves(l)
  BY NextMoves
<1>2. \A l \in Lookups : (l \in Past)' <=> l \in Past \/ l \in Hits \/ l \in Misses
  BY <1>1 DEF Past, Hits, Misses, Passes, Stays, Leaves, ReadingCache, AwaitsOrigin
<1>3. Past \cap Hits = {} /\ (Past \cup Hits) \cap Misses = {}
  BY DEF Past, Hits, Misses, Passes, ReadingCache
<1>4. \A l \in Lookups : caching'[l] <=> caching[l] \/ l \in Misses \ Degraded
  BY <1>1 DEF CachingInv, Past, Degraded, Misses, Passes, Stays, Leaves, ReadingCache,
     AwaitsOrigin
<1>5. AtHand \cap (Misses \ Degraded) = {}
  BY DEF AtHand, CachingInv, Past, Misses, Passes, ReadingCache
<1>6. CachingInv'
  BY <1>1, <1>2, <1>4 DEF CachingInv, Stays, Leaves, ReadingCache, AwaitsOrigin
<1>7. Past' = (Past \cup Hits) \cup Misses
  BY <1>2 DEF Past, Hits, Misses, Passes
<1>8. AtHand' = AtHand \cup (Misses \ Degraded)
  BY <1>4 DEF AtHand, Misses, Passes
<1> QED BY <1>3, <1>5, <1>6, <1>7, <1>8 DEF Degraded

LEMMA OriginSetsGrow ==
    ASSUME LookupInv, [Next]_userLookupVars
    PROVE  LET S == Answered("success")
               C == Answered("client_error")
               E == Answered("error")
           IN  /\ ((AtOrigin' \cup S) \cup C) \cup E = AtOrigin \cup Misses
               /\ AtOrigin \cap Misses = {}
               /\ AtOrigin' \cap S = {} /\ (AtOrigin' \cup S) \cap C = {}
               /\ ((AtOrigin' \cup S) \cup C) \cap E = {}
               /\ Refusals' = Refusals \cup C
               /\ Refusals \cap C = {}
               /\ Served' = ((Served \cup Hits) \cup S) \cup E
               /\ Served \cap Hits = {} /\ (Served \cup Hits) \cap S = {}
               /\ ((Served \cup Hits) \cup S) \cap E = {}
               /\ Ended("error") \cup E \subseteq Ended("error")'
               /\ Ended("error") \cap E = {}
<1> DEFINE S == Answered("success")
           C == Answered("client_error")
           E == Answered("error")
<1> USE DEF LookupInv, LookupTypeOK, Steps
<1>1. \A l \in Lookups : Stays(l) \/ Leaves(l)
  BY NextMoves
<1>2. /\ S = {l \in Lookups : step[l] = "fetch" /\ step'[l] = "body"}
      /\ C = {l \in Lookups : /\ step[l] \in {"fetch", "missing"} /\ step'[l] = "done"
                              /\ outcome'[l] \in {"notFound", "refused"}}
      /\ E = {l \in Lookups : /\ step[l] \in {"fetch", "missing"} /\ step'[l] = "done"
                              /\ outcome'[l] = "error"}
  BY DEF Answered, Passes
<1>3. /\ Hits = {l \in Lookups : step[l] = "get" /\ step'[l] = "done"}
      /\ Misses = {l \in Lookups : step[l] \in {"connect", "get"} /\ step'[l] = "fetch"}
  BY DEF Hits, Misses, Passes, ReadingCache
<1>4. \A l \in Lookups : step[l] # "done" => outcome[l] = "none"
  BY DEF SubjectInv
<1> USE DEF Stays, Leaves, ReadingCache, AwaitsOrigin
<1>5. ((AtOrigin' \cup S) \cup C) \cup E = AtOrigin \cup Misses
  BY <1>1, <1>2, <1>3 DEF AtOrigin
<1>6. /\ AtOrigin \cap Misses = {}
      /\ AtOrigin' \cap S = {} /\ (AtOrigin' \cup S) \cap C = {}
      /\ ((AtOrigin' \cup S) \cup C) \cap E = {}
  BY <1>2, <1>3 DEF AtOrigin
<1>7. Refusals' = Refusals \cup C /\ Refusals \cap C = {}
  BY <1>1, <1>2, <1>4 DEF Ended, Refusals
<1>8. Served' = ((Served \cup Hits) \cup S) \cup E
  BY <1>1, <1>2, <1>3, <1>4 DEF Ended, Served
<1>9. /\ Served \cap Hits = {} /\ (Served \cup Hits) \cap S = {}
      /\ ((Served \cup Hits) \cup S) \cap E = {}
  BY <1>2, <1>3, <1>4 DEF Ended, Served
<1>10. /\ Ended("error") \cup E \subseteq Ended("error")'
       /\ Ended("error") \cap E = {}
  BY <1>1, <1>2, <1>4 DEF Ended
<1> QED BY <1>5, <1>6, <1>7, <1>8, <1>9, <1>10

-----------------------------------------------------------------------------
(* The counters.                                                           *)

(* Nothing is counted before the first lookup. *)
LEMMA MeteredStart == MeteredLookupInit => MeteredLookupInv
<1> SUFFICES ASSUME MeteredLookupInit PROVE MeteredLookupInv
  OBVIOUS
<1>1. LookupInv
  BY LookupInit DEF MeteredLookupInit
<1>2. /\ Past = {} /\ AtHand = {} /\ Ended("user") = {} /\ Ended("error") = {}
      /\ Refusals = {} /\ AtOrigin = {} /\ Served = {}
  BY DEF MeteredLookupInit, Init, Past, AtHand, Ended, AtOrigin, Refusals, Served
<1>3. {l \in Ended("user") : caching[l]} = {}
  BY <1>2
<1>4. Cardinality({}) = 0
  BY FS_EmptySet
<1>5. CachingInv
  BY DEF MeteredLookupInit, Init, CachingInv
<1>6. CountersOK
  BY DEF MeteredLookupInit, CountersOK
<1>7. MissesAreTheLoad
  BY <1>2, <1>4 DEF MeteredLookupInit, MissesAreTheLoad, AtOrigin
<1>8. NoSilentDegradation
  <2>1. cacheReads.miss = 0 /\ cacheErrors.get = 0 /\ cacheErrors.set = 0
    BY DEF MeteredLookupInit
  <2> QED BY <1>2, <1>3, <1>4, <2>1 DEF NoSilentDegradation, AtHand
<1>9. CallErrorsAreFailedLookups
  BY <1>2, <1>4 DEF MeteredLookupInit, CallErrorsAreFailedLookups, Refusals, Served
<1> QED BY <1>1, <1>5, <1>6, <1>7, <1>8, <1>9 DEF MeteredLookupInv, CountersInv

(* Hits and misses are counted as lookups pass the cache, calls as they     *)
(* end.                                                                     *)
LEMMA LoadStep ==
    ASSUME MeteredLookupInv, [Next]_userLookupVars, CountReads, CountCalls
    PROVE  MissesAreTheLoad' /\ CallErrorsAreFailedLookups'
<1> DEFINE S == Answered("success")
           C == Answered("client_error")
           E == Answered("error")
           W == Ended("error")
<1> USE DEF MeteredLookupInv, CountersInv, CountersOK
<1>1. /\ S \subseteq Lookups /\ C \subseteq Lookups /\ E \subseteq Lookups
      /\ Hits \subseteq Lookups /\ Misses \subseteq Lookups
      /\ Past \subseteq Lookups /\ Past' \subseteq Lookups
      /\ AtOrigin \subseteq Lookups /\ AtOrigin' \subseteq Lookups
      /\ Served \subseteq Lookups /\ W \subseteq Lookups /\ W' \subseteq Lookups
      /\ Refusals \subseteq Lookups
  BY DEF Answered, Passes, Hits, Misses, Past, AtOrigin, Refusals, Served, Ended
<1>2. /\ Cardinality(S) \in Nat /\ Cardinality(C) \in Nat /\ Cardinality(E) \in Nat
      /\ Cardinality(Hits) \in Nat /\ Cardinality(Misses) \in Nat
      /\ Cardinality(Past) \in Nat /\ Cardinality(Past') \in Nat
      /\ Cardinality(AtOrigin) \in Nat /\ Cardinality(AtOrigin') \in Nat
      /\ Cardinality(Served) \in Nat /\ Cardinality(W) \in Nat /\ Cardinality(W') \in Nat
      /\ Cardinality(Refusals) \in Nat
  BY <1>1, LookupSets
<1>3. /\ cacheReads'.hit = cacheReads.hit + Cardinality(Hits)
      /\ cacheReads'.miss = cacheReads.miss + Cardinality(Misses)
  BY DEF CountReads
<1>4. /\ calls'.success = calls.success + Cardinality(S)
      /\ calls'.client_error = calls.client_error + Cardinality(C)
      /\ calls'.error = calls.error + Cardinality(E)
  BY DEF CountCalls
<1>5. Cardinality(Past') = Cardinality(Past) + Cardinality(Hits) + Cardinality(Misses)
  <2>1. /\ Past' = (Past \cup Hits) \cup Misses
        /\ Past \cap Hits = {} /\ (Past \cup Hits) \cap Misses = {}
    BY CacheSetsGrow
  <2>2. Cardinality(Past') = Cardinality(Past \cup Hits) + Cardinality(Misses)
    BY <1>1, <2>1, LookupUnion
  <2> QED BY <1>1, <2>1, <2>2, LookupUnion
<1>6. Cardinality(AtOrigin') + Cardinality(S) + Cardinality(C) + Cardinality(E)
        = Cardinality(AtOrigin) + Cardinality(Misses)
  <2>1. /\ ((AtOrigin' \cup S) \cup C) \cup E = AtOrigin \cup Misses
        /\ AtOrigin \cap Misses = {}
        /\ AtOrigin' \cap S = {} /\ (AtOrigin' \cup S) \cap C = {}
        /\ ((AtOrigin' \cup S) \cup C) \cap E = {}
    BY OriginSetsGrow
  <2>2. Cardinality(AtOrigin \cup Misses) = Cardinality(AtOrigin) + Cardinality(Misses)
    BY <1>1, <2>1, LookupUnion
  <2>3. Cardinality(((AtOrigin' \cup S) \cup C) \cup E)
          = Cardinality((AtOrigin' \cup S) \cup C) + Cardinality(E)
    BY <1>1, <2>1, LookupUnion
  <2>4. Cardinality((AtOrigin' \cup S) \cup C) = Cardinality(AtOrigin' \cup S) + Cardinality(C)
    BY <1>1, <2>1, LookupUnion
  <2>5. Cardinality(AtOrigin' \cup S) = Cardinality(AtOrigin') + Cardinality(S)
    BY <1>1, <2>1, LookupUnion
  <2>6. Cardinality(((AtOrigin' \cup S) \cup C) \cup E) = Cardinality(AtOrigin \cup Misses)
    BY <2>1
  <2> HIDE DEF S, C, E
  <2> QED BY <2>2, <2>3, <2>4, <2>5, <2>6
<1>7. Cardinality(Served')
        = Cardinality(Served) + Cardinality(Hits) + Cardinality(S) + Cardinality(E)
  <2>1. /\ Served' = ((Served \cup Hits) \cup S) \cup E
        /\ Served \cap Hits = {} /\ (Served \cup Hits) \cap S = {}
        /\ ((Served \cup Hits) \cup S) \cap E = {}
    BY OriginSetsGrow
  <2>2. Cardinality(Served') = Cardinality((Served \cup Hits) \cup S) + Cardinality(E)
    BY <1>1, <2>1, LookupUnion
  <2>3. Cardinality((Served \cup Hits) \cup S) = Cardinality(Served \cup Hits) + Cardinality(S)
    BY <1>1, <2>1, LookupUnion
  <2>4. Cardinality(Served \cup Hits) = Cardinality(Served) + Cardinality(Hits)
    BY <1>1, <2>1, LookupUnion
  <2> QED BY <2>2, <2>3, <2>4
<1>8. Cardinality(Refusals') = Cardinality(Refusals) + Cardinality(C)
  <2>1. Refusals' = Refusals \cup C /\ Refusals \cap C = {}
    BY OriginSetsGrow
  <2> QED BY <1>1, <2>1, LookupUnion
<1>9. Cardinality(W) + Cardinality(E) <= Cardinality(W')
  <2>1. W \cup E \subseteq W' /\ W \cap E = {}
    BY OriginSetsGrow
  <2>2. Cardinality(W \cup E) <= Cardinality(W')
    BY <1>1, <2>1, LookupSubset
  <2>3. Cardinality(W \cup E) = Cardinality(W) + Cardinality(E)
    BY <1>1, <2>1, LookupUnion
  <2> QED BY <2>2, <2>3
<1> HIDE DEF S, C, E, W
<1>10. /\ cacheReads.hit + cacheReads.miss = Cardinality(Past)
       /\ cacheReads.miss = calls.success + calls.client_error + calls.error
                               + Cardinality(AtOrigin)
       /\ calls.client_error = Cardinality(Refusals)
       /\ calls.error <= Cardinality(W)
       /\ cacheReads.hit + calls.success + calls.error = Cardinality(Served)
  BY DEF MissesAreTheLoad, CallErrorsAreFailedLookups, AtOrigin, Refusals, Served, W
<1>11. /\ cacheReads'.hit + cacheReads'.miss = Cardinality(Past')
       /\ cacheReads'.miss = calls'.success + calls'.client_error + calls'.error
                                + Cardinality(AtOrigin')
  BY <1>2, <1>3, <1>4, <1>5, <1>6, <1>10
<1>12. /\ calls'.client_error = Cardinality(Refusals')
       /\ calls'.error <= Cardinality(W')
       /\ cacheReads'.hit + calls'.success + calls'.error = Cardinality(Served')
  BY <1>2, <1>3, <1>4, <1>7, <1>8, <1>9, <1>10
<1> QED
  BY <1>11, <1>12
  DEF MissesAreTheLoad, CallErrorsAreFailedLookups, AtOrigin, Refusals, Served, W

(* A miss is a lookup with the cache at hand, or a counted error. *)
LEMMA DegradationStep ==
    ASSUME MeteredLookupInv, [Next]_userLookupVars, CountReads, CountErrors
    PROVE  NoSilentDegradation' /\ CachingInv'
<1> DEFINE N == Misses \ Degraded
           T == {l \in Ended("user") : caching[l]}
           ended == Passes({"set"}, {"done"})
<1> USE DEF MeteredLookupInv, CountersInv, CountersOK
<1>1. /\ CachingInv'
      /\ AtHand' = AtHand \cup N /\ AtHand \cap N = {} /\ Degraded \subseteq Misses
  BY CacheSetsGrow
<1>2. /\ N \subseteq Lookups /\ Degraded \subseteq Lookups /\ Misses \subseteq Lookups
      /\ AtHand \subseteq Lookups /\ AtHand' \subseteq Lookups
      /\ T \subseteq Lookups /\ T' \subseteq Lookups
  BY DEF Degraded, Misses, Passes, AtHand, Ended
<1>3. PICK failed \in SUBSET ended :
          cacheErrors' = [get |-> cacheErrors.get + Cardinality(Degraded),
                          set |-> cacheErrors.set + Cardinality(failed)]
  BY DEF CountErrors
<1>4. T \cup failed \subseteq T' /\ T \cap failed = {}
  <2>1. \A l \in Lookups : Stays(l) \/ Leaves(l)
    BY NextMoves
  <2>2. \A l \in Lookups : step[l] # "done" => outcome[l] = "none"
    BY DEF LookupInv, SubjectInv
  <2>3. \A l \in failed : l \in T' /\ l \notin T
    <3> SUFFICES ASSUME NEW l \in failed PROVE l \in T' /\ l \notin T
      OBVIOUS
    <3>1. l \in Lookups /\ step[l] = "set" /\ step'[l] = "done"
      BY DEF Passes
    <3>2. outcome'[l] = "user" /\ caching'[l] = caching[l] /\ outcome[l] = "none"
      BY <2>1, <2>2, <3>1 DEF Stays, Leaves, ReadingCache, AwaitsOrigin
    <3>3. caching[l]
      BY <3>1 DEF CachingInv
    <3> QED BY <3>1, <3>2, <3>3 DEF Ended
  <2>4. \A l \in T : l \in T'
    BY <2>1, <2>2 DEF Stays, Leaves, ReadingCache, AwaitsOrigin, Ended, LookupInv, LookupTypeOK
  <2> QED BY <2>3, <2>4
<1>5. failed \subseteq Lookups
  BY DEF Passes
<1>6. /\ Cardinality(N) \in Nat /\ Cardinality(Degraded) \in Nat
      /\ Cardinality(Misses) \in Nat /\ Cardinality(failed) \in Nat
      /\ Cardinality(AtHand) \in Nat /\ Cardinality(AtHand') \in Nat
      /\ Cardinality(T) \in Nat /\ Cardinality(T') \in Nat
  BY <1>2, <1>5, LookupSets
<1>7. Cardinality(AtHand') = Cardinality(AtHand) + Cardinality(N)
  BY <1>1, <1>2, LookupUnion
<1>8. Cardinality(Misses) = Cardinality(N) + Cardinality(Degraded)
  <2>1. Misses = N \cup Degraded /\ N \cap Degraded = {}
    BY <1>1
  <2> QED BY <1>2, <2>1, LookupUnion
<1>9. Cardinality(T) + Cardinality(failed) <= Cardinality(T')
  <2>1. Cardinality(T \cup failed) <= Cardinality(T')
    BY <1>2, <1>4, LookupSubset
  <2>2. Cardinality(T \cup failed) = Cardinality(T) + Cardinality(failed)
    BY <1>2, <1>4, <1>5, LookupUnion
  <2> QED BY <2>1, <2>2
<1>10. /\ cacheReads.miss = cacheErrors.get + Cardinality(AtHand)
       /\ cacheErrors.set <= Cardinality(T)
  BY DEF NoSilentDegradation, AtHand
<1>11. cacheReads'.miss = cacheReads.miss + Cardinality(Misses)
  BY DEF CountReads
<1> HIDE DEF N, T, ended
<1>12. /\ cacheReads'.miss = cacheErrors'.get + Cardinality(AtHand')
       /\ cacheErrors'.set <= Cardinality(T')
  BY <1>3, <1>6, <1>7, <1>8, <1>9, <1>10, <1>11
<1> QED BY <1>1, <1>12 DEF NoSilentDegradation, AtHand, T

(* Every step counts what it does. *)
LEMMA MeteredStepInv ==
    MeteredLookupInv /\ [MeteredLookupNext]_meteredLookupVars => MeteredLookupInv'
<1> SUFFICES ASSUME MeteredLookupInv, [MeteredLookupNext]_meteredLookupVars
             PROVE  MeteredLookupInv'
  OBVIOUS
<1>1. CASE MeteredLookupNext
  <2> USE <1>1 DEF MeteredLookupNext
  <2>1. LookupInv'
    BY LookupNextInv DEF MeteredLookupInv
  <2>2. MissesAreTheLoad' /\ CallErrorsAreFailedLookups'
    BY LoadStep
  <2>3. NoSilentDegradation' /\ CachingInv'
    BY DegradationStep
  <2>4. CountersOK'
    BY LookupSets
    DEF MeteredLookupInv, CountersInv, CountersOK, CountReads, CountErrors, CountCalls,
        Hits, Misses, Degraded, Answered, Passes
  <2> QED BY <2>1, <2>2, <2>3, <2>4 DEF MeteredLookupInv, CountersInv
<1>2. CASE UNCHANGED meteredLookupVars
  <2>1. LookupInv'
    BY <1>2, LookupNextInv DEF MeteredLookupInv, meteredLookupVars
  <2>2. CachingInv' /\ CountersInv'
    BY <1>2
    DEF MeteredLookupInv, CachingInv, CountersInv, CountersOK, MissesAreTheLoad,
        NoSilentDegradation, CallErrorsAreFailedLookups, Past, Ended, meteredLookupVars,
        userLookupVars, lookupVars, counterVars
  <2> QED BY <2>1, <2>2 DEF MeteredLookupInv
<1> QED BY <1>1, <1>2

(* The inductive invariant. *)
THEOREM MeteredLookupInvariant == MeteredLookupSpec => []MeteredLookupInv
BY MeteredStart, MeteredStepInv, PTL DEF MeteredLookupSpec

(* A metered lookup is a lookup: what is proved of Spec holds of it. *)
THEOREM MeteredLookupIsLookup == MeteredLookupSpec => Spec
<1>1. MeteredLookupInit => Init
  BY DEF MeteredLookupInit
<1>2. [MeteredLookupNext]_meteredLookupVars => [Next]_userLookupVars
  BY DEF MeteredLookupNext, meteredLookupVars
<1> QED BY <1>1, <1>2, PTL DEF MeteredLookupSpec, Spec

(* Each lookup is one hit or one miss, and each miss one call, over timers, *)
(* late answers and a client that gives up on many lookups at once.         *)
THEOREM LookupsAreCountedOnce == MeteredLookupSpec => []MissesAreTheLoad
<1>1. MeteredLookupInv => MissesAreTheLoad
  BY DEF MeteredLookupInv, CountersInv
<1> QED BY <1>1, MeteredLookupInvariant, PTL

(* A lookup that had to do without the cache is a counted cache error. *)
THEOREM DegradationIsCounted == MeteredLookupSpec => []NoSilentDegradation
<1>1. MeteredLookupInv => NoSilentDegradation
  BY DEF MeteredLookupInv, CountersInv
<1> QED BY <1>1, MeteredLookupInvariant, PTL

(* A counted call error is a failed lookup; what failed uncounted had its   *)
(* 200 and lost the body, or was refused and is counted with the 404s.      *)
THEOREM CallErrorsAreReal == MeteredLookupSpec => []CallErrorsAreFailedLookups
<1>1. MeteredLookupInv => CallErrorsAreFailedLookups
  BY DEF MeteredLookupInv, CountersInv
<1> QED BY <1>1, MeteredLookupInvariant, PTL

(* incident-002, with the counters: no lookup hangs, whatever Redis and     *)
(* user-service do.                                                         *)
THEOREM MeteredLookupsEnd == MeteredFairSpec /\ []NobodyIsStuck => EveryLookupEnds
BY MeteredLookupIsLookup, EveryLookupEndsInTime, PTL DEF MeteredFairSpec, FairSpec

(* ... and no health check, with the strategy's limit as redisClient.js     *)
(* has it.                                                                  *)
THEOREM MeteredHealthChecksEnd ==
    ASSUME MaxRetries = 5
    PROVE  MeteredFairSpec /\ []NobodyIsStuck => HealthChecksEnd
BY MeteredLookupIsLookup, HealthChecksEndWithFiveRetries, PTL DEF MeteredFairSpec
=============================================================================
