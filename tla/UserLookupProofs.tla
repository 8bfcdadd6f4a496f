-------------------------- MODULE UserLookupProofs --------------------------
(***************************************************************************)
(* Proofs about UserLookup, for every number of lookups, users, retries    *)
(* and Redis outages.                                                      *)
(***************************************************************************)
EXTENDS UserLookup, FiniteSetTheorems, TLAPS

(* What Redis holds, or is about to be told, is a registered user. *)
CacheInv ==
    /\ \A u \in Users : cache[u] # "empty" => cache[u] = "user" /\ u \in users
    /\ \A w \in writes : w.value = "user" /\ w.key \in users

(* A lookup under way has a subject and no outcome; one that began after   *)
(* its user's registration finds the row still there, and one that is told *)
(* of a missing row did not.                                               *)
SubjectInv ==
    /\ \A l \in Lookups : step[l] = "idle" => subject[l] = NoUser
    /\ \A l \in Lookups : step[l] # "idle" => subject[l] \in Users
    /\ \A l \in Lookups : step[l] # "done" => outcome[l] = "none"
    /\ \A l \in Lookups : step[l] \in {"body", "set"} => subject[l] \in users
    /\ \A l \in Lookups : step[l] = "missing" => l \notin known
    /\ \A l \in known : step[l] # "idle" /\ subject[l] \in users /\ outcome[l] # "notFound"

(* The client dials for one caller of connectRedis at a time. *)
DialInv ==
    /\ dials # {} => client = "connecting"
    /\ \A k, l \in dials : k = l

LookupInv == LookupTypeOK /\ CacheInv /\ SubjectInv /\ DialInv

(* The invariant holds at the start. *)
LEMMA LookupInit == Init => LookupInv
BY LookupAssumption
   DEF Init, LookupInv, LookupTypeOK, CacheInv, SubjectInv, DialInv, CacheValues, Steps,
       Outcomes, CheckPhases

(* The awaits of getUser. *)
LEMMA LookupStepInv ==
    ASSUME LookupInv, NEW l \in Lookups, LookupStep(l)
    PROVE  LookupInv'
<1> USE DEF LookupInv, LookupTypeOK, CacheInv, SubjectInv, DialInv, storeVars, clientVars,
        CacheValues, Write, Steps, Outcomes, Failures, Proceed, Finish
<1>1. CASE CacheReadFails(l)
  BY <1>1 DEF CacheReadFails, ReadingCache
<1>2. CASE CacheAnswers(l)
  <2>1. cache[subject[l]] = "user" \/ cache[subject[l]] = "empty"
    BY <1>2 DEF CacheAnswers
  <2>2. CASE Finish(l, "user") /\ UNCHANGED caching
    BY <1>2, <2>2 DEF CacheAnswers
  <2>3. CASE Proceed(l, "fetch") /\ caching' = [caching EXCEPT ![l] = TRUE]
    BY <1>2, <2>3 DEF CacheAnswers
  <2> QED BY <1>2, <2>1, <2>2, <2>3 DEF CacheAnswers
<1>3. CASE UserNotFound(l)
  BY <1>3 DEF UserNotFound
<1>4. CASE UserFound(l)
  BY <1>4 DEF UserFound
<1>5. CASE OriginFails(l) \/ UserRefused(l)
  BY <1>5 DEF OriginFails, UserRefused, AwaitsOrigin, Failures
<1>6. CASE UserArrives(l)
  <2> DEFINE w == [key |-> subject[l], value |-> "user"]
  <2>1. w \in Write /\ w.key \in users /\ w.value = "user"
    BY <1>6 DEF UserArrives
  <2>2. writes' \subseteq writes \cup {w}
    BY <1>6 DEF UserArrives
  <2>3. LookupTypeOK' /\ CacheInv'
    BY <1>6, <2>1, <2>2 DEF UserArrives
  <2>4. SubjectInv' /\ DialInv'
    BY <1>6 DEF UserArrives
  <2> QED BY <2>3, <2>4
<1>7. CASE SetEnds(l)
  BY <1>7 DEF SetEnds
<1>8. CASE UserMissing(l)
  BY <1>8 DEF UserMissing
<1> QED BY <1>1, <1>2, <1>3, <1>4, <1>5, <1>6, <1>7, <1>8 DEF LookupStep

(* The client, Redis, user-service and the callers. *)
LEMMA LookupNextInv ==
    LookupInv /\ [Next]_userLookupVars => LookupInv'
<1> SUFFICES ASSUME LookupInv, [Next]_userLookupVars PROVE LookupInv'
  OBVIOUS
<1> USE LookupAssumption
    DEF LookupInv, LookupTypeOK, CacheInv, SubjectInv, DialInv, storeVars, clientVars,
        lookupVars, CacheValues, Write, Steps, Outcomes, CheckPhases, AwaitsClient
<1>1. CASE \E l \in Lookups : LookupStep(l)
  BY <1>1, LookupStepInv
<1>2. ASSUME NEW l \in Lookups, NEW u \in Users, Ask(l, u) PROVE LookupInv'
  <2>1. LookupTypeOK'
    BY <1>2 DEF Ask, Proceed
  <2>2. CacheInv'
    BY <1>2 DEF Ask
  <2>3. SubjectInv'
    BY <1>2 DEF Ask, Proceed
  <2>4. DialInv'
    BY <1>2 DEF Ask
  <2> QED BY <2>1, <2>2, <2>3, <2>4
<1>3. ASSUME NEW w \in writes, WriteRuns(w) PROVE LookupInv'
  BY <1>3 DEF WriteRuns
<1>4. ASSUME NEW u \in Users, Expires(u) \/ Register(u) PROVE LookupInv'
  BY <1>4 DEF Expires, Register
<1>5. CASE Connected
  BY <1>5 DEF Connected
<1>6. CASE DialFails
  BY <1>6 DEF DialFails, ReadingCache, ChecksFail
<1>7. CASE RedisStops
  BY <1>7 DEF RedisStops, ChecksFail
<1>8. CASE RedisStarts
  BY <1>8 DEF RedisStarts
<1>9. ASSUME NEW c \in Checks, CheckStarts(c) \/ CheckAnswers(c) PROVE LookupInv'
  BY <1>9 DEF CheckStarts, CheckAnswers
<1>10. CASE UNCHANGED userLookupVars
  BY <1>10 DEF userLookupVars
<1> QED
  BY <1>1, <1>2, <1>3, <1>4, <1>5, <1>6, <1>7, <1>8, <1>9, <1>10 DEF Next

(* The inductive invariant. *)
THEOREM LookupInvariant == Spec => []LookupInv
BY LookupInit, LookupNextInv, PTL DEF Spec

(* Every variable has its type; the client's retries stay within the limit. *)
THEOREM LookupTypeCorrect == Spec => []LookupTypeOK
<1>1. LookupInv => LookupTypeOK
  BY DEF LookupInv
<1> QED BY <1>1, LookupInvariant, PTL

(* A user registered before the lookup began is never reported missing,     *)
(* over any interleaving of lookups, late SETs, expiries and outages.       *)
THEOREM LookupRegisteredUserIsFound == Spec => []RegisteredUserIsFound
<1>1. LookupInv => RegisteredUserIsFound
  BY DEF LookupInv, SubjectInv, RegisteredUserIsFound
<1> QED BY <1>1, LookupInvariant, PTL

(* connectRedis never has two calls of connect() under way. *)
THEOREM LookupOneDialAtATime == Spec => []OneDialAtATime
<1>1. LookupInv => OneDialAtATime
  <2> SUFFICES ASSUME LookupInv PROVE Cardinality(dials) <= 1
    BY DEF OneDialAtATime
  <2>1. CASE dials = {}
    BY <2>1, FS_EmptySet
  <2>2. CASE dials # {}
    <3>1. PICK l : l \in dials
      BY <2>2
    <3>2. dials = {l}
      BY <3>1 DEF LookupInv, DialInv
    <3> QED BY <3>2, FS_Singleton
  <2> QED BY <2>1, <2>2
<1> QED BY <1>1, LookupInvariant, PTL

(* Whatever Redis does, a lookup fails only in its call to user-service.   *)
THEOREM LookupRedisFailsNoLookup == Spec => RedisFailsNoLookup
<1>1. ASSUME LookupTypeOK, [Next]_userLookupVars, NEW l \in Lookups,
             outcome'[l] \in Failures, outcome[l] \notin Failures
      PROVE  step[l] \in AwaitsOrigin
  <2> USE <1>1 DEF LookupTypeOK, storeVars, clientVars, lookupVars, Proceed, Finish, Failures,
          AwaitsOrigin
  <2>1. CASE \E k \in Lookups : LookupStep(k)
    BY <2>1 DEF LookupStep, CacheReadFails, CacheAnswers, UserMissing, UserNotFound,
       UserFound, UserRefused, OriginFails, UserArrives, SetEnds
  <2>2. CASE \E k \in Lookups, u \in Users : Ask(k, u)
    BY <2>2 DEF Ask
  <2>3. CASE UNCHANGED outcome
    BY <2>3
  <2> QED
    BY <2>1, <2>2, <2>3 DEF Next, WriteRuns, Expires, Register, Connected, DialFails,
       RedisStops, RedisStarts, CheckStarts, CheckAnswers, userLookupVars
<1>2. LookupTypeOK /\ [Next]_userLookupVars
        => [\A l \in Lookups : outcome'[l] \in Failures /\ outcome[l] \notin Failures
              => step[l] \in AwaitsOrigin]_userLookupVars
  BY <1>1
<1> QED BY <1>2, LookupTypeCorrect, PTL DEF Spec, RedisFailsNoLookup

-----------------------------------------------------------------------------
(* The refinement of the directory.                                        *)

(* The initial states map to the directory's. *)
LEMMA DirectoryStart == Init => Directory!DirectoryInit
BY DEF Init, Directory!DirectoryInit, Failures

(* An await of getUser is a right reply of the directory, or a stutter. *)
LEMMA AwaitIsReply ==
    ASSUME LookupInv, NEW l \in Lookups, LookupStep(l)
    PROVE  [Directory!DirectoryNext]_(Directory!directoryVars)
<1> DEFINE away == {k \in Lookups : step[k] # "idle" /\ k \notin known}
<1> USE LookupAssumption DEF LookupInv, LookupTypeOK, SubjectInv, storeVars, Proceed, Finish
<1>1. UNCHANGED <<users, subject, known>>
  BY DEF LookupStep, CacheReadFails, CacheAnswers, UserMissing, UserNotFound, UserFound,
     UserRefused, OriginFails, UserArrives, SetEnds
<1>2. step[l] # "idle" /\ step'[l] # "idle"
  BY DEF LookupStep, CacheReadFails, CacheAnswers, UserMissing, UserNotFound, UserFound,
     UserRefused, OriginFails, UserArrives, SetEnds, ReadingCache, AwaitsOrigin
<1>3. \A k \in Lookups \ {l} : step'[k] = step[k]
  BY DEF LookupStep, CacheReadFails, CacheAnswers, UserMissing, UserNotFound, UserFound,
     UserRefused, OriginFails, UserArrives, SetEnds
<1>4. away' = away
  BY <1>1, <1>2, <1>3
<1>5. step[l] # "done" /\ outcome[l] = "none" /\ subject[l] # NoUser
  BY <1>2 DEF LookupStep, CacheReadFails, CacheAnswers, UserMissing, UserNotFound,
     UserFound, UserRefused, OriginFails, UserArrives, SetEnds, ReadingCache, AwaitsOrigin
<1>6. ASSUME NEW answer \in {"user", "notFound"}, Finish(l, answer), Directory!Right(l, answer)
      PROVE  Directory!Reply(l, answer)
  BY <1>1, <1>4, <1>5, <1>6 DEF Directory!Reply, Failures
<1>7. ASSUME UNCHANGED outcome PROVE UNCHANGED Directory!directoryVars
  BY <1>1, <1>4, <1>7 DEF Directory!directoryVars
<1>8. CASE CacheAnswers(l)
  <2>1. subject[l] \in Users
    BY <1>2
  <2>2. CASE cache[subject[l]] # "empty"
    <3>1. cache[subject[l]] = "user" /\ subject[l] \in users
      BY <2>1, <2>2 DEF CacheInv
    <3>2. Finish(l, "user") /\ Directory!Right(l, "user")
      BY <1>8, <3>1 DEF CacheAnswers, Directory!Right
    <3> QED BY <1>6, <3>2 DEF Directory!DirectoryNext
  <2>3. CASE cache[subject[l]] = "empty"
    BY <1>7, <1>8, <2>3 DEF CacheAnswers
  <2> QED BY <2>2, <2>3
<1>9. CASE UserNotFound(l)
  <2>1. Directory!Right(l, "notFound")
    BY <1>9 DEF UserNotFound, Directory!Right
  <2> QED BY <1>6, <1>9, <2>1 DEF UserNotFound, Directory!DirectoryNext
<1>10. CASE OriginFails(l) \/ UserRefused(l)
  <2>1. Finish(l, "error") \/ Finish(l, "refused")
    BY <1>10 DEF OriginFails, UserRefused
  <2>2. Directory!Reply(l, "error")
    BY <1>1, <1>4, <1>5, <2>1 DEF Directory!Reply, Directory!Right, Failures
  <2> QED BY <2>2 DEF Directory!DirectoryNext
<1>11. CASE UserArrives(l)
  <2>1. Directory!Right(l, "user")
    BY <1>11 DEF UserArrives, Directory!Right
  <2> QED BY <1>6, <1>7, <1>11, <2>1 DEF UserArrives, Directory!DirectoryNext
<1>12. CASE SetEnds(l)
  <2>1. Directory!Right(l, "user")
    BY <1>12 DEF SetEnds, Directory!Right
  <2> QED BY <1>6, <1>12, <2>1 DEF SetEnds, Directory!DirectoryNext
<1>13. CASE CacheReadFails(l) \/ UserMissing(l) \/ UserFound(l)
  BY <1>7, <1>13 DEF CacheReadFails, UserMissing, UserFound
<1> QED BY <1>8, <1>9, <1>10, <1>11, <1>12, <1>13 DEF LookupStep

(* Every step is a step of the directory, or a stutter. *)
LEMMA StepIsDirectoryStep ==
    ASSUME LookupInv, [Next]_userLookupVars
    PROVE  [Directory!DirectoryNext]_(Directory!directoryVars)
<1> DEFINE away == {k \in Lookups : step[k] # "idle" /\ k \notin known}
<1> USE LookupAssumption DEF LookupInv, LookupTypeOK, SubjectInv
<1>1. CASE \E l \in Lookups : LookupStep(l)
  BY <1>1, AwaitIsReply
<1>2. ASSUME NEW l \in Lookups, NEW u \in Users, Ask(l, u)
      PROVE  Directory!Ask(l, u)
  <2>1. step[l] = "idle" /\ step'[l] # "idle" /\ l \notin known /\ subject[l] = NoUser
    BY <1>2 DEF Ask, Proceed
  <2>2. \A k \in Lookups \ {l} : step'[k] = step[k] /\ (k \in known' <=> k \in known)
    BY <1>2 DEF Ask, Proceed
  <2>3. l \in known' <=> u \in users
    BY <1>2, <2>1 DEF Ask
  <2>4. away' = IF u \in users THEN away ELSE away \cup {l}
    BY <2>1, <2>2, <2>3
  <2>5. /\ subject' = [subject EXCEPT ![l] = u]
        /\ UNCHANGED <<users, outcome>>
    BY <1>2 DEF Ask, Proceed, storeVars
  <2> QED BY <2>1, <2>4, <2>5 DEF Directory!Ask
<1>3. ASSUME NEW u \in Users, Register(u) PROVE Directory!Register(u)
  BY <1>3 DEF Register, lookupVars, Directory!Register
<1>4. CASE Connected \/ DialFails
  <2>1. \A l \in Lookups : step'[l] # "idle" <=> step[l] # "idle"
    BY <1>4 DEF Connected, DialFails, ReadingCache
  <2>2. UNCHANGED <<users, subject, known, outcome>>
    BY <1>4 DEF Connected, DialFails, storeVars
  <2>3. away' = away
    BY <2>1, <2>2
  <2> QED BY <2>2, <2>3 DEF Directory!directoryVars
<1>5. ASSUME UNCHANGED users, UNCHANGED lookupVars PROVE UNCHANGED Directory!directoryVars
  BY <1>5 DEF lookupVars, Directory!directoryVars
<1>6. CASE \E c \in Checks : CheckStarts(c) \/ CheckAnswers(c)
  BY <1>5, <1>6 DEF CheckStarts, CheckAnswers, storeVars
<1>7. CASE (\E w \in writes : WriteRuns(w)) \/ (\E u \in Users : Expires(u))
  BY <1>5, <1>7 DEF WriteRuns, Expires
<1>8. CASE RedisStops \/ RedisStarts \/ UNCHANGED userLookupVars
  BY <1>5, <1>8 DEF RedisStops, RedisStarts, userLookupVars, storeVars
<1>9. CASE \E l \in Lookups, u \in Users : Ask(l, u)
  BY <1>2, <1>9 DEF Directory!DirectoryNext
<1>10. CASE \E u \in Users : Register(u)
  BY <1>3, <1>10 DEF Directory!DirectoryNext
<1> QED BY <1>1, <1>4, <1>6, <1>7, <1>8, <1>9, <1>10 DEF Next

(* getUser, with its cache, late SETs, timers and outages, answers like the *)
(* table of users itself, or throws.                                        *)
THEOREM LookupImplementsDirectory == Spec => ImplementsDirectory
<1>1. LookupInv /\ [Next]_userLookupVars
        => [Directory!DirectoryNext]_(Directory!directoryVars)
  BY StepIsDirectoryStep
<1> QED
  BY <1>1, DirectoryStart, LookupInvariant, PTL
  DEF Spec, ImplementsDirectory, Directory!DirectorySpec

-----------------------------------------------------------------------------
(* What must happen.                                                       *)

(* Every fair action is enabled where its guard holds: getUser's own step   *)
(* at each of its awaits, the client's while it dials, and the answer to a  *)
(* PING.  It can be read off the actions, but is a hypothesis below: the    *)
(* provers take ENABLED for an atom.                                        *)
NobodyIsStuck ==
    /\ \A l \in Lookups :
          step[l] \notin {"idle", "done"} => ENABLED <<LookupStep(l)>>_userLookupVars
    /\ client = "connecting" => ENABLED <<DialEnds>>_userLookupVars
    /\ \A c \in Checks :
          check[c] = "ping" /\ client = "ready" /\ redis = "up"
             => ENABLED <<CheckAnswers(c)>>_userLookupVars

At(l, await) == step[l] = await

(* From each await getUser goes on to a later one; the client, giving up or *)
(* connected, only takes it along.                                          *)
Later(l) ==
    /\ At(l, "connect") => At(l, "connect")' \/ At(l, "get")' \/ At(l, "fetch")'
    /\ At(l, "get") => At(l, "get")' \/ At(l, "fetch")' \/ At(l, "done")'
    /\ At(l, "fetch") => \/ At(l, "fetch")' \/ At(l, "missing")'
                         \/ At(l, "body")' \/ At(l, "done")'
    /\ At(l, "missing") => At(l, "missing")' \/ At(l, "done")'
    /\ At(l, "body") => At(l, "body")' \/ At(l, "set")' \/ At(l, "done")'
    /\ At(l, "set") => At(l, "set")' \/ At(l, "done")'
    /\ At(l, "done") => At(l, "done")'

(* A step of getUser itself ends the await. *)
LEMMA AwaitGoesOn ==
    ASSUME LookupTypeOK, NEW l \in Lookups, LookupStep(l)
    PROVE  Later(l) /\ step'[l] # step[l]
<1> USE DEF LookupTypeOK, Proceed, Finish, Later, At
<1>1. CASE CacheReadFails(l) \/ CacheAnswers(l)
  BY <1>1 DEF CacheReadFails, CacheAnswers, ReadingCache
<1>2. CASE UserMissing(l) \/ UserNotFound(l) \/ UserFound(l) \/ UserRefused(l) \/ OriginFails(l)
  BY <1>2 DEF UserMissing, UserNotFound, UserFound, UserRefused, OriginFails, AwaitsOrigin
<1>3. CASE UserArrives(l) \/ SetEnds(l)
  BY <1>3 DEF UserArrives, SetEnds
<1> QED BY <1>1, <1>2, <1>3 DEF LookupStep

(* No other step sends it back. *)
LEMMA AwaitsGoForward ==
    ASSUME LookupTypeOK, [Next]_userLookupVars, NEW l \in Lookups
    PROVE  Later(l)
<1>1. CASE LookupStep(l)
  BY <1>1, AwaitGoesOn
<1>2. CASE step'[l] = step[l]
  BY <1>2 DEF Later, At
<1>3. ASSUME NEW k \in Lookups, LookupStep(k) PROVE k = l \/ step'[l] = step[l]
  BY <1>3 DEF LookupTypeOK, LookupStep, CacheReadFails, CacheAnswers, UserMissing,
     UserNotFound, UserFound, UserRefused, OriginFails, UserArrives, SetEnds, Proceed, Finish
<1>4. ASSUME NEW k \in Lookups, NEW u \in Users, Ask(k, u) PROVE Later(l)
  BY <1>4 DEF LookupTypeOK, Ask, Proceed, Later, At
<1>5. CASE Connected \/ DialFails
  BY <1>5 DEF Connected, DialFails, ReadingCache, Later, At
<1>6. CASE UNCHANGED step
  BY <1>2, <1>6
<1> QED
  BY <1>1, <1>2, <1>3, <1>4, <1>5, <1>6
  DEF Next, WriteRuns, Expires, Register, RedisStops, RedisStarts, CheckStarts, CheckAnswers,
      lookupVars, userLookupVars

(* incident-002: no lookup hangs, with Redis and user-service never         *)
(* answering and never failing: the timers of its own awaits are all the    *)
(* fairness there is.                                                       *)
THEOREM EveryLookupEndsInTime ==
    FairSpec /\ []NobodyIsStuck => EveryLookupEnds
<1>1. ASSUME NEW l \in Lookups
      PROVE  FairSpec /\ []NobodyIsStuck => LookupEnds(l)
  <2>1. ASSUME LookupInv, [Next]_userLookupVars
        PROVE  /\ At(l, "connect") => At(l, "connect")' \/ At(l, "get")' \/ At(l, "fetch")'
               /\ At(l, "get") => At(l, "get")' \/ At(l, "fetch")' \/ At(l, "done")'
               /\ At(l, "fetch") => \/ At(l, "fetch")' \/ At(l, "missing")'
                                    \/ At(l, "body")' \/ At(l, "done")'
               /\ At(l, "missing") => At(l, "missing")' \/ At(l, "done")'
               /\ At(l, "body") => At(l, "body")' \/ At(l, "set")' \/ At(l, "done")'
               /\ At(l, "set") => At(l, "set")' \/ At(l, "done")'
    BY <2>1, AwaitsGoForward DEF LookupInv, Later
  <2>2. LookupInv /\ <<LookupStep(l)>>_userLookupVars =>
           /\ At(l, "connect") => ~At(l, "connect")'
           /\ At(l, "get") => ~At(l, "get")'
           /\ At(l, "fetch") => ~At(l, "fetch")'
           /\ At(l, "missing") => ~At(l, "missing")'
           /\ At(l, "body") => ~At(l, "body")'
           /\ At(l, "set") => ~At(l, "set")'
    BY AwaitGoesOn DEF LookupInv, At
  <2>3. NobodyIsStuck =>
           /\ At(l, "connect") => ENABLED <<LookupStep(l)>>_userLookupVars
           /\ At(l, "get") => ENABLED <<LookupStep(l)>>_userLookupVars
           /\ At(l, "fetch") => ENABLED <<LookupStep(l)>>_userLookupVars
           /\ At(l, "missing") => ENABLED <<LookupStep(l)>>_userLookupVars
           /\ At(l, "body") => ENABLED <<LookupStep(l)>>_userLookupVars
           /\ At(l, "set") => ENABLED <<LookupStep(l)>>_userLookupVars
    BY DEF NobodyIsStuck, At
  <2>4. LookupInv /\ step[l] # "idle" =>
           \/ At(l, "connect") \/ At(l, "get") \/ At(l, "fetch")
           \/ At(l, "missing") \/ At(l, "body") \/ At(l, "set") \/ At(l, "done")
    BY DEF LookupInv, LookupTypeOK, Steps, At
  <2>5. At(l, "done") => step[l] = "done"
    BY DEF At
  <2>6. LookupFairness => AwaitFairness(l)
    BY DEF LookupFairness
  <2> QED
    BY <2>1, <2>2, <2>3, <2>4, <2>5, <2>6, LookupInvariant, PTL
    DEF FairSpec, Spec, AwaitFairness, LookupEnds
<1> QED BY <1>1 DEF EveryLookupEnds

-----------------------------------------------------------------------------
(* The health checks, which have no timer.                                 *)

(* A check that waits has a client that is open, and one that waits for     *)
(* connect() a client that still dials: nobody is left waiting on a client  *)
(* that gave up.                                                            *)
CheckInv ==
    \A c \in Checks : /\ check[c] = "connect" => client = "connecting"
                      /\ check[c] = "ping" => client # "closed"

(* Every step keeps it so. *)
LEMMA CheckNextInv ==
    LookupTypeOK /\ CheckInv /\ [Next]_userLookupVars => CheckInv'
<1> SUFFICES ASSUME LookupTypeOK, CheckInv, [Next]_userLookupVars PROVE CheckInv'
  OBVIOUS
<1> USE DEF LookupTypeOK, CheckInv, AwaitsClient
<1>1. CASE UNCHANGED clientVars
  BY <1>1 DEF clientVars
<1>2. CASE \E l \in Lookups, u \in Users : Ask(l, u)
  BY <1>1, <1>2 DEF Ask
<1>3. CASE \E c \in Checks : CheckStarts(c) \/ CheckAnswers(c)
  BY <1>3 DEF CheckStarts, CheckAnswers
<1>4. CASE Connected \/ RedisStops
  BY <1>4 DEF Connected, RedisStops, ChecksFail
<1>5. CASE DialFails
  BY <1>5 DEF DialFails, ChecksFail
<1>6. CASE \E l \in Lookups : LookupStep(l)
  BY <1>1, <1>6 DEF LookupStep, CacheReadFails, CacheAnswers, UserMissing, UserNotFound,
     UserFound, UserRefused, OriginFails, UserArrives, SetEnds
<1> QED
  BY <1>1, <1>2, <1>3, <1>4, <1>5, <1>6
  DEF Next, WriteRuns, Expires, Register, RedisStarts, userLookupVars

(* A check waits until it is answered. *)
LEMMA WaitsOn ==
    ASSUME LookupTypeOK, [Next]_userLookupVars, NEW c \in Checks, check[c] \in AwaitsClient
    PROVE  check'[c] \in AwaitsClient \cup {"healthy", "unhealthy"}
<1> USE DEF LookupTypeOK, AwaitsClient, CheckPhases
<1>1. CASE UNCHANGED check
  BY <1>1
<1>2. CASE \E k \in Checks : CheckStarts(k) \/ CheckAnswers(k)
  BY <1>2 DEF CheckStarts, CheckAnswers
<1>3. CASE Connected \/ DialFails \/ RedisStops
  BY <1>3 DEF Connected, DialFails, RedisStops, ChecksFail
<1>4. CASE \E l \in Lookups : LookupStep(l) \/ \E u \in Users : Ask(l, u)
  BY <1>1, <1>4 DEF LookupStep, CacheReadFails, CacheAnswers, UserMissing, UserNotFound,
     UserFound, UserRefused, OriginFails, UserArrives, SetEnds, Ask, clientVars
<1> QED
  BY <1>1, <1>2, <1>3, <1>4
  DEF Next, WriteRuns, Expires, Register, RedisStarts, clientVars, userLookupVars

(* What a step does to the client and to check c while Redis stays up. *)
LEMMA CalmCheck ==
    ASSUME LookupTypeOK, CheckInv, [Next]_userLookupVars, redis = "up", redis' = "up",
           NEW c \in Checks
    PROVE  /\ client = "connecting" => client' \in {"connecting", "ready"}
           /\ client = "ready" => client' = "ready"
           /\ client = "connecting" /\ DialEnds => client' = "ready"
           /\ client = "ready" /\ check[c] \in AwaitsClient /\ CheckAnswers(c)
                 => check'[c] = "healthy"
<1> USE DEF LookupTypeOK, CheckInv, AwaitsClient, CheckPhases
<1>1. CASE UNCHANGED clientVars
  BY <1>1 DEF clientVars, DialEnds, Connected, DialFails, CheckAnswers
<1>2. CASE \E l \in Lookups, u \in Users : Ask(l, u)
  BY <1>2 DEF Ask, DialEnds, Connected, DialFails, CheckAnswers, storeVars, clientVars
<1>3. CASE \E k \in Checks : CheckStarts(k) \/ CheckAnswers(k)
  BY <1>3 DEF CheckStarts, CheckAnswers, DialEnds, Connected, DialFails
<1>4. CASE Connected \/ DialFails
  BY <1>4 DEF Connected, DialFails, DialEnds, CheckAnswers
<1>5. CASE RedisStops
  BY <1>5 DEF RedisStops
<1>6. CASE \E l \in Lookups : LookupStep(l)
  BY <1>1, <1>6 DEF LookupStep, CacheReadFails, CacheAnswers, UserMissing, UserNotFound,
     UserFound, UserRefused, OriginFails, UserArrives, SetEnds
<1> QED
  BY <1>1, <1>2, <1>3, <1>4, <1>5, <1>6
  DEF Next, WriteRuns, Expires, Register, RedisStarts, userLookupVars

RedisComesBack == <>[](redis = "up")

Waits(c) == check[c] \in AwaitsClient

Dialling == client = "connecting"

IsOpen == client = "ready"

(* Without a timer of its own, every health check is answered where Redis   *)
(* comes back to stay, whatever went on before and however many attempts    *)
(* the strategy allows.                                                     *)
THEOREM HealthChecksEndWithRedis ==
    Spec /\ []NobodyIsStuck /\ RedisComesBack => HealthChecksEnd
<1>1. ASSUME NEW c \in Checks
      PROVE  Spec /\ []NobodyIsStuck /\ RedisComesBack /\ ClientFairness => CheckEnds(c)
  <2> DEFINE Up == redis = "up"
             Ended == check[c] \in {"healthy", "unhealthy"}
  <2>1. ASSUME LookupInv, CheckInv, [Next]_userLookupVars
        PROVE  Up /\ Up' =>
                 /\ Dialling => Dialling' \/ IsOpen'
                 /\ IsOpen => IsOpen'
                 /\ Dialling /\ <<DialEnds>>_userLookupVars => ~Dialling'
                 /\ IsOpen /\ Waits(c) /\ <<CheckAnswers(c)>>_userLookupVars => Ended'
    BY <2>1, CalmCheck DEF LookupInv, Dialling, IsOpen, Waits
  <2>2. LookupInv /\ CheckInv /\ Waits(c) => Dialling \/ IsOpen
    BY DEF LookupInv, LookupTypeOK, CheckInv, Waits, AwaitsClient, Dialling, IsOpen
  <2>3. CheckInv /\ Waits(c) /\ IsOpen => check[c] = "ping"
    BY DEF CheckInv, Waits, AwaitsClient, IsOpen
  <2>4. NobodyIsStuck =>
           /\ Dialling => ENABLED <<DialEnds>>_userLookupVars
           /\ check[c] = "ping" /\ IsOpen /\ Up => ENABLED <<CheckAnswers(c)>>_userLookupVars
    BY DEF NobodyIsStuck, Dialling, IsOpen
  <2>5. Init => CheckInv
    BY DEF Init, CheckInv
  <2>6. LookupInv => LookupTypeOK
    BY DEF LookupInv
  <2>7. ChecksFairness => CheckFairness(c)
    BY DEF ChecksFairness
  <2>8. Waits(c) <=> check[c] \in AwaitsClient
    BY DEF Waits
  <2>9. ASSUME LookupInv, [Next]_userLookupVars
        PROVE  Waits(c) => Waits(c)' \/ Ended'
    BY <2>9, WaitsOn DEF LookupInv, Waits
  <2> HIDE DEF Ended
  <2>10. Ended <=> check[c] \in {"healthy", "unhealthy"}
    BY DEF Ended
  <2> QED
    BY <2>1, <2>2, <2>3, <2>4, <2>5, <2>6, <2>7, <2>8, <2>9, <2>10, CheckNextInv,
       LookupInvariant, PTL
    DEF Spec, ClientFairness, CheckFairness, RedisComesBack, CheckEnds
<1> QED BY <1>1 DEF HealthChecksEnd

-----------------------------------------------------------------------------
(* The same without a Redis that comes back: the retry strategy.           *)

(* A client in use is connected to a Redis that is up. *)
ReadyInv == client = "ready" => redis = "up"

(* Every step keeps it so. *)
LEMMA ReadyNextInv ==
    LookupTypeOK /\ ReadyInv /\ [Next]_userLookupVars => ReadyInv'
<1> SUFFICES ASSUME LookupTypeOK, ReadyInv, [Next]_userLookupVars PROVE ReadyInv'
  OBVIOUS
<1> USE DEF LookupTypeOK, ReadyInv
<1>1. CASE UNCHANGED <<client, redis>>
  BY <1>1
<1>2. CASE \E l \in Lookups, u \in Users : Ask(l, u)
  BY <1>2 DEF Ask, storeVars, clientVars
<1>3. CASE \E c \in Checks : CheckStarts(c) \/ CheckAnswers(c)
  BY <1>3 DEF CheckStarts, CheckAnswers, storeVars
<1>4. CASE Connected \/ DialFails \/ RedisStops \/ RedisStarts
  BY <1>4 DEF Connected, DialFails, RedisStops, RedisStarts, storeVars, clientVars
<1>5. CASE \E l \in Lookups : LookupStep(l)
  BY <1>1, <1>5 DEF LookupStep, CacheReadFails, CacheAnswers, UserMissing, UserNotFound,
     UserFound, UserRefused, OriginFails, UserArrives, SetEnds, storeVars, clientVars
<1> QED
  BY <1>1, <1>2, <1>3, <1>4, <1>5
  DEF Next, WriteRuns, Expires, Register, clientVars, userLookupVars, storeVars

(* Check c waits while the client dials, k attempts having failed. *)
Trying(c, k) == Waits(c) /\ Dialling /\ retries = k

(* Another attempt has failed, and was not the last one that is allowed. *)
TriesAgain(c, k) == k <= MaxRetries /\ Trying(c, k + 1)

(* Its PING is with a client that is connected. *)
Pinging(c) == Waits(c) /\ IsOpen

CheckEnded(c) == check[c] \in {"healthy", "unhealthy"}

(* Whatever Redis, the lookups and the other checks do: the attempts are    *)
(* counted on until one succeeds or the strategy gives up, and a client     *)
(* that loses its connection rejects the PINGs before it dials anew.        *)
LEMMA AttemptCounts ==
    ASSUME LookupTypeOK, CheckInv, ReadyInv, [Next]_userLookupVars,
           NEW c \in Checks, NEW k \in Nat
    PROVE  /\ Trying(c, k) => \/ Trying(c, k)' \/ TriesAgain(c, k)'
                              \/ Pinging(c)' \/ CheckEnded(c)'
           /\ Trying(c, k) /\ DialEnds => TriesAgain(c, k)' \/ Pinging(c)' \/ CheckEnded(c)'
           /\ Pinging(c) => Pinging(c)' \/ CheckEnded(c)'
           /\ Pinging(c) /\ CheckAnswers(c) => CheckEnded(c)'
<1> USE DEF LookupTypeOK, CheckInv, AwaitsClient, CheckPhases, Waits, Dialling, IsOpen, Trying,
        TriesAgain, Pinging, CheckEnded
<1>1. CASE DialFails
  <2>1. ASSUME retries <= MaxRetries, retries' = retries + 1, UNCHANGED <<client, check>>,
               Trying(c, k)
        PROVE  TriesAgain(c, k)'
    BY <2>1, LookupAssumption
  <2>2. client = "connecting" /\ ~CheckAnswers(c)
    BY <1>1 DEF DialFails, CheckAnswers
  <2>3. CASE ChecksFail(AwaitsClient)
    BY <2>2, <2>3 DEF ChecksFail
  <2> QED BY <1>1, <2>1, <2>2, <2>3 DEF DialFails
<1>2. CASE Connected
  BY <1>2 DEF Connected, CheckAnswers
<1>3. CASE RedisStops
  BY <1>3 DEF RedisStops, ChecksFail, DialEnds, Connected, DialFails, CheckAnswers, ReadyInv
<1>4. CASE \E d \in Checks : CheckStarts(d) \/ CheckAnswers(d)
  <2>1. PICK d \in Checks : CheckStarts(d) \/ CheckAnswers(d)
    BY <1>4
  <2>2. CASE CheckAnswers(d)
    BY <2>2 DEF CheckAnswers, DialEnds, Connected, DialFails
  <2>3. CASE CheckStarts(d)
    BY <2>3 DEF CheckStarts, CheckAnswers, DialEnds, Connected, DialFails
  <2> QED BY <2>1, <2>2, <2>3
<1>5. CASE UNCHANGED clientVars
  BY <1>5 DEF clientVars, DialEnds, Connected, DialFails, ChecksFail, CheckAnswers
<1>6. CASE \E l \in Lookups, u \in Users : Ask(l, u)
  BY <1>5, <1>6 DEF Ask, DialEnds, Connected, DialFails, CheckAnswers, storeVars
<1>7. CASE \E l \in Lookups : LookupStep(l)
  BY <1>5, <1>7 DEF LookupStep, CacheReadFails, CacheAnswers, UserMissing, UserNotFound,
     UserFound, UserRefused, OriginFails, UserArrives, SetEnds
<1> QED
  BY <1>1, <1>2, <1>3, <1>4, <1>5, <1>6, <1>7
  DEF Next, WriteRuns, Expires, Register, RedisStarts, userLookupVars

AttemptIsCounted(c, k) ==
    Trying(c, k) ~> TriesAgain(c, k) \/ Pinging(c) \/ CheckEnded(c)

PingIsAnswered(c) == Pinging(c) ~> CheckEnded(c)

(* redisClient.js: every wait of a health check for connect() or PING leads *)
(* to one more counted attempt of at most MaxRetries + 1, to the answer, or *)
(* to a connection; no lookup, no other check and no outage starts the      *)
(* count again.                                                             *)
THEOREM AttemptsRunOut ==
    ASSUME NEW c \in Checks, NEW k \in Nat
    PROVE  Spec /\ []NobodyIsStuck /\ ClientFairness => AttemptIsCounted(c, k)
<1>1. ASSUME LookupInv, CheckInv, ReadyInv, [Next]_userLookupVars
      PROVE  Trying(c, k) => \/ Trying(c, k)' \/ TriesAgain(c, k)'
                             \/ Pinging(c)' \/ CheckEnded(c)'
  BY <1>1, AttemptCounts DEF LookupInv
<1>2. LookupInv /\ CheckInv /\ ReadyInv /\ Trying(c, k) /\ <<Next /\ DialEnds>>_userLookupVars
        => TriesAgain(c, k)' \/ Pinging(c)' \/ CheckEnded(c)'
  BY AttemptCounts DEF LookupInv
<1>3. NobodyIsStuck /\ Trying(c, k) => ENABLED <<DialEnds>>_userLookupVars
  BY DEF NobodyIsStuck, Trying, Dialling
<1>4. Init => CheckInv /\ ReadyInv
  BY DEF Init, CheckInv, ReadyInv
<1>5. LookupInv => LookupTypeOK
  BY DEF LookupInv
<1> QED
  BY <1>1, <1>2, <1>3, <1>4, <1>5, CheckNextInv, ReadyNextInv, LookupInvariant, PTL
  DEF Spec, ClientFairness, AttemptIsCounted

(* Once connected, a PING is answered or rejected, and an outage is as good *)
(* an end as a pong.                                                        *)
THEOREM PingsAreAnswered ==
    ASSUME NEW c \in Checks
    PROVE  Spec /\ []NobodyIsStuck /\ ClientFairness => PingIsAnswered(c)
<1>1. ASSUME LookupInv, CheckInv, ReadyInv, [Next]_userLookupVars
      PROVE  Pinging(c) => Pinging(c)' \/ CheckEnded(c)'
  BY <1>1, AttemptCounts, 0 \in Nat DEF LookupInv
<1>2. LookupInv /\ CheckInv /\ ReadyInv /\ Pinging(c) /\ <<Next /\ CheckAnswers(c)>>_userLookupVars
        => CheckEnded(c)'
  BY AttemptCounts, 0 \in Nat DEF LookupInv
<1>3. CheckInv /\ ReadyInv /\ NobodyIsStuck /\ Pinging(c)
         => ENABLED <<CheckAnswers(c)>>_userLookupVars
  BY DEF NobodyIsStuck, CheckInv, ReadyInv, Pinging, Waits, AwaitsClient, IsOpen
<1>4. Init => CheckInv /\ ReadyInv
  BY DEF Init, CheckInv, ReadyInv
<1>5. LookupInv => LookupTypeOK
  BY DEF LookupInv
<1>6. ChecksFairness => CheckFairness(c)
  BY DEF ChecksFairness
<1> QED
  BY <1>1, <1>2, <1>3, <1>4, <1>5, <1>6, CheckNextInv, ReadyNextInv, LookupInvariant, PTL
  DEF Spec, ClientFairness, CheckFairness, PingIsAnswered

(* redisClient.js's own limit is 5, and with that one every health check is *)
(* answered, by Redis or by the strategy that gives up: over any outages,   *)
(* however many checks wait and whatever lookups share the client.  The     *)
(* attempts are seven in all, and counted out one by one here, since an     *)
(* induction over MaxRetries is beyond the provers.                         *)
THEOREM HealthChecksEndWithFiveRetries ==
    ASSUME MaxRetries = 5
    PROVE  Spec /\ []NobodyIsStuck => HealthChecksEnd
<1>1. ASSUME NEW c \in Checks
      PROVE  Spec /\ []NobodyIsStuck /\ ClientFairness => CheckEnds(c)
  <2> DEFINE Fair == Spec /\ []NobodyIsStuck /\ ClientFairness
  <2>1. /\ Fair => AttemptIsCounted(c, 0)
        /\ Fair => AttemptIsCounted(c, 1)
        /\ Fair => AttemptIsCounted(c, 2)
        /\ Fair => AttemptIsCounted(c, 3)
        /\ Fair => AttemptIsCounted(c, 4)
        /\ Fair => AttemptIsCounted(c, 5)
        /\ Fair => AttemptIsCounted(c, 6)
        /\ Fair => PingIsAnswered(c)
    BY AttemptsRunOut, PingsAreAnswered
  <2>2. /\ TriesAgain(c, 0) => Trying(c, 1)
        /\ TriesAgain(c, 1) => Trying(c, 2)
        /\ TriesAgain(c, 2) => Trying(c, 3)
        /\ TriesAgain(c, 3) => Trying(c, 4)
        /\ TriesAgain(c, 4) => Trying(c, 5)
        /\ TriesAgain(c, 5) => Trying(c, 6)
        /\ ~TriesAgain(c, 6)
    BY DEF TriesAgain
  <2>3. LookupInv /\ CheckInv /\ Waits(c)
          => \/ Pinging(c)
             \/ Trying(c, 0) \/ Trying(c, 1) \/ Trying(c, 2) \/ Trying(c, 3)
             \/ Trying(c, 4) \/ Trying(c, 5) \/ Trying(c, 6)
    BY DEF LookupInv, LookupTypeOK, CheckInv, Waits, AwaitsClient, Dialling, IsOpen, Pinging, Trying
  <2>4. /\ Waits(c) <=> check[c] \in AwaitsClient
        /\ CheckEnded(c) <=> check[c] \in {"healthy", "unhealthy"}
    BY DEF Waits, CheckEnded
  <2>5. Init => CheckInv
    BY DEF Init, CheckInv
  <2>6. LookupInv => LookupTypeOK
    BY DEF LookupInv
  <2> QED
    BY <2>1, <2>2, <2>3, <2>4, <2>5, <2>6, CheckNextInv, LookupInvariant, PTL
    DEF Spec, AttemptIsCounted, PingIsAnswered, CheckEnds
<1> QED BY <1>1 DEF HealthChecksEnd
=============================================================================
