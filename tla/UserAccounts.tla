---------------------------- MODULE UserAccounts ----------------------------
(***************************************************************************)
(* user-service's POST /users (routes/users.js) and the pool of Postgres   *)
(* connections its query goes through (db.js): a statement waits for a     *)
(* connection, runs, and comes back with a row or an error.  The reads of  *)
(* the service, and the queries of the others, use their pools alike.      *)
(*                                                                         *)
(* The pool is pg's, with its defaults: a query takes an idle connection,  *)
(* or a new one while there are fewer than the maximum, or else waits in   *)
(* line without a limit on the line or on the time.  A statement that      *)
(* fails, for whatever reason, costs its connection; the pool looks at the *)
(* line again when that connection has ended.  db.js listens to no 'error' *)
(* of the pool, so that losing an idle connection ends the process.        *)
(***************************************************************************)
EXTENDS Environment, Sequences, FiniteSets

CONSTANTS
    Requests,   \* the requests POST /users
    Emails,     \* the emails they ask for
    NoOne,      \* the owner of an email without a row
    PoolMax     \* pg's default maximum of 10

ASSUME AccountsAssumption ==
    /\ IsFiniteSet(Requests)
    /\ NoOne \notin Requests
    /\ PoolMax \in Nat \ {0}

VARIABLES
    service,    \* whether the process of user-service is running
    postgres,   \* whether Postgres is
    owner,      \* owner[e]: the request that inserted the row of email e
    register,   \* register[r]: how far request r is
    email,      \* email[r]: what it asks for
    reply,      \* reply[r]: the code of its answer, 0 before
    line,       \* the requests that wait for a connection, the first first
    idle,       \* how many connections the pool keeps that nobody uses
    closing     \* how many removed connections have not ended yet

poolVars == <<line, idle, closing>>
accountsVars == <<faults, service, postgres, owner, register, email, reply, poolVars>>

(* "inserted", "conflict": the statement is over, its result on the way.   *)
Holding == {"connecting", "running", "inserted", "conflict"}
Phases == {"idle", "waiting", "done"} \cup Holding
Replies == {0, 201, 400, 409, 500, 502}

InPhase(phases) == {r \in Requests : register[r] \in phases}

(* totalCount *)
Open == Cardinality(InPhase(Holding)) + idle

AccountsInit ==
    /\ EnvironmentInit
    /\ service = "up" /\ postgres = "up"
    /\ owner = [e \in Emails |-> NoOne]
    /\ register = [r \in Requests |-> "idle"]
    /\ email \in [Requests -> Emails]
    /\ reply = [r \in Requests |-> 0]
    /\ line = <<>> /\ idle = 0 /\ closing = 0

-----------------------------------------------------------------------------
(* The handler, up to its query.                                           *)

PostInvalid(r) ==
    /\ register[r] = "idle" /\ service = "up"
    /\ register' = [register EXCEPT ![r] = "done"]
    /\ reply' = [reply EXCEPT ![r] = 400]
    /\ UNCHANGED <<faults, service, postgres, owner, email, poolVars>>

(* The gateway cannot reach the process. *)
PostWhileDown(r) ==
    /\ register[r] = "idle" /\ service = "down"
    /\ register' = [register EXCEPT ![r] = "done"]
    /\ reply' = [reply EXCEPT ![r] = 502]
    /\ UNCHANGED <<faults, service, postgres, owner, email, poolVars>>

(* pool.query is called. *)
Post(r) ==
    /\ register[r] = "idle" /\ service = "up"
    /\ \/ /\ idle > 0
          /\ register' = [register EXCEPT ![r] = "running"]
          /\ idle' = idle - 1
          /\ UNCHANGED line
       \/ /\ idle = 0 /\ Open < PoolMax
          /\ register' = [register EXCEPT ![r] = "connecting"]
          /\ UNCHANGED <<line, idle>>
       \/ /\ idle = 0 /\ Open >= PoolMax
          /\ register' = [register EXCEPT ![r] = "waiting"]
          /\ line' = Append(line, r)
          /\ UNCHANGED idle
    /\ UNCHANGED <<faults, service, postgres, owner, email, reply, closing>>

-----------------------------------------------------------------------------
(* The pool.                                                               *)

(* The connection of r is idle, or goes to who has waited longest. *)
Released(r) ==
    /\ \/ /\ line = <<>>
          /\ register' = [register EXCEPT ![r] = "done"]
          /\ idle' = idle + 1
          /\ UNCHANGED line
       \/ /\ line # <<>>
          /\ register' = [register EXCEPT ![r] = "done", ![Head(line)] = "running"]
          /\ line' = Tail(line)
          /\ UNCHANGED idle
    /\ UNCHANGED closing

Removed_Forgotten(r) ==
    /\ register' = [register EXCEPT ![r] = "done"]
    /\ UNCHANGED poolVars

(* release(err): the connection of r is taken out of the pool and ended. *)
Removed(r) ==
    /\ register' = [register EXCEPT ![r] = "done"]
    /\ closing' = closing + 1
    /\ UNCHANGED <<line, idle>>

(* It has ended: who has waited longest gets a new one, unless a request   *)
(* that came meanwhile took its place.                                     *)
ConnectionEnds ==
    /\ closing > 0
    /\ closing' = closing - 1
    /\ \/ /\ line # <<>> /\ Open < PoolMax
          /\ register' = [register EXCEPT ![Head(line)] = "connecting"]
          /\ line' = Tail(line)
       \/ /\ line = <<>> \/ Open >= PoolMax
          /\ UNCHANGED <<register, line>>
    /\ UNCHANGED <<faults, service, postgres, owner, email, reply, idle>>

Connected(r) ==
    /\ register[r] = "connecting" /\ postgres = "up"
    /\ register' = [register EXCEPT ![r] = "running"]
    /\ UNCHANGED <<faults, service, postgres, owner, email, reply, poolVars>>

(* The query rejects, and the line is looked at at once. *)
ConnectFails(r) ==
    /\ register[r] = "connecting" /\ postgres = "down"
    /\ reply' = [reply EXCEPT ![r] = 500]
    /\ \/ /\ line = <<>>
          /\ register' = [register EXCEPT ![r] = "done"]
          /\ UNCHANGED line
       \/ /\ line # <<>>
          /\ register' = [register EXCEPT ![r] = "done", ![Head(line)] = "connecting"]
          /\ line' = Tail(line)
    /\ UNCHANGED <<faults, service, postgres, owner, email, idle, closing>>

(* idleTimeoutMillis, 10 s by default. *)
IdleExpires ==
    /\ idle > 0
    /\ idle' = idle - 1
    /\ UNCHANGED <<faults, service, postgres, owner, register, email, reply, line, closing>>

-----------------------------------------------------------------------------
(* The statement and its result.                                           *)

StatementRuns_NotUnique(r) ==
    /\ register[r] = "running"
    /\ owner' = [owner EXCEPT ![email[r]] = r]
    /\ register' = [register EXCEPT ![r] = "inserted"]
    /\ UNCHANGED <<faults, service, postgres, email, reply, poolVars>>

(* INSERT INTO users, whose email is UNIQUE. *)
StatementRuns(r) ==
    /\ register[r] = "running"
    /\ \/ /\ owner[email[r]] = NoOne
          /\ owner' = [owner EXCEPT ![email[r]] = r]
          /\ register' = [register EXCEPT ![r] = "inserted"]
       \/ /\ owner[email[r]] # NoOne
          /\ register' = [register EXCEPT ![r] = "conflict"]
          /\ UNCHANGED owner
    /\ UNCHANGED <<faults, service, postgres, email, reply, poolVars>>

InsertReturns_ReleasedTwice(r) ==
    /\ register[r] = "inserted"
    /\ register' = [register EXCEPT ![r] = "done"]
    /\ idle' = idle + 2
    /\ reply' = [reply EXCEPT ![r] = 201]
    /\ UNCHANGED <<faults, service, postgres, owner, email, line, closing>>

(* The row comes back. *)
InsertReturns(r) ==
    /\ register[r] = "inserted"
    /\ Released(r)
    /\ reply' = [reply EXCEPT ![r] = 201]
    /\ UNCHANGED <<faults, service, postgres, owner, email>>

(* Error 23505, unique_violation. *)
ConflictReturns(r) ==
    /\ register[r] = "conflict"
    /\ Removed(r)
    /\ reply' = [reply EXCEPT ![r] = 409]
    /\ UNCHANGED <<faults, service, postgres, owner, email>>

QueryFails_NotForwarded(r) ==
    /\ register[r] = "running"
    /\ Removed(r)
    /\ UNCHANGED <<faults, service, postgres, owner, email, reply>>

(* Any other error, a name that is too long say: next(err), a 500. *)
QueryFails(r) ==
    /\ register[r] = "running"
    /\ Removed(r)
    /\ reply' = [reply EXCEPT ![r] = 500]
    /\ UNCHANGED <<faults, service, postgres, owner, email>>

-----------------------------------------------------------------------------
(* Failures.                                                               *)

(* The requests `told` are answered with a 500, the others that were under *)
(* way with the gateway's 502; the process and its pool are gone.          *)
ProcessEnds(told) ==
    LET ended == InPhase({"waiting"} \cup Holding)
    IN  /\ service' = "down"
        /\ register' = [r \in Requests |-> IF r \in ended THEN "done" ELSE register[r]]
        /\ reply' = [r \in Requests |-> IF r \in told THEN 500
                                        ELSE IF r \in ended THEN 502 ELSE reply[r]]
        /\ line' = <<>> /\ idle' = 0 /\ closing' = 0

ServiceDies ==
    /\ service = "up" /\ Fault("service")
    /\ ProcessEnds({})
    /\ UNCHANGED <<postgres, owner, email>>

ServiceReturns ==
    /\ service = "down"
    /\ service' = "up"
    /\ UNCHANGED <<faults, postgres, owner, register, email, reply, poolVars>>

(* Every connection breaks.  The queries on them reject, their statements   *)
(* committed or not; an idle one is an uncaught error, and the process ends *)
(* with some of those answered and some not.                                *)
PostgresStops ==
    LET broken == InPhase({"running", "inserted", "conflict"})
    IN  /\ postgres = "up" /\ Fault("postgres")
        /\ postgres' = "down"
        /\ \/ /\ idle = 0
              /\ register' = [r \in Requests |-> IF r \in broken THEN "done" ELSE register[r]]
              /\ reply' = [r \in Requests |-> IF r \in broken THEN 500 ELSE reply[r]]
              /\ closing' = closing + Cardinality(broken)
              /\ UNCHANGED <<service, line, idle>>
           \/ /\ idle > 0
              /\ \E told \in SUBSET broken : ProcessEnds(told)
        /\ UNCHANGED <<owner, email>>

PostgresStarts ==
    /\ postgres = "down"
    /\ postgres' = "up"
    /\ UNCHANGED <<faults, service, owner, register, email, reply, poolVars>>

-----------------------------------------------------------------------------
AccountsNext ==
    \/ \E r \in Requests :
          \/ PostInvalid(r) \/ PostWhileDown(r) \/ Post(r)
          \/ Connected(r) \/ ConnectFails(r)
          \/ StatementRuns(r) \/ InsertReturns(r) \/ ConflictReturns(r) \/ QueryFails(r)
    \/ ConnectionEnds \/ IdleExpires
    \/ ServiceDies \/ ServiceReturns \/ PostgresStops \/ PostgresStarts

AccountsSpec == AccountsInit /\ [][AccountsNext]_accountsVars

ConnectEnds(r) == Connected(r) \/ ConnectFails(r)
StatementEnds(r) == StatementRuns(r) \/ QueryFails(r)
ResultArrives(r) == InsertReturns(r) \/ ConflictReturns(r)

(* Connections are made or refused, statements end and ended connections   *)
(* are noticed; nothing is assumed of failures, restarts or clients.       *)
RegistrationFairness(r) ==
    /\ WF_accountsVars(ConnectEnds(r))
    /\ WF_accountsVars(StatementEnds(r))
    /\ WF_accountsVars(ResultArrives(r))

RegistrationsFairness == \A r \in Requests : RegistrationFairness(r)

FairAccountsSpec ==
    AccountsSpec /\ RegistrationsFairness /\ WF_accountsVars(ConnectionEnds)

-----------------------------------------------------------------------------
AccountsTypeOK ==
    /\ faults \in Nat
    /\ service \in {"up", "down"} /\ postgres \in {"up", "down"}
    /\ owner \in [Emails -> Requests \cup {NoOne}]
    /\ register \in [Requests -> Phases]
    /\ email \in [Requests -> Emails]
    /\ reply \in [Requests -> Replies]
    /\ line \in Seq(Requests)
    /\ idle \in Nat /\ closing \in Nat
    /\ Open <= PoolMax

(* users.js and the UNIQUE of init.sql, over races of the same email and    *)
(* statements that commit without being heard of: a 201 is told to the one  *)
(* request whose row is there, and a 400 or 409 only to requests that left  *)
(* none, a 409 because of another's row.  Only a 5xx leaves it open.        *)
ReplyTellsWhoseRow ==
    \A r \in Requests :
        LET holder == owner[email[r]]
        IN  /\ reply[r] = 201 => holder = r
            /\ reply[r] = 400 => holder # r
            /\ reply[r] = 409 => holder \notin {r, NoOne}

(* db.js gives every connection back, whatever became of its statement, and *)
(* over failed connects, failed statements and requests that come meanwhile *)
(* no place in the pool is forgotten: while somebody waits, all of them are *)
(* taken or one that is ending will be noticed.                             *)
NobodyWaitsForAFreePlace ==
    line # <<>> => idle = 0 /\ (Open = PoolMax \/ closing > 0)

(* The line has no timeout, and needs none: every request that the service  *)
(* took is answered.                                                        *)
EveryRegistrationIsAnswered ==
    \A r \in Requests : register[r] \in Holding \cup {"waiting"} ~> reply[r] # 0
=============================================================================
