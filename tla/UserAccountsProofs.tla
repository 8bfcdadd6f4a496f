------------------------- MODULE UserAccountsProofs -------------------------
(***************************************************************************)
(* Proofs about UserAccounts, for every number of requests, emails and     *)
(* connections.  The rows and replies need no counting; the pool's limit   *)
(* and its line are about the size of the set of requests that hold a      *)
(* connection.                                                             *)
(***************************************************************************)
EXTENDS UserAccounts, FiniteSetTheorems, TLAPS

(* AccountsTypeOK, but for the pool's limit. *)
TypeInv ==
    /\ faults \in Nat
    /\ service \in {"up", "down"} /\ postgres \in {"up", "down"}
    /\ owner \in [Emails -> Requests \cup {NoOne}]
    /\ register \in [Requests -> Phases]
    /\ email \in [Requests -> Emails]
    /\ reply \in [Requests -> Replies]
    /\ line \in Seq(Requests)
    /\ idle \in Nat /\ closing \in Nat

(* Whoever is in the line waits, and nobody is in it twice. *)
LineInv ==
    /\ \A i \in 1..Len(line) : register[line[i]] = "waiting"
    /\ \A i, j \in 1..Len(line) : line[i] = line[j] => i = j

(* A request without a reply that has inserted its row is in phase         *)
(* "inserted"; one in phase "conflict" found the row of another.           *)
RowInv ==
    \A r \in Requests :
        /\ register[r] # "done" => reply[r] = 0
        /\ register[r] \in {"idle", "waiting", "connecting", "running"} => owner[email[r]] # r
        /\ register[r] = "inserted" => owner[email[r]] = r
        /\ register[r] = "conflict" => owner[email[r]] \notin {r, NoOne}

RowsInv == TypeInv /\ LineInv /\ RowInv /\ ReplyTellsWhoseRow

Holders == InPhase(Holding)

(* While somebody waits, every place in the pool is taken or is that of a  *)
(* connection that has yet to end.                                         *)
PlaceInv ==
    /\ Open <= PoolMax
    /\ line # <<>> => idle = 0 /\ Open + closing >= PoolMax

AccountsInv == RowsInv /\ PlaceInv

-----------------------------------------------------------------------------
(* The head and the tail of a line. *)
LEMMA LineFacts ==
    ASSUME NEW s \in Seq(Requests), s # <<>>
    PROVE  /\ Head(s) = s[1] /\ Head(s) \in Requests /\ 1 \in 1..Len(s)
           /\ Tail(s) \in Seq(Requests) /\ Len(Tail(s)) = Len(s) - 1
           /\ \A i \in 1..Len(Tail(s)) : Tail(s)[i] = s[i + 1] /\ i + 1 \in 1..Len(s)
OBVIOUS

LEMMA RowsInitially == AccountsInit => RowsInv
BY AccountsAssumption
   DEF AccountsInit, EnvironmentInit, RowsInv, TypeInv, LineInv, RowInv, ReplyTellsWhoseRow,
       Phases, Replies

(* The head of the line is served while r, which does not wait, ends. *)
LEMMA HeadServed ==
    ASSUME RowsInv, NEW r \in Requests, register[r] # "waiting", line # <<>>,
           NEW phase \in {"running", "connecting"},
           register' = [register EXCEPT ![r] = "done", ![Head(line)] = phase],
           line' = Tail(line)
    PROVE  /\ Head(line) \in Requests /\ Head(line) # r /\ register[Head(line)] = "waiting"
           /\ register' \in [Requests -> Phases] /\ line' \in Seq(Requests)
           /\ LineInv'
<1> USE DEF RowsInv, TypeInv, LineInv
<1>1. line \in Seq(Requests)
  OBVIOUS
<1>2. Head(line) \in Requests /\ Head(line) # r /\ register[Head(line)] = "waiting"
  BY <1>1, LineFacts
<1>3. register' \in [Requests -> Phases]
  BY <1>2 DEF Phases, Holding
<1>4. line' \in Seq(Requests)
  BY <1>1, LineFacts
<1>5. ASSUME NEW i \in 1..Len(line') PROVE register'[line'[i]] = "waiting"
  <2>1. line'[i] = line[i + 1] /\ i + 1 \in 1..Len(line)
    BY <1>1, LineFacts
  <2>2. line[i + 1] \in Requests /\ register[line[i + 1]] = "waiting"
    BY <2>1, <1>1
  <2>3. line[i + 1] # Head(line)
    BY <2>1, <1>1, LineFacts
  <2> QED BY <2>1, <2>2, <2>3
<1>6. ASSUME NEW i \in 1..Len(line'), NEW j \in 1..Len(line'), line'[i] = line'[j] PROVE i = j
  BY <1>1, <1>6, LineFacts
<1> QED BY <1>2, <1>3, <1>4, <1>5, <1>6

-----------------------------------------------------------------------------
(* Rows and replies.                                                       *)

(* The handler up to its query. *)
LEMMA PostRows ==
    ASSUME RowsInv, NEW r \in Requests, PostInvalid(r) \/ PostWhileDown(r) \/ Post(r)
    PROVE  RowsInv'
<1> USE DEF RowsInv, TypeInv, LineInv, RowInv, ReplyTellsWhoseRow, Phases, Holding, Replies,
        poolVars
<1>1. CASE PostInvalid(r) \/ PostWhileDown(r)
  BY <1>1 DEF PostInvalid, PostWhileDown
<1>2. CASE Post(r) /\ UNCHANGED line
  BY <1>2 DEF Post
<1>3. CASE Post(r) /\ register' = [register EXCEPT ![r] = "waiting"] /\ line' = Append(line, r)
  <2>1. /\ register[r] = "idle" /\ idle' = idle
        /\ UNCHANGED <<faults, service, postgres, owner, email, reply, closing>>
    BY <1>3 DEF Post
  <2>2. TypeInv' /\ RowInv' /\ ReplyTellsWhoseRow'
    BY <1>3, <2>1
  <2>3. Len(line') = Len(line) + 1 /\ line'[Len(line) + 1] = r
    BY <1>3
  <2>4. \A i \in 1..Len(line) : line'[i] = line[i] /\ line[i] \in Requests /\ line[i] # r
    BY <1>3, <2>1
  <2>5. ASSUME NEW i \in 1..Len(line') PROVE register'[line'[i]] = "waiting"
    BY <1>3, <2>3, <2>4
  <2>6. ASSUME NEW i \in 1..Len(line'), NEW j \in 1..Len(line'), line'[i] = line'[j] PROVE i = j
    BY <2>3, <2>4, <2>6
  <2> QED BY <2>2, <2>5, <2>6
<1> QED BY <1>1, <1>2, <1>3 DEF Post

(* The pool. *)
LEMMA PoolRows ==
    ASSUME RowsInv,
           \/ \E r \in Requests : Connected(r) \/ ConnectFails(r)
           \/ ConnectionEnds \/ IdleExpires
    PROVE  RowsInv'
<1> USE DEF RowsInv, TypeInv, LineInv, RowInv, ReplyTellsWhoseRow, Phases, Holding, Replies,
        poolVars
<1>1. ASSUME NEW r \in Requests, Connected(r) PROVE RowsInv'
  BY <1>1 DEF Connected
<1>2. ASSUME NEW r \in Requests, ConnectFails(r) PROVE RowsInv'
  <2>1. CASE line = <<>>
    BY <1>2, <2>1 DEF ConnectFails
  <2>2. CASE line # <<>>
    <3>1. /\ register[r] = "connecting" /\ line' = Tail(line)
          /\ register' = [register EXCEPT ![r] = "done", ![Head(line)] = "connecting"]
      BY <1>2, <2>2 DEF ConnectFails
    <3>2. /\ Head(line) \in Requests /\ Head(line) # r /\ register[Head(line)] = "waiting"
          /\ register' \in [Requests -> Phases] /\ line' \in Seq(Requests) /\ LineInv'
      BY <2>2, <3>1, HeadServed
    <3> QED BY <1>2, <3>1, <3>2 DEF ConnectFails
  <2> QED BY <2>1, <2>2
<1>3. CASE ConnectionEnds /\ UNCHANGED <<register, line>>
  BY <1>3 DEF ConnectionEnds
<1>4. CASE ConnectionEnds /\ line # <<>> /\ line' = Tail(line)
           /\ register' = [register EXCEPT ![Head(line)] = "connecting"]
  <2>1. Head(line) \in Requests /\ register[Head(line)] = "waiting" /\ line' \in Seq(Requests)
    BY <1>4, LineFacts
  <2>2. TypeInv' /\ RowInv' /\ ReplyTellsWhoseRow'
    BY <1>4, <2>1 DEF ConnectionEnds
  <2>3. ASSUME NEW i \in 1..Len(line') PROVE register'[line'[i]] = "waiting"
    <3>1. line'[i] = line[i + 1] /\ i + 1 \in 1..Len(line) /\ line[i + 1] # Head(line)
      BY <1>4, LineFacts
    <3> QED BY <1>4, <3>1
  <2>4. ASSUME NEW i \in 1..Len(line'), NEW j \in 1..Len(line'), line'[i] = line'[j] PROVE i = j
    BY <1>4, <2>4, LineFacts
  <2> QED BY <2>2, <2>3, <2>4
<1>5. CASE IdleExpires
  BY <1>5 DEF IdleExpires
<1> QED BY <1>1, <1>2, <1>3, <1>4, <1>5 DEF ConnectionEnds

(* The statement and its result. *)
LEMMA StatementRows ==
    ASSUME RowsInv, NEW r \in Requests,
           StatementRuns(r) \/ InsertReturns(r) \/ ConflictReturns(r) \/ QueryFails(r)
    PROVE  RowsInv'
<1> USE AccountsAssumption
    DEF RowsInv, TypeInv, LineInv, RowInv, ReplyTellsWhoseRow, Phases, Holding, Replies, poolVars
<1>1. CASE StatementRuns(r) /\ owner[email[r]] = NoOne
  BY <1>1 DEF StatementRuns
<1>2. CASE StatementRuns(r) /\ owner[email[r]] # NoOne
  BY <1>2 DEF StatementRuns
<1>3. CASE InsertReturns(r)
  <2>1. CASE line = <<>>
    BY <1>3, <2>1 DEF InsertReturns, Released
  <2>2. CASE line # <<>>
    <3>1. /\ register[r] = "inserted" /\ line' = Tail(line)
          /\ register' = [register EXCEPT ![r] = "done", ![Head(line)] = "running"]
      BY <1>3, <2>2 DEF InsertReturns, Released
    <3>2. /\ Head(line) \in Requests /\ Head(line) # r /\ register[Head(line)] = "waiting"
          /\ register' \in [Requests -> Phases] /\ line' \in Seq(Requests) /\ LineInv'
      BY <2>2, <3>1, HeadServed
    <3> QED BY <1>3, <3>1, <3>2, <2>2 DEF InsertReturns, Released
  <2> QED BY <2>1, <2>2
<1>4. CASE ConflictReturns(r) \/ QueryFails(r)
  BY <1>4 DEF ConflictReturns, QueryFails, Removed
<1> QED BY <1>1, <1>2, <1>3, <1>4

(* Failures: whoever was under way is answered with a 5xx. *)
LEMMA FailureRows ==
    ASSUME RowsInv, ServiceDies \/ ServiceReturns \/ PostgresStops \/ PostgresStarts
    PROVE  RowsInv'
<1> USE DEF RowsInv, TypeInv, LineInv, RowInv, ReplyTellsWhoseRow, Phases, Holding, Replies,
        poolVars, InPhase, Fault
<1>1. ASSUME NEW told, told \subseteq InPhase(Holding), ProcessEnds(told), faults' \in Nat,
             postgres' \in {"up", "down"}, UNCHANGED <<owner, email>>
      PROVE  RowsInv'
  BY <1>1 DEF ProcessEnds
<1>2. CASE ServiceDies
  BY <1>1, <1>2 DEF ServiceDies
<1>3. CASE ServiceReturns \/ PostgresStarts
  BY <1>3 DEF ServiceReturns, PostgresStarts
<1>4. CASE PostgresStops /\ idle > 0
  BY <1>1, <1>4 DEF PostgresStops
<1>5. CASE PostgresStops /\ idle = 0
  <2>1. Cardinality(InPhase({"running", "inserted", "conflict"})) \in Nat
    BY AccountsAssumption, FS_Subset, FS_CardinalityType
  <2> QED BY <1>5, <2>1 DEF PostgresStops
<1> QED BY <1>2, <1>3, <1>4, <1>5

(* Every step. *)
LEMMA RowsNext == RowsInv /\ [AccountsNext]_accountsVars => RowsInv'
<1> SUFFICES ASSUME RowsInv, [AccountsNext]_accountsVars PROVE RowsInv'
  OBVIOUS
<1>1. CASE UNCHANGED accountsVars
  BY <1>1 DEF accountsVars, poolVars, RowsInv, TypeInv, LineInv, RowInv, ReplyTellsWhoseRow
<1> QED BY <1>1, PostRows, PoolRows, StatementRows, FailureRows DEF AccountsNext

(* What a reply tells of the row, for every number of requests and emails  *)
(* and every size of the pool.                                             *)
THEOREM AccountsReplyTellsWhoseRow == AccountsSpec => []ReplyTellsWhoseRow
<1>1. RowsInv => ReplyTellsWhoseRow
  BY DEF RowsInv
<1> QED BY <1>1, RowsInitially, RowsNext, PTL DEF AccountsSpec

-----------------------------------------------------------------------------
(* The places of the pool.                                                 *)

LEMMA HoldersFinite ==
    /\ Holders \subseteq Requests /\ IsFiniteSet(Holders)
    /\ Cardinality(Holders) \in Nat
    /\ Open = Cardinality(Holders) + idle
BY AccountsAssumption, FS_Subset, FS_CardinalityType DEF Holders, InPhase, Open

(* One more request holds a connection, or one less, or another instead. *)
LEMMA HolderComes ==
    ASSUME NEW r \in Requests, r \notin Holders, Holders' = Holders \cup {r}
    PROVE  Cardinality(Holders') = Cardinality(Holders) + 1
BY HoldersFinite, FS_AddElement

LEMMA HolderGoes ==
    ASSUME NEW r \in Holders, Holders' = Holders \ {r}
    PROVE  Cardinality(Holders') = Cardinality(Holders) - 1
BY HoldersFinite, FS_RemoveElement

LEMMA HolderChanges ==
    ASSUME NEW r \in Holders, NEW s \in Requests, s \notin Holders,
           Holders' = (Holders \ {r}) \cup {s}
    PROVE  Cardinality(Holders') = Cardinality(Holders)
<1>1. IsFiniteSet(Holders \ {r}) /\ Cardinality(Holders \ {r}) = Cardinality(Holders) - 1
  BY HoldersFinite, FS_RemoveElement
<1>2. Cardinality(Holders') = Cardinality(Holders \ {r}) + 1
  BY <1>1, FS_AddElement
<1> QED BY <1>1, <1>2, HoldersFinite

(* The size of Holders after a step is a number. *)
LEMMA HoldersFiniteNext ==
    /\ Cardinality(Holders') \in Nat
    /\ Open' = Cardinality(Holders') + idle'
<1>1. Holders' \subseteq Requests
  BY DEF Holders, InPhase
<1>2. Open' = Cardinality(Holders') + idle'
  BY DEF Open, Holders
<1> QED BY <1>1, <1>2, AccountsAssumption, FS_Subset, FS_CardinalityType

LEMMA PlacesInitially == AccountsInit => PlaceInv
<1> SUFFICES ASSUME AccountsInit PROVE PlaceInv
  OBVIOUS
<1>1. Holders = {}
  BY DEF AccountsInit, Holders, InPhase, Holding
<1> QED BY <1>1, HoldersFinite, FS_EmptySet, AccountsAssumption DEF AccountsInit, PlaceInv

(* Steps that leave the pool as it is. *)
LEMMA PoolUntouched ==
    ASSUME AccountsInv, Holders' = Holders, UNCHANGED poolVars
    PROVE  PlaceInv'
BY HoldersFinite, HoldersFiniteNext DEF AccountsInv, PlaceInv, poolVars

(* The requests. *)
LEMMA RequestPlaces ==
    ASSUME AccountsInv, NEW r \in Requests,
           \/ PostInvalid(r) \/ PostWhileDown(r) \/ Post(r) \/ Connected(r)
           \/ StatementRuns(r) \/ ConflictReturns(r) \/ QueryFails(r)
    PROVE  PlaceInv'
<1> USE HoldersFinite, HoldersFiniteNext, AccountsAssumption DEF AccountsInv, RowsInv, TypeInv
<1>1. CASE PostInvalid(r) \/ PostWhileDown(r) \/ Connected(r) \/ StatementRuns(r)
  <2>1. Holders' = Holders
    BY <1>1 DEF PostInvalid, PostWhileDown, Connected, StatementRuns, Holders, InPhase, Holding
  <2>2. UNCHANGED poolVars
    BY <1>1 DEF PostInvalid, PostWhileDown, Connected, StatementRuns
  <2> QED BY <2>1, <2>2, PoolUntouched
<1>2. CASE Post(r)
  <2>1. r \notin Holders
    BY <1>2 DEF Post, Holders, InPhase, Holding
  <2>2. CASE register' = [register EXCEPT ![r] = "waiting"]
    <3>1. Holders' = Holders
      BY <1>2, <2>2 DEF Post, Holders, InPhase, Holding
    <3>2. idle = 0 /\ idle' = 0 /\ Open >= PoolMax /\ closing' = closing
      BY <1>2, <2>2 DEF Post
    <3> QED BY <3>1, <3>2 DEF PlaceInv
  <2>3. CASE register' # [register EXCEPT ![r] = "waiting"]
    <3>1. \/ register' = [register EXCEPT ![r] = "running"] /\ idle > 0 /\ idle' = idle - 1
          \/ /\ register' = [register EXCEPT ![r] = "connecting"]
             /\ idle = 0 /\ idle' = 0 /\ Open < PoolMax
      BY <1>2, <2>3 DEF Post
    <3>2. line' = line /\ closing' = closing
      BY <1>2, <2>3 DEF Post
    <3>3. Holders' = Holders \cup {r}
      BY <3>1 DEF Holders, InPhase, Holding
    <3>4. Cardinality(Holders') = Cardinality(Holders) + 1
      BY <2>1, <3>3, HolderComes
    <3> QED BY <3>1, <3>2, <3>4 DEF PlaceInv
  <2> QED BY <2>2, <2>3
<1>3. CASE ConflictReturns(r) \/ QueryFails(r)
  <2>1. r \in Holders /\ Holders' = Holders \ {r}
    BY <1>3 DEF ConflictReturns, QueryFails, Removed, Holders, InPhase, Holding
  <2>2. Cardinality(Holders') = Cardinality(Holders) - 1
    BY <2>1, HolderGoes
  <2>3. closing' = closing + 1 /\ UNCHANGED <<line, idle>>
    BY <1>3 DEF ConflictReturns, QueryFails, Removed
  <2> QED BY <2>2, <2>3 DEF PlaceInv
<1> QED BY <1>1, <1>2, <1>3

(* A place that r leaves and the head of the line takes. *)
LEMMA PlacePasses ==
    ASSUME AccountsInv, NEW r \in Holders, line # <<>>,
           NEW phase \in {"running", "connecting"},
           register' = [register EXCEPT ![r] = "done", ![Head(line)] = phase],
           line' = Tail(line), UNCHANGED <<idle, closing>>
    PROVE  PlaceInv'
<1> USE HoldersFinite, HoldersFiniteNext DEF AccountsInv
<1>1. r \in Requests /\ register[r] # "waiting"
  BY DEF Holders, InPhase, Holding
<1>2. Head(line) \in Requests /\ Head(line) # r /\ register[Head(line)] = "waiting"
  BY <1>1, HeadServed
<1>3. Head(line) \notin Holders /\ Holders' = (Holders \ {r}) \cup {Head(line)}
  BY <1>1, <1>2 DEF Holders, InPhase, Holding, RowsInv, TypeInv
<1>4. Cardinality(Holders') = Cardinality(Holders)
  BY <1>2, <1>3, HolderChanges
<1> QED BY <1>4 DEF PlaceInv

(* The connections that come back, fail or end. *)
LEMMA ConnectionPlaces ==
    ASSUME AccountsInv,
           \/ \E r \in Requests : InsertReturns(r) \/ ConnectFails(r)
           \/ ConnectionEnds \/ IdleExpires
    PROVE  PlaceInv'
<1> USE HoldersFinite, HoldersFiniteNext, AccountsAssumption DEF AccountsInv, RowsInv, TypeInv
<1>1. ASSUME NEW r \in Requests, InsertReturns(r) \/ ConnectFails(r) PROVE PlaceInv'
  <2>1. r \in Holders
    BY <1>1 DEF InsertReturns, ConnectFails, Holders, InPhase, Holding
  <2>2. CASE line = <<>>
    <3>1. Holders' = Holders \ {r} /\ line' = <<>> /\ idle' \in {idle, idle + 1}
      BY <1>1, <2>2 DEF InsertReturns, ConnectFails, Released, Holders, InPhase, Holding
    <3>2. Cardinality(Holders') = Cardinality(Holders) - 1
      BY <2>1, <3>1, HolderGoes
    <3> QED BY <3>1, <3>2 DEF PlaceInv
  <2>3. CASE line # <<>>
    <3>1. \E phase \in {"running", "connecting"} :
             register' = [register EXCEPT ![r] = "done", ![Head(line)] = phase]
      BY <1>1, <2>3 DEF InsertReturns, ConnectFails, Released
    <3>2. line' = Tail(line) /\ UNCHANGED <<idle, closing>>
      BY <1>1, <2>3 DEF InsertReturns, ConnectFails, Released
    <3> QED BY <2>1, <2>3, <3>1, <3>2, PlacePasses
  <2> QED BY <2>2, <2>3
<1>2. CASE ConnectionEnds /\ UNCHANGED <<register, line>> /\ (line = <<>> \/ Open >= PoolMax)
  <2>1. Holders' = Holders
    BY <1>2 DEF Holders, InPhase
  <2>2. closing' = closing - 1 /\ closing > 0 /\ UNCHANGED <<idle, line>>
    BY <1>2 DEF ConnectionEnds
  <2> QED BY <1>2, <2>1, <2>2 DEF PlaceInv
<1>3. CASE ConnectionEnds /\ line # <<>> /\ Open < PoolMax
  <2>1. /\ register' = [register EXCEPT ![Head(line)] = "connecting"]
        /\ closing' = closing - 1 /\ closing > 0 /\ idle' = idle
    BY <1>3 DEF ConnectionEnds
  <2>2. Head(line) \in Requests /\ register[Head(line)] = "waiting"
    BY <1>3, LineFacts DEF LineInv
  <2>3. Head(line) \notin Holders /\ Holders' = Holders \cup {Head(line)}
    BY <2>1, <2>2 DEF Holders, InPhase, Holding
  <2>4. Cardinality(Holders') = Cardinality(Holders) + 1
    BY <2>2, <2>3, HolderComes
  <2> QED BY <1>3, <2>1, <2>4 DEF PlaceInv
<1>4. CASE IdleExpires
  <2>1. Holders' = Holders
    BY <1>4 DEF IdleExpires, Holders, InPhase
  <2> QED BY <1>4, <2>1 DEF IdleExpires, PlaceInv
<1> QED BY <1>1, <1>2, <1>3, <1>4 DEF ConnectionEnds

(* The failures. *)
LEMMA FailurePlaces ==
    ASSUME AccountsInv, ServiceDies \/ ServiceReturns \/ PostgresStops \/ PostgresStarts
    PROVE  PlaceInv'
<1> USE HoldersFinite, HoldersFiniteNext, AccountsAssumption DEF AccountsInv, RowsInv, TypeInv
<1>1. ASSUME NEW told, ProcessEnds(told) PROVE PlaceInv'
  <2>1. Holders' = {} /\ line' = <<>> /\ idle' = 0
    BY <1>1 DEF ProcessEnds, Holders, InPhase, Holding
  <2> QED BY <2>1, FS_EmptySet DEF PlaceInv
<1>2. CASE ServiceReturns \/ PostgresStarts
  <2>1. Holders' = Holders /\ UNCHANGED poolVars
    BY <1>2 DEF ServiceReturns, PostgresStarts, Holders, InPhase
  <2> QED BY <2>1, PoolUntouched
<1>3. CASE ServiceDies \/ (PostgresStops /\ idle > 0)
  BY <1>1, <1>3 DEF ServiceDies, PostgresStops
<1>4. CASE PostgresStops /\ idle = 0
  <2> DEFINE broken == InPhase({"running", "inserted", "conflict"})
  <2>1. /\ register' = [r \in Requests |-> IF r \in broken THEN "done" ELSE register[r]]
        /\ closing' = closing + Cardinality(broken) /\ UNCHANGED <<line, idle>>
    BY <1>4 DEF PostgresStops
  <2>2. Holders' = Holders \ broken /\ Holders \cap broken = broken
    BY <2>1 DEF Holders, InPhase, Holding
  <2>3. Cardinality(Holders') = Cardinality(Holders) - Cardinality(broken)
    BY <2>2, FS_Difference
  <2>4. Cardinality(broken) \in Nat
    BY FS_Subset, FS_CardinalityType DEF InPhase
  <2> QED BY <2>1, <2>3, <2>4 DEF PlaceInv
<1> QED BY <1>2, <1>3, <1>4 DEF PostgresStops

(* Every step. *)
LEMMA AccountsNextInv == AccountsInv /\ [AccountsNext]_accountsVars => AccountsInv'
<1> SUFFICES ASSUME AccountsInv, [AccountsNext]_accountsVars PROVE AccountsInv'
  OBVIOUS
<1>1. RowsInv'
  BY RowsNext DEF AccountsInv
<1>2. CASE UNCHANGED accountsVars
  <2>1. Holders' = Holders /\ UNCHANGED poolVars
    BY <1>2 DEF accountsVars, poolVars, Holders, InPhase
  <2> QED BY <1>1, <2>1, PoolUntouched DEF AccountsInv
<1>3. CASE AccountsNext
  BY <1>1, <1>3, RequestPlaces, ConnectionPlaces, FailurePlaces DEF AccountsNext, AccountsInv
<1> QED BY <1>2, <1>3

(* The inductive invariant. *)
THEOREM AccountsInvariant == AccountsSpec => []AccountsInv
<1>1. AccountsInit => AccountsInv
  BY RowsInitially, PlacesInitially DEF AccountsInv
<1> QED BY <1>1, AccountsNextInv, PTL DEF AccountsSpec

(* Type correctness, with the pool's limit. *)
THEOREM AccountsTypeCorrect == AccountsSpec => []AccountsTypeOK
<1>1. AccountsInv => AccountsTypeOK
  BY DEF AccountsInv, RowsInv, TypeInv, PlaceInv, AccountsTypeOK
<1> QED BY <1>1, AccountsInvariant, PTL

(* No request waits while a place in the pool is free and forgotten. *)
THEOREM AccountsNobodyWaitsForAFreePlace == AccountsSpec => []NobodyWaitsForAFreePlace
<1>1. AccountsInv => NobodyWaitsForAFreePlace
  BY HoldersFinite, AccountsAssumption
     DEF AccountsInv, RowsInv, TypeInv, PlaceInv, NobodyWaitsForAFreePlace
<1> QED BY <1>1, AccountsInvariant, PTL

-----------------------------------------------------------------------------
(* What must happen.  Whoever has a connection is answered.                *)

Is(r, phase) == register[r] = phase

(* A registration has one direction. *)
Onward(r) ==
    /\ Is(r, "waiting") => \/ Is(r, "waiting")' \/ Is(r, "connecting")'
                           \/ Is(r, "running")' \/ Is(r, "done")'
    /\ Is(r, "connecting") => Is(r, "connecting")' \/ Is(r, "running")' \/ Is(r, "done")'
    /\ Is(r, "running") => \/ Is(r, "running")' \/ Is(r, "inserted")'
                           \/ Is(r, "conflict")' \/ Is(r, "done")'
    /\ Is(r, "inserted") => Is(r, "inserted")' \/ Is(r, "done")'
    /\ Is(r, "conflict") => Is(r, "conflict")' \/ Is(r, "done")'
    /\ Is(r, "done") => Is(r, "done")'

(* Who is served, while another ends, had waited. *)
LEMMA OnwardWithHead ==
    ASSUME RowsInv, NEW r \in Requests, NEW q \in Requests, line # <<>>,
           register[q] \in {"connecting", "inserted"},
           NEW phase \in {"running", "connecting"},
           register' = [register EXCEPT ![q] = "done", ![Head(line)] = phase],
           line' = Tail(line)
    PROVE  Onward(r)
<1>1. Head(line) \in Requests /\ Head(line) # q /\ register[Head(line)] = "waiting"
  BY HeadServed
<1> QED BY <1>1 DEF RowsInv, TypeInv, Onward, Is

(* No step of anybody's, no failure among them, turns a request back. *)
LEMMA RegistrationsGoOn ==
    ASSUME RowsInv, [AccountsNext]_accountsVars, NEW r \in Requests
    PROVE  Onward(r)
<1> USE DEF RowsInv, TypeInv, Onward, Is
<1>1. CASE UNCHANGED register
  BY <1>1
<1>2. ASSUME NEW q \in Requests, PostInvalid(q) \/ PostWhileDown(q) \/ Post(q) PROVE Onward(r)
  BY <1>2 DEF PostInvalid, PostWhileDown, Post
<1>3. ASSUME NEW q \in Requests,
             Connected(q) \/ StatementRuns(q) \/ ConflictReturns(q) \/ QueryFails(q)
      PROVE  Onward(r)
  BY <1>3 DEF Connected, StatementRuns, ConflictReturns, QueryFails, Removed
<1>4. ASSUME NEW q \in Requests, ConnectFails(q) \/ InsertReturns(q) PROVE Onward(r)
  <2>1. CASE line = <<>>
    BY <1>4, <2>1 DEF ConnectFails, InsertReturns, Released
  <2>2. CASE line # <<>>
    BY <1>4, <2>2, OnwardWithHead DEF ConnectFails, InsertReturns, Released
  <2> QED BY <2>1, <2>2
<1>5. CASE ConnectionEnds
  <2>1. line # <<>> => Head(line) \in Requests /\ register[Head(line)] = "waiting"
    BY LineFacts DEF LineInv
  <2> QED BY <1>5, <2>1 DEF ConnectionEnds
<1>6. CASE ServiceDies \/ PostgresStops
  BY <1>6 DEF ServiceDies, PostgresStops, ProcessEnds, InPhase, Holding
<1> QED
  BY <1>1, <1>2, <1>3, <1>4, <1>5, <1>6
  DEF AccountsNext, IdleExpires, ServiceReturns, PostgresStarts, accountsVars

(* Whoever is through has been told something: next(err), res.json or, with *)
(* the process gone, the gateway's 502.                                     *)
AnsweredInv == \A r \in Requests : Is(r, "done") => reply[r] # 0

LEMMA AnsweredNext == RowsInv /\ AnsweredInv /\ [AccountsNext]_accountsVars => AnsweredInv'
<1> SUFFICES ASSUME RowsInv, AnsweredInv, [AccountsNext]_accountsVars,
                    NEW r \in Requests, register'[r] = "done"
             PROVE  reply'[r] # 0
  BY DEF AnsweredInv, Is
<1> USE DEF RowsInv, TypeInv, AnsweredInv, Is
<1>1. CASE UNCHANGED <<register, reply>>
  BY <1>1
<1>2. ASSUME NEW q \in Requests, PostInvalid(q) \/ PostWhileDown(q) \/ Post(q) PROVE reply'[r] # 0
  BY <1>2 DEF PostInvalid, PostWhileDown, Post
<1>3. ASSUME NEW q \in Requests,
             Connected(q) \/ StatementRuns(q) \/ ConflictReturns(q) \/ QueryFails(q)
      PROVE  reply'[r] # 0
  BY <1>3 DEF Connected, StatementRuns, ConflictReturns, QueryFails, Removed
<1>4. ASSUME NEW q \in Requests, ConnectFails(q) \/ InsertReturns(q) PROVE reply'[r] # 0
  <2>1. CASE line = <<>>
    BY <1>4, <2>1 DEF ConnectFails, InsertReturns, Released
  <2>2. CASE line # <<>>
    <3>1. Head(line) \in Requests /\ reply' \in {[reply EXCEPT ![q] = 500], [reply EXCEPT ![q] = 201]}
      BY <1>4, <2>2, LineFacts DEF ConnectFails, InsertReturns
    <3>2. PICK phase \in {"running", "connecting"} :
             register' = [register EXCEPT ![q] = "done", ![Head(line)] = phase]
      BY <1>4, <2>2 DEF ConnectFails, InsertReturns, Released
    <3> QED BY <3>1, <3>2
  <2> QED BY <2>1, <2>2
<1>5. CASE ConnectionEnds
  <2>1. line # <<>> => Head(line) \in Requests
    BY LineFacts
  <2> QED BY <1>5, <2>1 DEF ConnectionEnds
<1>6. CASE ServiceDies \/ PostgresStops
  BY <1>6 DEF ServiceDies, PostgresStops, ProcessEnds, InPhase, Holding
<1> QED
  BY <1>1, <1>2, <1>3, <1>4, <1>5, <1>6
  DEF AccountsNext, IdleExpires, ServiceReturns, PostgresStarts, accountsVars

(* No handler of users.js ends without an answer. *)
THEOREM AccountsAnswered == AccountsSpec => []AnsweredInv
<1>1. AccountsInit => AnsweredInv
  BY DEF AccountsInit, AnsweredInv, Is
<1>2. AccountsInv => RowsInv
  BY DEF AccountsInv
<1> QED BY <1>1, <1>2, AnsweredNext, AccountsInvariant, PTL DEF AccountsSpec

(* Each fair step of a holder ends what it waits for. *)
LEMMA HolderStepsEnd ==
    ASSUME RowsInv, NEW r \in Requests
    PROVE  /\ Is(r, "connecting") /\ ConnectEnds(r) => ~Is(r, "connecting")'
           /\ Is(r, "running") /\ StatementEnds(r) => ~Is(r, "running")'
           /\ Is(r, "inserted") /\ ResultArrives(r) => ~Is(r, "inserted")'
           /\ Is(r, "conflict") /\ ResultArrives(r) => ~Is(r, "conflict")'
<1> USE DEF RowsInv, TypeInv, Is
<1>1. line # <<>> => Head(line) \in Requests /\ register[Head(line)] = "waiting"
  BY LineFacts DEF LineInv
<1>2. Connected(r) \/ StatementRuns(r) \/ ConflictReturns(r) \/ QueryFails(r)
         => register'[r] # register[r]
  BY DEF Connected, StatementRuns, ConflictReturns, QueryFails, Removed
<1>3. ConnectFails(r) \/ InsertReturns(r) => register'[r] # register[r]
  BY <1>1 DEF ConnectFails, InsertReturns, Released
<1> QED BY <1>2, <1>3 DEF ConnectEnds, StatementEnds, ResultArrives

(* Every action that is fair can be taken where its guard holds: a holder's *)
(* next step waits for nobody else, not for the line and not for Postgres   *)
(* to come back.  This is read off the actions, whose alternatives exclude  *)
(* nothing; it is a hypothesis of what follows, for the provers take        *)
(* ENABLED for an atom.                                                     *)
NoHolderIsStuck ==
    /\ closing > 0 => ENABLED <<ConnectionEnds>>_accountsVars
    /\ \A r \in Requests :
          /\ register[r] = "connecting" => ENABLED <<ConnectEnds(r)>>_accountsVars
          /\ register[r] = "running" => ENABLED <<StatementEnds(r)>>_accountsVars
          /\ register[r] \in {"inserted", "conflict"}
                => ENABLED <<ResultArrives(r)>>_accountsVars

(* db.js and users.js: whoever has come to a connection is answered, with   *)
(* Postgres gone for ever, with everybody failing, and over the deaths of   *)
(* the process; restarts are not needed for it, nor that faults end.        *)
HolderIsAnswered(r) == register[r] \in Holding ~> reply[r] # 0

(* Each holder is answered by its own fair steps. *)
THEOREM HoldersAreAnswered ==
    ASSUME NEW r \in Requests
    PROVE  FairAccountsSpec /\ []NoHolderIsStuck => HolderIsAnswered(r)
<1>1. ASSUME AccountsInv, [AccountsNext]_accountsVars
      PROVE  /\ Is(r, "connecting") => Is(r, "connecting")' \/ Is(r, "running")' \/ Is(r, "done")'
             /\ Is(r, "running") => \/ Is(r, "running")' \/ Is(r, "inserted")'
                                    \/ Is(r, "conflict")' \/ Is(r, "done")'
             /\ Is(r, "inserted") => Is(r, "inserted")' \/ Is(r, "done")'
             /\ Is(r, "conflict") => Is(r, "conflict")' \/ Is(r, "done")'
  BY <1>1, RegistrationsGoOn DEF AccountsInv, Onward
<1>2. AccountsInv =>
        /\ Is(r, "connecting") /\ <<ConnectEnds(r)>>_accountsVars => ~Is(r, "connecting")'
        /\ Is(r, "running") /\ <<StatementEnds(r)>>_accountsVars => ~Is(r, "running")'
        /\ Is(r, "inserted") /\ <<ResultArrives(r)>>_accountsVars => ~Is(r, "inserted")'
        /\ Is(r, "conflict") /\ <<ResultArrives(r)>>_accountsVars => ~Is(r, "conflict")'
  BY HolderStepsEnd DEF AccountsInv
<1>3. NoHolderIsStuck =>
        /\ Is(r, "connecting") => ENABLED <<ConnectEnds(r)>>_accountsVars
        /\ Is(r, "running") => ENABLED <<StatementEnds(r)>>_accountsVars
        /\ Is(r, "inserted") => ENABLED <<ResultArrives(r)>>_accountsVars
        /\ Is(r, "conflict") => ENABLED <<ResultArrives(r)>>_accountsVars
  BY DEF NoHolderIsStuck, Is
<1>4. register[r] \in Holding => \/ Is(r, "connecting") \/ Is(r, "running")
                                 \/ Is(r, "inserted") \/ Is(r, "conflict")
  BY DEF Holding, Is
<1>5. AnsweredInv => (Is(r, "done") => reply[r] # 0)
  BY DEF AnsweredInv
<1>6. RegistrationsFairness => RegistrationFairness(r)
  BY DEF RegistrationsFairness
<1> QED
  BY <1>1, <1>2, <1>3, <1>4, <1>5, <1>6, AccountsInvariant, AccountsAnswered, PTL
  DEF FairAccountsSpec, AccountsSpec, RegistrationFairness, HolderIsAnswered

-----------------------------------------------------------------------------
(* The line.                                                               *)

(* r stands at place i of the line. *)
StandsAt(r, i) == i \in 1..Len(line) /\ line[i] = r

(* The requests that have not come yet. *)
Newcomers == InPhase({"idle"})

(* What a step can do to the line: nothing, a newcomer at its end, its head *)
(* served, or, with the process, its end.                                   *)
LEMMA LineMoves ==
    ASSUME AccountsInv, [AccountsNext]_accountsVars
    PROVE  \/ UNCHANGED line
           \/ \E q \in Newcomers : line' = Append(line, q) /\ Newcomers' = Newcomers \ {q}
           \/ line # <<>> /\ line' = Tail(line)
           \/ line' = <<>> /\ \A r \in Requests : register[r] = "waiting" => Is(r, "done")'
<1> USE DEF AccountsInv, RowsInv, TypeInv
<1>1. ASSUME NEW q \in Requests, Post(q)
      PROVE  UNCHANGED line \/ (q \in Newcomers /\ line' = Append(line, q) /\ Newcomers' = Newcomers \ {q})
  BY <1>1 DEF Post, Newcomers, InPhase
<1>2. ASSUME NEW q \in Requests,
             \/ PostInvalid(q) \/ PostWhileDown(q) \/ Connected(q) \/ StatementRuns(q)
             \/ ConflictReturns(q) \/ QueryFails(q)
      PROVE  UNCHANGED line
  BY <1>2 DEF PostInvalid, PostWhileDown, Connected, StatementRuns, ConflictReturns,
     QueryFails, Removed, poolVars
<1>3. ASSUME NEW q \in Requests, ConnectFails(q) \/ InsertReturns(q)
      PROVE  UNCHANGED line \/ (line # <<>> /\ line' = Tail(line))
  BY <1>3 DEF ConnectFails, InsertReturns, Released
<1>4. ASSUME ConnectionEnds \/ IdleExpires \/ ServiceReturns \/ PostgresStarts \/ UNCHANGED accountsVars
      PROVE  UNCHANGED line \/ (line # <<>> /\ line' = Tail(line))
  BY <1>4 DEF ConnectionEnds, IdleExpires, ServiceReturns, PostgresStarts, accountsVars, poolVars
<1>5. ASSUME ServiceDies \/ PostgresStops
      PROVE  UNCHANGED line
             \/ (line' = <<>> /\ \A r \in Requests : register[r] = "waiting" => Is(r, "done")')
  BY <1>5 DEF ServiceDies, PostgresStops, ProcessEnds, InPhase, Is
<1> QED BY <1>1, <1>2, <1>3, <1>4, <1>5 DEF AccountsNext

(* Nobody comes twice. *)
LEMMA NewcomersGo ==
    ASSUME RowsInv, [AccountsNext]_accountsVars
    PROVE  Newcomers' \subseteq Newcomers
<1> SUFFICES ASSUME NEW r \in Requests, register[r] # "idle"
             PROVE  register'[r] # "idle"
  BY DEF Newcomers, InPhase
<1> QED BY RegistrationsGoOn DEF RowsInv, TypeInv, Onward, Is, Phases, Holding

(* The pool serves in the order of arrival: nobody in the line falls back,  *)
(* or leaves it but for a connection or an answer, whatever fails.          *)
LineKeepsItsOrder ==
    [][\A r \in Requests, i \in Nat :
          StandsAt(r, i) => \/ \E j \in 1..i : StandsAt(r, j)'
                            \/ register'[r] \in Holding \cup {"done"}]_accountsVars

LEMMA PlaceInLine ==
    ASSUME AccountsInv, [AccountsNext]_accountsVars, NEW r \in Requests, NEW i \in Nat,
           StandsAt(r, i)
    PROVE  \/ StandsAt(r, i)' /\ line' # Tail(line)
           \/ i > 1 /\ StandsAt(r, i - 1)'
           \/ register'[r] \in Holding \cup {"done"}
<1> USE DEF AccountsInv, RowsInv, TypeInv, StandsAt
<1>1. register[r] = "waiting"
  BY DEF LineInv
<1>2. CASE UNCHANGED line \/ \E q \in Newcomers : line' = Append(line, q)
  BY <1>2 DEF Newcomers, InPhase
<1>3. CASE line # <<>> /\ line' = Tail(line) /\ i > 1
  BY <1>3, LineFacts
<1>4. CASE line # <<>> /\ line' = Tail(line) /\ i = 1
  <2>1. Head(line) = r
    BY <1>4, LineFacts
  <2>2. register'[r] # "waiting"
    <3>1. ASSUME NEW q \in Requests, ConnectFails(q) \/ InsertReturns(q) PROVE register'[r] # "waiting"
      BY <3>1, <1>4, <2>1, <1>1 DEF ConnectFails, InsertReturns, Released
    <3>2. line' # line
      BY <1>4, LineFacts
    <3>3. ~ \E q \in Requests : line' = Append(line, q)
      BY <1>4, LineFacts
    <3> QED
      BY <1>1, <1>4, <2>1, <3>1, <3>2, <3>3
      DEF AccountsNext, PostInvalid, PostWhileDown, Post, Connected, StatementRuns,
          ConflictReturns, QueryFails, Removed, ConnectionEnds, IdleExpires, ServiceDies,
          ServiceReturns, PostgresStops, PostgresStarts, ProcessEnds, InPhase, accountsVars,
          poolVars
  <2> QED BY <1>1, <2>2, RegistrationsGoOn DEF Onward, Is, Holding
<1>5. CASE \A q \in Requests : register[q] = "waiting" => Is(q, "done")'
  BY <1>1, <1>5 DEF Is
<1> QED BY <1>2, <1>3, <1>4, <1>5, LineMoves

(* The line of db.js's pool is first come, first served. *)
THEOREM AccountsLineKeepsItsOrder == AccountsSpec => LineKeepsItsOrder
<1>1. ASSUME AccountsInv, [AccountsNext]_accountsVars, NEW r \in Requests, NEW i \in Nat,
             StandsAt(r, i)
      PROVE  (\E j \in 1..i : StandsAt(r, j)') \/ register'[r] \in Holding \cup {"done"}
  <2>1. i \in 1..i /\ (i > 1 => i - 1 \in 1..i)
    BY <1>1 DEF StandsAt
  <2> QED BY <1>1, <2>1, PlaceInLine
<1>2. AccountsInv /\ [AccountsNext]_accountsVars
         => [\A r \in Requests, i \in Nat :
               StandsAt(r, i) => \/ \E j \in 1..i : StandsAt(r, j)'
                                 \/ register'[r] \in Holding \cup {"done"}]_accountsVars
  BY <1>1
<1> QED BY <1>2, AccountsInvariant, PTL DEF AccountsSpec, LineKeepsItsOrder

(* A place in the pool is free for the head of the line, and the pool will  *)
(* look at it.                                                              *)
Freed == closing > 0 /\ Open < PoolMax

(* r stands at place i, and those who have not come yet are the same.       *)
Stands(r, i, S) == StandsAt(r, i) /\ Newcomers = S

(* A step that neither moves the line nor brings a newcomer leaves the      *)
(* connections to those who have them, or frees a place.                    *)
LEMMA WhileTheLineStands ==
    ASSUME AccountsInv, [AccountsNext]_accountsVars, NEW r \in Requests, NEW i \in Nat, NEW S,
           Stands(r, i, S), Stands(r, i, S)'
    PROVE  \/ Freed'
           \/ /\ Holders' = Holders /\ Open' = Open
              /\ closing' = closing \/ Open >= PoolMax
<1> USE HoldersFinite, HoldersFiniteNext, AccountsAssumption
    DEF AccountsInv, RowsInv, TypeInv, PlaceInv
<1>1. line # <<>> /\ idle = 0 /\ line' # <<>> /\ line' # Tail(line)
  <2>1. line # <<>> /\ line' # <<>>
    BY DEF Stands, StandsAt
  <2>2. ASSUME line' = Tail(line) PROVE FALSE
    <3>1. line[i] = r /\ line'[i] = r /\ line'[i] = line[i + 1] /\ i + 1 \in 1..Len(line)
      BY <2>1, <2>2, LineFacts DEF Stands, StandsAt
    <3> QED BY <3>1 DEF LineInv, Stands, StandsAt
  <2> QED BY <2>1, <2>2
<1>2. ~ \E q \in Requests : PostInvalid(q) \/ PostWhileDown(q) \/ Post(q)
  <2> SUFFICES ASSUME NEW q \in Requests, PostInvalid(q) \/ PostWhileDown(q) \/ Post(q)
               PROVE  register[q] = "idle" /\ register'[q] # "idle"
    BY DEF Stands, Newcomers, InPhase
  <2> QED BY DEF PostInvalid, PostWhileDown, Post
<1>3. ASSUME NEW q \in Requests, Connected(q) \/ StatementRuns(q)
      PROVE  Holders' = Holders /\ UNCHANGED poolVars
  BY <1>3 DEF Connected, StatementRuns, Holders, InPhase, Holding
<1>4. ASSUME NEW q \in Requests, ConflictReturns(q) \/ QueryFails(q) PROVE Freed'
  <2>1. q \in Holders /\ Holders' = Holders \ {q}
    BY <1>4 DEF ConflictReturns, QueryFails, Removed, Holders, InPhase, Holding
  <2>2. Cardinality(Holders') = Cardinality(Holders) - 1
    BY <2>1, HolderGoes
  <2>3. closing' = closing + 1 /\ idle' = idle
    BY <1>4 DEF ConflictReturns, QueryFails, Removed
  <2> QED BY <2>2, <2>3 DEF Freed
<1>5. ~ \E q \in Requests : ConnectFails(q) \/ InsertReturns(q)
  BY <1>1 DEF ConnectFails, InsertReturns, Released
<1>6. CASE ConnectionEnds
  <2>1. Open >= PoolMax /\ UNCHANGED <<register, idle>>
    BY <1>1, <1>6 DEF ConnectionEnds
  <2>2. Holders' = Holders
    BY <2>1 DEF Holders, InPhase
  <2> QED BY <2>1, <2>2
<1>7. CASE ServiceReturns \/ PostgresStarts \/ UNCHANGED accountsVars
  <2>1. UNCHANGED <<register, poolVars>>
    BY <1>7 DEF ServiceReturns, PostgresStarts, accountsVars
  <2> QED BY <2>1 DEF Holders, InPhase, poolVars
<1>8. CASE PostgresStops /\ idle = 0
  <2> DEFINE broken == InPhase({"running", "inserted", "conflict"})
  <2>1. /\ register' = [q \in Requests |-> IF q \in broken THEN "done" ELSE register[q]]
        /\ closing' = closing + Cardinality(broken) /\ idle' = idle
    BY <1>8, <1>1 DEF PostgresStops
  <2>2. Holders' = Holders \ broken /\ Holders \cap broken = broken
    BY <2>1 DEF Holders, InPhase, Holding
  <2>3. Cardinality(Holders') = Cardinality(Holders) - Cardinality(broken)
    BY <2>2, FS_Difference
  <2>4. IsFiniteSet(broken) /\ Cardinality(broken) \in Nat
    BY FS_Subset, FS_CardinalityType DEF InPhase
  <2>5. CASE Cardinality(broken) = 0
    <3>1. broken = {}
      BY <2>4, <2>5, FS_EmptySet
    <3>2. Holders' = Holders /\ idle' = idle /\ closing' = closing
      BY <2>1, <2>2, <2>5, <3>1
    <3> QED BY <3>2
  <2>6. CASE Cardinality(broken) > 0
    BY <2>1, <2>3, <2>4, <2>6 DEF Freed
  <2> QED BY <2>4, <2>5, <2>6
<1>9. ~ServiceDies /\ ~(PostgresStops /\ idle > 0) /\ ~IdleExpires
  BY <1>1 DEF ServiceDies, PostgresStops, ProcessEnds, IdleExpires
<1> QED
  BY <1>1, <1>2, <1>3, <1>4, <1>5, <1>6, <1>7, <1>8, <1>9 DEF AccountsNext, poolVars

(* While anybody waits, somebody has a connection or a place is free that   *)
(* the pool will look at.                                                   *)
LEMMA SomebodyHolds ==
    ASSUME AccountsInv, line # <<>>
    PROVE  Freed \/ \E h \in Requests : register[h] \in Holding
<1> SUFFICES ASSUME ~Freed PROVE Holders # {}
  BY DEF Holders, InPhase
<1>1. Cardinality(Holders) > 0
  BY HoldersFinite, AccountsAssumption DEF AccountsInv, RowsInv, TypeInv, PlaceInv, Freed
<1> QED BY <1>1, FS_EmptySet

(* So it is in every state of db.js's pool. *)
THEOREM SomebodyIsServed ==
    AccountsSpec => [](line # <<>> => Freed \/ \E h \in Requests : register[h] \in Holding)
<1>1. AccountsInv => (line # <<>> => Freed \/ \E h \in Requests : register[h] \in Holding)
  BY SomebodyHolds
<1> QED BY <1>1, AccountsInvariant, PTL

(* The line moves, though not always by the connection it waited for: who   *)
(* stands in it moves up, gets a connection or is answered, unless somebody *)
(* new has come, who may have taken the place.                              *)
THEOREM LineMovesOn ==
    ASSUME NEW r \in Requests, NEW i \in Nat, NEW S, NEW h \in Requests
    PROVE  FairAccountsSpec /\ []NoHolderIsStuck
              => (Stands(r, i, S) /\ (Freed \/ register[h] \in Holding) ~> ~Stands(r, i, S))
<1> DEFINE X == Stands(r, i, S)
           Holds == register[h] \in Holding
<1>1. ASSUME AccountsInv, [AccountsNext]_accountsVars
      PROVE  /\ X /\ Freed => Freed' \/ ~X'
             /\ X /\ Holds => Holds' \/ Freed' \/ ~X'
  <2> SUFFICES ASSUME X, X', ~Freed'
               PROVE  ~Freed /\ (Holds => Holds')
    OBVIOUS
  <2>1. Holders' = Holders /\ Open' = Open /\ (closing' = closing \/ Open >= PoolMax)
    BY <1>1, WhileTheLineStands
  <2>2. Open \in Nat /\ closing \in Nat
    BY <1>1, HoldersFinite DEF AccountsInv, RowsInv, TypeInv
  <2> QED BY <2>1, <2>2, AccountsAssumption DEF Freed, Holders, InPhase
<1>2. AccountsInv /\ X /\ Freed /\ <<ConnectionEnds>>_accountsVars => ~X'
  <2> SUFFICES ASSUME AccountsInv, X, Freed, ConnectionEnds, X' PROVE FALSE
    OBVIOUS
  <2>1. line # <<>> /\ line \in Seq(Requests)
    BY DEF Stands, StandsAt, AccountsInv, RowsInv, TypeInv
  <2>2. line' = Tail(line)
    BY <2>1, HoldersFinite, AccountsAssumption
    DEF ConnectionEnds, Freed, AccountsInv, RowsInv, TypeInv
  <2>3. line[i] = r /\ line'[i] = r /\ line'[i] = line[i + 1] /\ i + 1 \in 1..Len(line)
    BY <2>1, <2>2, LineFacts DEF Stands, StandsAt
  <2> QED BY <2>3 DEF Stands, StandsAt, AccountsInv, RowsInv, LineInv
<1>3. NoHolderIsStuck /\ Freed => ENABLED <<ConnectionEnds>>_accountsVars
  BY DEF NoHolderIsStuck, Freed
<1>4. FairAccountsSpec /\ []NoHolderIsStuck => HolderIsAnswered(h)
  BY HoldersAreAnswered
<1>5. AccountsInv => (Holds => ~(reply[h] # 0))
  BY DEF AccountsInv, RowsInv, RowInv, Holding
<1>6. Holds <=> register[h] \in Holding
  OBVIOUS
<1>7. X <=> Stands(r, i, S)
  OBVIOUS
<1> HIDE DEF X, Holds
<1> QED
  BY <1>1, <1>2, <1>3, <1>4, <1>5, <1>6, <1>7, AccountsInvariant, PTL
  DEF FairAccountsSpec, AccountsSpec, HolderIsAnswered

-----------------------------------------------------------------------------
(* The end of the line.                                                    *)

(* Whoever waits is in the line. *)
InLineInv == \A r \in Requests : Is(r, "waiting") => \E i \in 1..Len(line) : line[i] = r

(* Nobody waits but by joining the line, or leaves it and still waits. *)
LEMMA InLineNext == AccountsInv /\ InLineInv /\ [AccountsNext]_accountsVars => InLineInv'
<1> SUFFICES ASSUME AccountsInv, InLineInv, [AccountsNext]_accountsVars,
                    NEW r \in Requests, Is(r, "waiting")'
             PROVE  \E i \in 1..Len(line') : line'[i] = r
  BY DEF InLineInv
<1> USE DEF AccountsInv, RowsInv, TypeInv
<1>1. CASE Is(r, "waiting")
  <2>1. PICK i \in 1..Len(line) : line[i] = r
    BY <1>1 DEF InLineInv
  <2>2. register'[r] \notin Holding \cup {"done"}
    BY DEF Is, Holding
  <2>3. i \in Nat /\ StandsAt(r, i)
    BY <2>1 DEF StandsAt
  <2>4. StandsAt(r, i)' \/ StandsAt(r, i - 1)'
    BY <2>2, <2>3, PlaceInLine
  <2> QED BY <2>4 DEF StandsAt
<1>2. CASE ~Is(r, "waiting")
  <2>1. register[r] = "idle"
    BY <1>2, RegistrationsGoOn DEF Onward, Is, Phases, Holding
  <2>2. line' = Append(line, r)
    <3>1. Post(r)
      <4>1. \A q \in Requests : (ConnectFails(q) \/ InsertReturns(q)) => register'[r] # "waiting"
        <5>1. line # <<>> => Head(line) \in Requests /\ register[Head(line)] = "waiting"
          BY LineFacts DEF LineInv
        <5> QED BY <2>1, <5>1 DEF ConnectFails, InsertReturns, Released
      <4>2. ~ConnectionEnds
        BY <2>1, LineFacts DEF ConnectionEnds, LineInv, Is
      <4> QED
        BY <2>1, <4>1, <4>2
        DEF AccountsNext, Is, PostInvalid, PostWhileDown, Post, Connected, StatementRuns,
            ConflictReturns, QueryFails, Removed, IdleExpires, ServiceDies, ServiceReturns,
            PostgresStops, PostgresStarts, ProcessEnds, InPhase, accountsVars
    <3> QED BY <3>1 DEF Post, Is
  <2> QED BY <2>2
<1> QED BY <1>1, <1>2

(* What the line has before it: the requests that may yet come, each of     *)
(* which is one step from the line and two from its connection, and those   *)
(* that stand in it.                                                        *)
Load == 2 * Cardinality(Newcomers) + Len(line)

LoadIs(k) == Load = k
LoadAtLeast(k) == Load >= k

(* It never grows, and while it stays the line and the newcomers do. *)
LEMMA LoadNeverGrows ==
    ASSUME AccountsInv, [AccountsNext]_accountsVars
    PROVE  /\ Load \in Nat /\ Load' \in Nat /\ Load' <= Load
           /\ Load' = Load => line' = line /\ Newcomers' = Newcomers
<1> USE DEF AccountsInv, RowsInv, TypeInv
<1>1. /\ IsFiniteSet(Newcomers) /\ Cardinality(Newcomers) \in Nat
      /\ Newcomers' \subseteq Newcomers
      /\ Cardinality(Newcomers') \in Nat /\ Cardinality(Newcomers') <= Cardinality(Newcomers)
      /\ Cardinality(Newcomers') = Cardinality(Newcomers) => Newcomers' = Newcomers
  <2>1. Newcomers \subseteq Requests
    BY DEF Newcomers, InPhase
  <2>2. IsFiniteSet(Newcomers)
    BY <2>1, AccountsAssumption, FS_Subset
  <2>3. Newcomers' \subseteq Newcomers
    BY NewcomersGo
  <2> QED BY <2>2, <2>3, FS_Subset, FS_CardinalityType
<1>2. Len(line) \in Nat
  OBVIOUS
<1>3. CASE UNCHANGED line
  BY <1>1, <1>2, <1>3 DEF Load
<1>4. CASE \E q \in Newcomers : line' = Append(line, q) /\ Newcomers' = Newcomers \ {q}
  <2>1. PICK q \in Newcomers : line' = Append(line, q) /\ Newcomers' = Newcomers \ {q}
    BY <1>4
  <2>2. Cardinality(Newcomers') = Cardinality(Newcomers) - 1
    BY <1>1, <2>1, FS_RemoveElement
  <2>3. Len(line') = Len(line) + 1
    BY <2>1 DEF Newcomers, InPhase
  <2> QED BY <1>1, <1>2, <2>2, <2>3 DEF Load
<1>5. CASE line # <<>> /\ line' = Tail(line)
  <2>1. Len(line') = Len(line) - 1 /\ Len(line) > 0
    BY <1>5, LineFacts
  <2> QED BY <1>1, <1>2, <2>1 DEF Load
<1>6. CASE line' = <<>>
  <2>1. Len(line') = 0 /\ (Len(line) = 0 => line = <<>>)
    BY <1>6
  <2> QED BY <1>1, <1>2, <1>6, <2>1 DEF Load
<1> QED BY <1>3, <1>4, <1>5, <1>6, LineMoves

(* A natural number that changes over time has a least value, and takes it. *)
(* That is so in every behaviour, whatever Load were; it is a hypothesis    *)
(* because the provers have no induction over the values of a variable.     *)
Least(k) == []LoadAtLeast(k) /\ <>LoadIs(k)
LeastLoadIsTaken == \E k \in Nat : Least(k)

Blocked(r, i, S, h) == Stands(r, i, S) /\ (Freed \/ register[h] \in Holding)
FreeAt(k, r, i, S, h) == LoadIs(k) => ~Blocked(r, i, S, h)
AlwaysFreeAt(k, r, i, S, h) == []FreeAt(k, r, i, S, h)

(* At its least the line cannot move, and whoever stood in it would be in   *)
(* the way of LineMovesOn.                                                  *)
LEMMA NobodyIsBlockedForEver ==
    ASSUME NEW r \in Requests, NEW i \in Nat, NEW S \in SUBSET Requests, NEW h \in Requests,
           NEW k \in Nat
    PROVE  FairAccountsSpec /\ []NoHolderIsStuck /\ Least(k)
              => AlwaysFreeAt(k, r, i, S, h)
<1>1. AccountsInv /\ [AccountsNext]_accountsVars /\ LoadIs(k)
        => LoadIs(k)' \/ ~LoadAtLeast(k)'
  BY LoadNeverGrows DEF LoadIs, LoadAtLeast
<1>2. AccountsInv /\ [AccountsNext]_accountsVars /\ LoadIs(k) /\ LoadIs(k)' /\ Stands(r, i, S)
        => Stands(r, i, S)'
  BY LoadNeverGrows DEF LoadIs, Stands, StandsAt
<1>3. FairAccountsSpec /\ []NoHolderIsStuck => (Blocked(r, i, S, h) ~> ~Stands(r, i, S))
  BY LineMovesOn DEF Blocked
<1>4. Blocked(r, i, S, h) => Stands(r, i, S)
  BY DEF Blocked
<1> QED
  BY <1>1, <1>2, <1>3, <1>4, AccountsInvariant, PTL
  DEF FairAccountsSpec, AccountsSpec, Least, FreeAt, AlwaysFreeAt

Served(r) == Is(r, "waiting") ~> ~Is(r, "waiting")
NeverBlocked(r, k) ==
    \A i \in Nat, S \in SUBSET Requests, h \in Requests : FreeAt(k, r, i, S, h)

(* So at its least nobody is in the line. *)
LEMMA WaitersAreServed ==
    ASSUME NEW r \in Requests, NEW k \in Nat
    PROVE  FairAccountsSpec /\ []NoHolderIsStuck /\ Least(k) => Served(r)
<1>1. FairAccountsSpec /\ []NoHolderIsStuck /\ Least(k) => []NeverBlocked(r, k)
  <2>1. FairAccountsSpec /\ []NoHolderIsStuck /\ Least(k)
          => \A i \in Nat, S \in SUBSET Requests, h \in Requests : AlwaysFreeAt(k, r, i, S, h)
    BY NobodyIsBlockedForEver
  <2>2. (\A i \in Nat, S \in SUBSET Requests, h \in Requests : AlwaysFreeAt(k, r, i, S, h))
          => [](\A i \in Nat, S \in SUBSET Requests, h \in Requests : FreeAt(k, r, i, S, h))
    BY DEF AlwaysFreeAt
  <2> QED BY <2>1, <2>2 DEF NeverBlocked
<1>2. AccountsInv /\ InLineInv /\ LoadIs(k) /\ NeverBlocked(r, k) => ~Is(r, "waiting")
  <2> SUFFICES ASSUME AccountsInv, InLineInv, Is(r, "waiting")
               PROVE  \E i \in Nat, S \in SUBSET Requests, h \in Requests : Blocked(r, i, S, h)
    BY DEF NeverBlocked, FreeAt
  <2>1. PICK i \in 1..Len(line) : line[i] = r
    BY DEF InLineInv
  <2>2. i \in Nat /\ Newcomers \in SUBSET Requests /\ Stands(r, i, Newcomers) /\ line # <<>>
    BY <2>1 DEF Stands, StandsAt, Newcomers, InPhase, AccountsInv, RowsInv, TypeInv
  <2>3. Freed \/ \E h \in Requests : register[h] \in Holding
    BY <2>2, SomebodyHolds
  <2> QED BY <2>2, <2>3 DEF Blocked
<1>3. AccountsInv /\ [AccountsNext]_accountsVars /\ LoadIs(k)
        => LoadIs(k)' \/ ~LoadAtLeast(k)'
  BY LoadNeverGrows DEF LoadIs, LoadAtLeast
<1>4. AccountsInit => InLineInv
  BY DEF AccountsInit, InLineInv, Is
<1> QED
  BY <1>1, <1>2, <1>3, <1>4, InLineNext, AccountsInvariant, PTL
  DEF FairAccountsSpec, AccountsSpec, Least, Served

(* users.js over db.js's pool, with a line that has no timeout: every       *)
(* request that was taken is answered, however many come and whatever fails *)
(* and for how long.                                                        *)
THEOREM EverybodyIsAnswered ==
    FairAccountsSpec /\ []NoHolderIsStuck /\ LeastLoadIsTaken => EveryRegistrationIsAnswered
<1>1. ASSUME NEW r \in Requests
      PROVE  FairAccountsSpec /\ []NoHolderIsStuck /\ LeastLoadIsTaken
                => (register[r] \in Holding \cup {"waiting"} ~> reply[r] # 0)
  <2> DEFINE Holds == register[r] \in Holding
  <2>1. FairAccountsSpec /\ []NoHolderIsStuck /\ LeastLoadIsTaken => Served(r)
    BY WaitersAreServed DEF LeastLoadIsTaken
  <2>2. FairAccountsSpec /\ []NoHolderIsStuck => HolderIsAnswered(r)
    BY HoldersAreAnswered
  <2>3. AccountsInv /\ [AccountsNext]_accountsVars
          => (Is(r, "waiting") => Is(r, "waiting")' \/ Holds' \/ Is(r, "done")')
    BY RegistrationsGoOn DEF AccountsInv, Onward, Is, Holding
  <2>4. AnsweredInv => (Is(r, "done") => reply[r] # 0)
    BY DEF AnsweredInv
  <2>5. register[r] \in Holding \cup {"waiting"} <=> Holds \/ Is(r, "waiting")
    BY DEF Is
  <2>6. Holds <=> register[r] \in Holding
    OBVIOUS
  <2> HIDE DEF Holds
  <2> QED
    BY <2>1, <2>2, <2>3, <2>4, <2>5, <2>6, AccountsInvariant, AccountsAnswered, PTL
    DEF FairAccountsSpec, AccountsSpec, HolderIsAnswered, Served
<1> QED BY <1>1 DEF EveryRegistrationIsAnswered
=============================================================================
