---------------------------- MODULE UserDirectory ----------------------------
(***************************************************************************)
(* What getUser promises the handler of POST /orders, whatever the cache,  *)
(* the client and user-service do: an answer that was right at some moment *)
(* between the call and its return, or an error.  A user once registered   *)
(* stays, so that is one who was absent at the call, for "notFound", and   *)
(* one who is there at the return, for "user".                             *)
(***************************************************************************)
CONSTANTS
    Lookups,    \* the calls of getUser
    Users,      \* user ids
    NoUser      \* the subject of a lookup that has not begun

VARIABLES
    users,      \* the registered users
    subject,    \* subject[l]: whom lookup l asks for
    absent,     \* the lookups whose user was absent when they began
    told        \* told[l]: what lookup l returned

directoryVars == <<users, subject, absent, told>>

DirectoryInit ==
    /\ users = {}
    /\ subject = [l \in Lookups |-> NoUser]
    /\ absent = {}
    /\ told = [l \in Lookups |-> "none"]

Register(u) ==
    /\ u \notin users
    /\ users' = users \cup {u}
    /\ UNCHANGED <<subject, absent, told>>

Ask(l, u) ==
    /\ subject[l] = NoUser
    /\ subject' = [subject EXCEPT ![l] = u]
    /\ absent' = IF u \in users THEN absent ELSE absent \cup {l}
    /\ UNCHANGED <<users, told>>

Right(l, answer) ==
    \/ answer = "user" /\ subject[l] \in users
    \/ answer = "notFound" /\ l \in absent
    \/ answer = "error"

Reply(l, answer) ==
    /\ subject[l] # NoUser /\ told[l] = "none"
    /\ Right(l, answer)
    /\ told' = [told EXCEPT ![l] = answer]
    /\ UNCHANGED <<users, subject, absent>>

DirectoryNext ==
    \/ \E u \in Users : Register(u) \/ \E l \in Lookups : Ask(l, u)
    \/ \E l \in Lookups, answer \in {"user", "notFound", "error"} : Reply(l, answer)

DirectorySpec == DirectoryInit /\ [][DirectoryNext]_directoryVars
=============================================================================
