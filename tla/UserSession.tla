---------------------------- MODULE UserSession -----------------------------
(***************************************************************************)
(* Login, the user row and its cached copy (handler/user.go: UserLogin,    *)
(* GetUserInfo, UpdateUserInfo; db/redis.go).                              *)
(*                                                                         *)
(* A user row lives in MySQL; a JSON copy of it lives in Redis under       *)
(* user:<id> for 24 hours.  GetUserInfo and UserLogin fill the copy after  *)
(* a query, UpdateUserInfo deletes it after its UPDATE, and                *)
(* checkAchievements changes exp and level of the row and does not know    *)
(* of the copy.  Each query, update and cache command is a step of its     *)
(* own, and requests interleave between any two.                           *)
(*                                                                         *)
(* What the row holds is abstracted to a version: every UPDATE makes the   *)
(* next one.  session_key is not part of the copy, and the UPDATE of a     *)
(* login that writes it is left out.  Refused requests are left out.       *)
(***************************************************************************)
EXTENDS Integers

CONSTANTS
  Procs,      \* goroutines serving HTTP requests
  Users,      \* users, known by the openid of WeChat's answer or, when that answer
              \* is not valid, by "dev_" and the code of the request
  None,       \* no row, no copy, no request
  MaxWrites,  \* bound: update requests and awards in a behaviour
  MaxFaults   \* bound: failed queries, updates, cache commands and crashes

ASSUME SessionAssumption ==
  /\ None \notin Nat
  /\ None \notin [user : Users, ver : Nat]
  /\ MaxWrites \in Nat
  /\ MaxFaults \in Nat

VARIABLES
  row,         \* version of the row of each user
  cache,       \* version of the copy in Redis
  tokens,      \* users to whom a login has been answered with a token
  pc,          \* what each goroutine executes next
  req,         \* the user it serves and the version it read or wrote
  awarded,     \* users whose row checkAchievements has changed
  overlapped,  \* users with an UPDATE that found a fill holding an older row
  uncleared,   \* users with an UPDATE that was not followed by a Del
  writes,      \* update requests and awards so far
  faults       \* failures so far

histories == <<awarded, overlapped, uncleared>>
vars == <<row, cache, tokens, pc, req, histories, writes, faults>>

-----------------------------------------------------------------------------
Registered(u) == row[u] # None

Write == writes < MaxWrites /\ writes' = writes + 1
Fault == faults < MaxFaults /\ faults' = faults + 1

Goto(p, l) == pc' = [pc EXCEPT ![p] = l]
Finish(p)  == Goto(p, "idle") /\ req' = [req EXCEPT ![p] = None]
Serve(p, u, v, l) ==
  /\ pc[p] = "idle"
  /\ req' = [req EXCEPT ![p] = [user |-> u, ver |-> v]]
  /\ Goto(p, l)

\* A goroutine that read the row and has not written the copy yet.
Filling(p, u) == pc[p] = "cacheSet" /\ req[p].user = u

Init ==
  /\ row = [u \in Users |-> None]
  /\ cache = [u \in Users |-> None]
  /\ tokens = {}
  /\ pc = [p \in Procs |-> "idle"]
  /\ req = [p \in Procs |-> None]
  /\ awarded = {} /\ overlapped = {} /\ uncleared = {}
  /\ writes = 0 /\ faults = 0

-----------------------------------------------------------------------------
(* UserLogin.                                                               *)

LoginFound(p) ==
  /\ \E u \in Users : Registered(u) /\ Serve(p, u, row[u], "cacheSet")
  /\ UNCHANGED <<row, cache, tokens, histories, writes, faults>>

\* A failed query is taken for a new user.
LoginNotFound(p) ==
  /\ \E u \in Users :
       /\ (~Registered(u) /\ UNCHANGED faults) \/ Fault
       /\ Serve(p, u, 0, "loginInsert")
  /\ UNCHANGED <<row, cache, tokens, histories, writes>>

\* Mistake: the error of the INSERT is logged, and the login goes on.
LoginInsertUnchecked(p) ==
  LET u == req[p].user IN
  /\ pc[p] = "loginInsert"
  /\ \/ ~Registered(u) /\ row' = [row EXCEPT ![u] = 1] /\ UNCHANGED faults
     \/ Fault /\ UNCHANGED row
  /\ Goto(p, "cacheSet")
  /\ UNCHANGED <<cache, tokens, req, histories, writes>>

\* openid is a unique key: the INSERT of a user that is there fails, and the
\* login with it.  An INSERT may take effect and lose its answer.
LoginInsert(p) ==
  LET u == req[p].user
      inserted == ~Registered(u) /\ row' = [row EXCEPT ![u] = 1] IN
  /\ pc[p] = "loginInsert"
  /\ \/ inserted /\ req' = [req EXCEPT ![p].ver = 1] /\ Goto(p, "cacheSet") /\ UNCHANGED faults
     \/ inserted /\ Fault /\ Finish(p)
     \/ Registered(u) /\ Finish(p) /\ UNCHANGED <<row, faults>>
     \/ Fault /\ Finish(p) /\ UNCHANGED row
  /\ UNCHANGED <<cache, tokens, histories, writes>>

\* Last step of UserLogin and of a GetUserInfo that missed; a failure is logged.
\* The login then answers with the token that the user's other requests need.
CacheSet(p) ==
  /\ pc[p] = "cacheSet"
  /\ tokens' = tokens \cup {req[p].user}
  /\ \/ cache' = [cache EXCEPT ![req[p].user] = req[p].ver] /\ UNCHANGED faults
     \/ Fault /\ UNCHANGED cache
  /\ Finish(p)
  /\ UNCHANGED <<row, histories, writes>>

-----------------------------------------------------------------------------
(* GetUserInfo.                                                             *)

\* A hit is answered at once and changes nothing.
InfoMiss(p) ==
  /\ \E u \in Users :
       /\ u \in tokens
       /\ (cache[u] = None /\ UNCHANGED faults) \/ Fault
       /\ Serve(p, u, 0, "infoQuery")
  /\ UNCHANGED <<row, cache, tokens, histories, writes>>

\* Mistake: the zero value is cached when the query fails.
InfoQueryUnchecked(p) ==
  /\ pc[p] = "infoQuery"
  /\ \/ req' = [req EXCEPT ![p].ver = row[req[p].user]] /\ UNCHANGED faults
     \/ Fault /\ UNCHANGED req
  /\ Goto(p, "cacheSet")
  /\ UNCHANGED <<row, cache, tokens, histories, writes>>

InfoQuery(p) ==
  /\ pc[p] = "infoQuery"
  /\ \/ /\ req' = [req EXCEPT ![p].ver = row[req[p].user]]
        /\ Goto(p, "cacheSet") /\ UNCHANGED faults
     \/ Fault /\ Finish(p)
  /\ UNCHANGED <<row, cache, tokens, histories, writes>>

-----------------------------------------------------------------------------
(* UpdateUserInfo.                                                          *)

Update(p) ==
  /\ \E u \in Users : u \in tokens /\ Serve(p, u, 0, "update")
  /\ Write
  /\ UNCHANGED <<row, cache, tokens, histories, faults>>

\* Mistake: nobody deletes the copy.
UpdateRowOnly(p) ==
  LET u == req[p].user IN
  /\ pc[p] = "update"
  /\ row' = [row EXCEPT ![u] = @ + 1]
  /\ req' = [req EXCEPT ![p].ver = row'[u]]
  /\ Goto(p, "updateRead")
  /\ UNCHANGED <<cache, tokens, histories, writes, faults>>

\* The UPDATE; a failed one ends the request with 500 before the copy is deleted,
\* also when it took effect and only its answer was lost.
UpdateRow(p) ==
  LET u == req[p].user
      written == /\ row' = [row EXCEPT ![u] = @ + 1]
                 /\ overlapped' = IF \E q \in Procs : Filling(q, u)
                                    THEN overlapped \cup {u} ELSE overlapped IN
  /\ pc[p] = "update"
  /\ \/ /\ written /\ UNCHANGED faults
        /\ req' = [req EXCEPT ![p].ver = row'[u]] /\ Goto(p, "updateDel")
        /\ UNCHANGED uncleared
     \/ written /\ Fault /\ Finish(p) /\ uncleared' = uncleared \cup {u}
     \/ Fault /\ Finish(p) /\ UNCHANGED <<row, overlapped, uncleared>>
  /\ UNCHANGED <<cache, tokens, awarded, writes>>

\* The error of Del is not looked at.
UpdateDel(p) ==
  /\ pc[p] = "updateDel"
  /\ \/ cache' = [cache EXCEPT ![req[p].user] = None] /\ UNCHANGED <<uncleared, faults>>
     \/ Fault /\ uncleared' = uncleared \cup {req[p].user} /\ UNCHANGED cache
  /\ Goto(p, "updateRead")
  /\ UNCHANGED <<row, tokens, req, awarded, overlapped, writes>>

\* The row is read back for the answer, whatever the query returns.
UpdateRead(p) ==
  /\ pc[p] = "updateRead"
  /\ Finish(p)
  /\ UNCHANGED <<row, cache, tokens, histories, writes, faults>>

-----------------------------------------------------------------------------
(* What happens to the row and the copy otherwise.                          *)

\* checkAchievements, after a publication, adds experience or raises the level.
Award(u) ==
  /\ u \in tokens /\ Write
  /\ row' = [row EXCEPT ![u] = @ + 1]
  /\ awarded' = awarded \cup {u}
  /\ UNCHANGED <<cache, tokens, pc, req, overlapped, uncleared, faults>>

\* Mistake: the copy is stored without a time to live.
ExpireNever(u) == FALSE

\* The 24 hours of the copy are over.
Expire(u) ==
  /\ cache[u] # None
  /\ cache' = [cache EXCEPT ![u] = None]
  /\ UNCHANGED <<row, tokens, pc, req, histories, writes, faults>>

Crash ==
  /\ Fault
  /\ pc' = [p \in Procs |-> "idle"]
  /\ req' = [p \in Procs |-> None]
  /\ uncleared' = uncleared \cup {req[p].user : p \in {q \in Procs : pc[q] = "updateDel"}}
  /\ UNCHANGED <<row, cache, tokens, awarded, overlapped, writes>>

Request(p) == LoginFound(p) \/ LoginNotFound(p) \/ InfoMiss(p) \/ Update(p)

Continue(p) ==
  \/ LoginInsert(p) \/ CacheSet(p) \/ InfoQuery(p)
  \/ UpdateRow(p) \/ UpdateDel(p) \/ UpdateRead(p)

Next ==
  \/ \E p \in Procs : Request(p) \/ Continue(p)
  \/ \E u \in Users : Award(u) \/ Expire(u)
  \/ Crash

Spec == Init /\ [][Next]_vars

\* Handlers run to their end and Redis drops what is past its time; nothing
\* obliges clients to call.
FairSpec ==
  /\ Spec
  /\ \A p \in Procs : WF_vars(Continue(p))
  /\ \A u \in Users : WF_vars(Expire(u))

-----------------------------------------------------------------------------
(* Properties.                                                              *)

\* Rows, copies and local variables have the shape the code gives them.
TypeOK ==
  /\ row \in [Users -> (Nat \ {0}) \cup {None}]
  /\ cache \in [Users -> Nat \cup {None}]
  /\ pc \in [Procs -> {"idle", "loginInsert", "cacheSet", "infoQuery",
                       "update", "updateDel", "updateRead"}]
  /\ req \in [Procs -> [user : Users, ver : Nat] \cup {None}]
  /\ tokens \in SUBSET {u \in Users : Registered(u)}
  /\ awarded \in SUBSET Users
  /\ overlapped \in SUBSET Users
  /\ uncleared \in SUBSET Users
  /\ writes \in 0..MaxWrites
  /\ faults \in 0..MaxFaults
  /\ \A p \in Procs :
       /\ pc[p] # "idle" => req[p] \in [user : Users, ver : Nat]
       /\ pc[p] \notin {"idle", "loginInsert"} => Registered(req[p].user)

\* A copy shows a version the row has had, of a user that is registered: no fill
\* outlives the row it was read from or invents one.
CopyOfTheRow ==
  \A u \in Users : cache[u] # None => Registered(u) /\ cache[u] \in 1..row[u]

Stale(u) == cache[u] # None /\ cache[u] # row[u]

\* A copy is stale only while an update is on its way to delete it, after
\* checkAchievements changed the row behind it, after an UPDATE slipped in between
\* the query and the Set of a fill, or after an UPDATE whose Del failed or was never
\* reached: no failed query, Get or Set and no lost INSERT makes one.
StaleOnlyIfRaced ==
  \A u \in Users :
    Stale(u) => \/ u \in awarded \cup overlapped \cup uncleared
                \/ \E p \in Procs : pc[p] = "updateDel" /\ req[p].user = u

\* Whatever raced, failed or was lost, once the rows stop changing no stale copy
\* stays for ever: the copy expires, and what fills it then read the last row.
CopiesBecomeFresh == <>[](\A u \in Users : ~Stale(u))


=============================================================================
