-------------------------- MODULE UserSessionProofs --------------------------
(***************************************************************************)
(* Proofs about UserSession, for any number of goroutines, users, writes   *)
(* and failures.                                                           *)
(***************************************************************************)
EXTENDS UserSession, TLAPS

Labels == {"idle", "loginInsert", "cacheSet", "infoQuery", "update", "updateDel", "updateRead"}
Req    == [user : Users, ver : Nat]

\* A goroutine has what its next step asks for.
Ready(p) ==
  /\ pc[p] # "idle" => req[p] \in Req
  /\ pc[p] \notin {"idle", "loginInsert"} => Registered(req[p].user)

\* The parts of TypeOK.
RowsOK   == row \in [Users -> (Nat \ {0}) \cup {None}]
TokensOK == tokens \in SUBSET {u \in Users : Registered(u)}
CopiesOK == cache \in [Users -> Nat \cup {None}]
LocalsOK == pc \in [Procs -> Labels] /\ req \in [Procs -> Req \cup {None}] /\ \A p \in Procs : Ready(p)
RestOK   ==
  /\ awarded \in SUBSET Users /\ overlapped \in SUBSET Users /\ uncleared \in SUBSET Users
  /\ writes \in 0..MaxWrites /\ faults \in 0..MaxFaults

\* TypeOK is the conjunction of its parts,
LEMMA TypeParts == TypeOK <=> RowsOK /\ TokensOK /\ CopiesOK /\ LocalsOK /\ RestOK
BY DEF TypeOK, RowsOK, TokensOK, CopiesOK, LocalsOK, RestOK, Ready, Labels, Req

\* ... in the next state too.
LEMMA TypePartsNext == TypeOK' <=> RowsOK' /\ TokensOK' /\ CopiesOK' /\ LocalsOK' /\ RestOK'
BY DEF TypeOK, RowsOK, TokensOK, CopiesOK, LocalsOK, RestOK, Ready, Labels, Req

-----------------------------------------------------------------------------
(* Type correctness.                                                        *)

\* No row, no copy, no request.
LEMMA InitTypeOK == Init => TypeOK
BY SessionAssumption DEF Init, TypeOK

\* The user of a goroutine at work; the version it has is a number.
LEMMA AtWork ==
  ASSUME LocalsOK, NEW p \in Procs, pc[p] # "idle"
  PROVE  req[p] \in Req /\ req[p].user \in Users /\ req[p].ver \in Nat
BY DEF LocalsOK, Ready, Req

\* A row never goes away and its version never falls.
LEMMA RowsGrow ==
  ASSUME RowsOK, TokensOK, LocalsOK, [Next]_vars
  PROVE  /\ RowsOK'
         /\ \A u \in Users : Registered(u) => Registered(u)' /\ row[u] <= row'[u]
<1>1. CASE row' = row
  <2>1. \A u \in Users : Registered(u) => row[u] \in Nat
    BY DEF RowsOK, Registered
  <2>2. QED
    BY <1>1, <2>1 DEF RowsOK, Registered
<1>2. ASSUME NEW u \in Users, row' = [row EXCEPT ![u] = 1], ~Registered(u)
      PROVE  /\ RowsOK'
             /\ \A v \in Users : Registered(v) => Registered(v)' /\ row[v] <= row'[v]
  BY <1>2, SessionAssumption DEF RowsOK, Registered
<1>3. ASSUME NEW u \in Users, row' = [row EXCEPT ![u] = @ + 1], Registered(u)
      PROVE  /\ RowsOK'
             /\ \A v \in Users : Registered(v) => Registered(v)' /\ row[v] <= row'[v]
  BY <1>3, SessionAssumption DEF RowsOK, Registered
<1>4. ASSUME NEW p \in Procs, LoginInsert(p), row' # row
      PROVE  \E u \in Users : row' = [row EXCEPT ![u] = 1] /\ ~Registered(u)
  BY <1>4, AtWork DEF LoginInsert
<1>5. ASSUME NEW p \in Procs, UpdateRow(p), row' # row
      PROVE  \E u \in Users : row' = [row EXCEPT ![u] = @ + 1] /\ Registered(u)
  <2>1. req[p].user \in Users /\ Registered(req[p].user)
    BY <1>5, AtWork DEF UpdateRow, LocalsOK, Ready
  <2>2. QED
    BY <1>5, <2>1 DEF UpdateRow
<1>6. ASSUME NEW u \in Users, Award(u)
      PROVE  row' = [row EXCEPT ![u] = @ + 1] /\ Registered(u)
  BY <1>6 DEF Award, TokensOK
<1>7. \/ row' = row
      \/ \E p \in Procs : LoginInsert(p) \/ UpdateRow(p)
      \/ \E u \in Users : Award(u)
  BY DEF Next, vars, histories, Request, Continue, LoginFound, LoginNotFound, InfoMiss, Update, CacheSet, InfoQuery,
     UpdateDel, UpdateRead, Expire, Crash
<1>8. QED
  BY <1>1, <1>2, <1>3, <1>4, <1>5, <1>6, <1>7

\* Tokens are answered to users that have a row.
LEMMA TokensStep ==
  ASSUME RowsOK, TokensOK, LocalsOK, [Next]_vars
  PROVE  TokensOK'
<1>1. \A u \in Users : Registered(u) => Registered(u)'
  BY RowsGrow
<1>2. ASSUME NEW p \in Procs, CacheSet(p)
      PROVE  tokens' \subseteq {u \in Users : Registered(u)}
  BY <1>2, AtWork DEF CacheSet, TokensOK, LocalsOK, Ready
<1>3. tokens' \subseteq {u \in Users : Registered(u)}
  BY <1>2 DEF TokensOK, Next, vars, Request, Continue, LoginFound, LoginNotFound, LoginInsert, InfoMiss,
     InfoQuery, Update, UpdateRow, UpdateDel, UpdateRead, Award, Expire, Crash
<1>4. QED
  BY <1>1, <1>3 DEF TokensOK

\* A copy is a version some goroutine read, or none.
LEMMA CopiesStep ==
  ASSUME CopiesOK, LocalsOK, [Next]_vars
  PROVE  CopiesOK'
<1>1. CASE cache' = cache
  BY <1>1 DEF CopiesOK
<1>2. ASSUME NEW p \in Procs, CacheSet(p) \/ UpdateDel(p) PROVE CopiesOK'
  BY <1>2, AtWork DEF CacheSet, UpdateDel, CopiesOK
<1>3. ASSUME NEW u \in Users, Expire(u) PROVE CopiesOK'
  BY <1>3 DEF Expire, CopiesOK
<1>4. QED
  BY <1>1, <1>2, <1>3 DEF Next, vars, histories, Request, Continue, LoginFound, LoginNotFound, LoginInsert, InfoMiss,
     InfoQuery, Update, UpdateRow, UpdateRead, Award, Crash

\* The counters stay within their bounds, and the history variables hold users.
LEMMA RestStep ==
  ASSUME RestOK, LocalsOK, [Next]_vars
  PROVE  RestOK'
<1>1. writes' \in 0..MaxWrites /\ faults' \in 0..MaxFaults
  BY SessionAssumption DEF RestOK, Next, vars, histories, Request, Continue, LoginFound, LoginNotFound, LoginInsert,
     InfoMiss, InfoQuery, CacheSet, Update, UpdateRow, UpdateDel, UpdateRead, Award, Expire, Crash, Write, Fault
<1>2. awarded' \in SUBSET Users
  BY DEF RestOK, Next, vars, histories, Request, Continue, LoginFound, LoginNotFound, LoginInsert,
     InfoMiss, InfoQuery, CacheSet, Update, UpdateRow, UpdateDel, UpdateRead, Award, Expire, Crash
<1>3. overlapped' \in SUBSET Users
  <2>1. ASSUME NEW p \in Procs, UpdateRow(p) PROVE overlapped' \in SUBSET Users
    BY <2>1, AtWork DEF UpdateRow, RestOK
  <2>2. QED
    BY <2>1 DEF RestOK, Next, vars, histories, Request, Continue, LoginFound, LoginNotFound, LoginInsert,
       InfoMiss, InfoQuery, CacheSet, Update, UpdateDel, UpdateRead, Award, Expire, Crash
<1>4. uncleared' \in SUBSET Users
  <2>1. ASSUME NEW p \in Procs, UpdateRow(p) \/ UpdateDel(p) PROVE uncleared' \in SUBSET Users
    BY <2>1, AtWork DEF UpdateRow, UpdateDel, RestOK
  <2>2. CASE Crash
    BY <2>2, AtWork DEF Crash, RestOK
  <2>3. QED
    BY <2>1, <2>2 DEF RestOK, Next, vars, histories, Request, Continue, LoginFound, LoginNotFound,
       LoginInsert, InfoMiss, InfoQuery, CacheSet, Update, UpdateRead, Award, Expire
<1>5. QED
  BY <1>1, <1>2, <1>3, <1>4 DEF RestOK

Same(p) == pc'[p] = pc[p] /\ req'[p] = req[p]

\* A goroutine's local variables are its own.
LEMMA OthersSame ==
  ASSUME LocalsOK, NEW p \in Procs, Request(p) \/ Continue(p), NEW q \in Procs, q # p
  PROVE  Same(q)
BY DEF LocalsOK, Request, Continue, LoginFound, LoginNotFound, LoginInsert, InfoMiss, InfoQuery, CacheSet,
   Update, UpdateRow, UpdateDel, UpdateRead, Goto, Finish, Serve, Same

\* What an action of p leaves p with.
LEMMA OwnStep ==
  ASSUME RowsOK, TokensOK, LocalsOK, NEW p \in Procs, Request(p) \/ Continue(p)
  PROVE  /\ pc' \in [Procs -> Labels] /\ req' \in [Procs -> Req \cup {None}]
         /\ Ready(p)'
<1>1. ASSUME NEW u \in Users, NEW v \in Nat, NEW l \in Labels \ {"idle"}, Serve(p, u, v, l),
             row' = row, l # "loginInsert" => Registered(u)
      PROVE  /\ pc' \in [Procs -> Labels] /\ req' \in [Procs -> Req \cup {None}]
             /\ Ready(p)'
  <2>1. [user |-> u, ver |-> v] \in Req
    BY DEF Req
  <2>2. QED
    BY <1>1, <2>1 DEF Serve, Goto, LocalsOK, Ready, Registered
<1>2. CASE Request(p)
  <2>1. \A u \in Users : Registered(u) => row[u] \in Nat
    BY DEF RowsOK, Registered
  <2>2. CASE LoginFound(p)
    BY <1>1, <2>1, <2>2 DEF LoginFound, Labels
  <2>3. CASE LoginNotFound(p)
    BY <1>1, <2>3 DEF LoginNotFound, Labels
  <2>4. CASE InfoMiss(p) \/ Update(p)
    BY <1>1, <2>4 DEF InfoMiss, Update, TokensOK, Labels
  <2>5. QED
    BY <1>2, <2>2, <2>3, <2>4 DEF Request
<1>3. CASE Continue(p)
  <2>1. CASE Finish(p)
    BY <2>1 DEF Finish, Goto, LocalsOK, Ready, Labels
  <2>2. ASSUME NEW v \in Nat, NEW l \in Labels \ {"idle"}, pc[p] # "idle", Goto(p, l),
               req' = [req EXCEPT ![p].ver = v], Registered(req[p].user)'
        PROVE  /\ pc' \in [Procs -> Labels] /\ req' \in [Procs -> Req \cup {None}]
               /\ Ready(p)'
    <3>1. req[p] \in Req
      BY <2>2, AtWork
    <3>2. [req[p] EXCEPT !.ver = v] \in Req /\ [req[p] EXCEPT !.ver = v].user = req[p].user
      BY <3>1 DEF Req
    <3>3. req' = [req EXCEPT ![p] = [req[p] EXCEPT !.ver = v]]
      BY <2>2 DEF LocalsOK
    <3>4. req'[p] = [req[p] EXCEPT !.ver = v]
      BY <3>3 DEF LocalsOK
    <3>5. QED
      BY <2>2, <3>2, <3>3, <3>4 DEF Goto, LocalsOK, Ready, Registered
  <2>3. CASE LoginInsert(p)
    <3>1. CASE /\ ~Registered(req[p].user) /\ row' = [row EXCEPT ![req[p].user] = 1]
               /\ req' = [req EXCEPT ![p].ver = 1] /\ Goto(p, "cacheSet")
      <4>1. Registered(req[p].user)'
        <5>1. req[p].user \in Users
          BY <2>3, AtWork DEF LoginInsert
        <5>2. row'[req[p].user] = 1
          BY <3>1, <5>1 DEF RowsOK
        <5>3. QED
          BY <3>1, <5>2, SessionAssumption, AtWork, <2>3 DEF LoginInsert, Registered, LocalsOK
      <4>2. QED
        BY <2>2, <2>3, <3>1, <4>1 DEF LoginInsert, Labels
    <3>2. QED
      BY <2>1, <2>3, <3>1 DEF LoginInsert
  <2>4. CASE CacheSet(p) \/ UpdateRead(p)
    BY <2>1, <2>4 DEF CacheSet, UpdateRead
  <2>5. CASE InfoQuery(p)
    <3>1. Registered(req[p].user) /\ req[p].user \in Users
      BY <2>5, AtWork DEF InfoQuery, LocalsOK, Ready
    <3>2. row[req[p].user] \in Nat
      BY <3>1 DEF RowsOK, Registered
    <3>3. CASE req' = [req EXCEPT ![p].ver = row[req[p].user]] /\ Goto(p, "cacheSet")
      <4>1. req'[p].user = req[p].user /\ row' = row
        BY <2>5, <3>3, AtWork DEF InfoQuery, LocalsOK
      <4>2. Registered(req[p].user)'
        BY <3>1, <4>1 DEF Registered
      <4>3. QED
        BY <2>2, <2>5, <3>2, <3>3, <4>2 DEF InfoQuery, Labels
    <3>4. QED
      BY <2>1, <2>5, <3>3 DEF InfoQuery
  <2>6. CASE UpdateRow(p)
    <3>1. Registered(req[p].user) /\ req[p].user \in Users
      BY <2>6, AtWork DEF UpdateRow, LocalsOK, Ready
    <3>2. CASE /\ row' = [row EXCEPT ![req[p].user] = @ + 1]
               /\ req' = [req EXCEPT ![p].ver = row'[req[p].user]] /\ Goto(p, "updateDel")
      <4>1. row'[req[p].user] \in Nat /\ Registered(req[p].user)'
        <5>1. row'[req[p].user] = row[req[p].user] + 1 /\ row[req[p].user] \in Nat
          BY <3>1, <3>2 DEF RowsOK, Registered
        <5>2. req'[p].user = req[p].user
          BY <2>6, <3>2, AtWork DEF UpdateRow, LocalsOK
        <5>3. QED
          BY <5>1, <5>2, SessionAssumption DEF Registered
      <4>2. QED
        BY <2>2, <2>6, <3>2, <4>1 DEF UpdateRow, Labels
    <3>3. QED
      BY <2>1, <2>6, <3>2 DEF UpdateRow
  <2>7. CASE UpdateDel(p)
    BY <2>7 DEF UpdateDel, Goto, LocalsOK, Ready, Registered, Labels
  <2>8. QED
    BY <1>3, <2>3, <2>4, <2>5, <2>6, <2>7 DEF Continue
<1>4. QED
  BY <1>2, <1>3
\* The local variables keep their shape, and users stay registered.
LEMMA LocalsStep ==
  ASSUME RowsOK, TokensOK, LocalsOK, [Next]_vars
  PROVE  LocalsOK'
<1>1. ASSUME NEW q \in Procs, Same(q) PROVE Ready(q)'
  BY <1>1, RowsGrow, AtWork DEF LocalsOK, Ready, Same
<1>2. ASSUME NEW p \in Procs, Request(p) \/ Continue(p) PROVE LocalsOK'
  BY <1>1, <1>2, OwnStep, OthersSame DEF LocalsOK
<1>3. CASE UNCHANGED <<pc, req>>
  BY <1>1, <1>3 DEF LocalsOK, Same
<1>4. CASE Crash
  BY <1>4 DEF Crash, LocalsOK, Ready, Labels
<1>5. QED
  BY <1>2, <1>3, <1>4 DEF Next, vars, Award, Expire

\* Every step keeps the shapes.
LEMMA TypeOKStep == TypeOK /\ [Next]_vars => TypeOK'
BY TypeParts, TypePartsNext, RowsGrow, TokensStep, CopiesStep, LocalsStep, RestStep

\* The shapes hold for every run: in particular, whoever reads or updates a row
\* does it for a user that is still registered.
THEOREM TypeCorrect == Spec => []TypeOK
BY InitTypeOK, TypeOKStep, PTL DEF Spec

-----------------------------------------------------------------------------
(* Copies are of the row.                                                   *)

\* What is about to be copied is a version the row has had too.
CopyInv ==
  /\ CopyOfTheRow
  /\ \A p \in Procs : pc[p] = "cacheSet" => req[p].ver \in 1..row[req[p].user]

\* No copy, nobody about to make one.
LEMMA InitCopyInv == Init => CopyInv
BY DEF Init, CopyInv, CopyOfTheRow

\* What a step of p that leads to the Set has at hand.
LEMMA ReadVersion ==
  ASSUME RowsOK, LocalsOK, LocalsOK', NEW p \in Procs, Request(p) \/ Continue(p), pc'[p] = "cacheSet"
  PROVE  row'[req'[p].user] \in Nat \ {0} /\ req'[p].ver = row'[req'[p].user]
<1>1. CASE LoginFound(p)
  <2>1. PICK u \in Users : Registered(u) /\ Serve(p, u, row[u], "cacheSet")
    BY <1>1 DEF LoginFound
  <2>2. req'[p] = [user |-> u, ver |-> row[u]] /\ row' = row
    BY <1>1, <2>1 DEF LoginFound, Serve, LocalsOK
  <2>3. QED
    BY <2>1, <2>2 DEF RowsOK, Registered
<1>2. CASE LoginInsert(p)
  <2>1. /\ row' = [row EXCEPT ![req[p].user] = 1] /\ req' = [req EXCEPT ![p].ver = 1]
    BY <1>2 DEF LoginInsert, Finish, Goto, LocalsOK
  <2>2. req[p] \in Req
    BY <1>2, AtWork DEF LoginInsert
  <2>3. req'[p].user = req[p].user /\ req'[p].ver = 1
    BY <2>1, <2>2 DEF LocalsOK, Req
  <2>4. QED
    BY <2>1, <2>2, <2>3 DEF RowsOK, Req
<1>3. CASE InfoQuery(p)
  <2>1. req' = [req EXCEPT ![p].ver = row[req[p].user]] /\ row' = row
    BY <1>3 DEF InfoQuery, Finish, Goto, LocalsOK
  <2>2. req[p] \in Req /\ Registered(req[p].user)
    BY <1>3, AtWork DEF InfoQuery, LocalsOK, Ready
  <2>3. req'[p].user = req[p].user /\ req'[p].ver = row[req[p].user]
    BY <2>1, <2>2 DEF LocalsOK, Req
  <2>4. QED
    BY <2>1, <2>2, <2>3 DEF RowsOK, Req, Registered
<1>4. LoginFound(p) \/ LoginInsert(p) \/ InfoQuery(p)
  BY DEF LocalsOK, Request, Continue, LoginNotFound, InfoMiss, CacheSet, Update, UpdateRow, UpdateDel,
     UpdateRead, Goto, Finish, Serve
<1>5. QED
  BY <1>1, <1>2, <1>3, <1>4

\* Versions only grow, and the copy is set to one the row has had.
LEMMA CopyInvStep == TypeOK /\ TypeOK' /\ CopyInv /\ [Next]_vars => CopyInv'
<1> SUFFICES ASSUME TypeOK, TypeOK', CopyInv, [Next]_vars PROVE CopyInv'
  OBVIOUS
<1> USE TypeParts, TypePartsNext
<1>1. \A u \in Users : Registered(u) => /\ Registered(u)' /\ row[u] <= row'[u]
                                        /\ row[u] \in Nat /\ row'[u] \in Nat
  BY RowsGrow DEF RowsOK, Registered
<1>2. ASSUME NEW u \in Users, cache'[u] # None PROVE Registered(u)' /\ cache'[u] \in 1..row'[u]
  <2>1. CASE cache'[u] = cache[u]
    BY <1>1, <1>2, <2>1 DEF CopyInv, CopyOfTheRow
  <2>2. CASE cache'[u] # cache[u]
    <3>1. PICK p \in Procs : CacheSet(p) /\ cache' = [cache EXCEPT ![req[p].user] = req[p].ver]
      <4>1. ASSUME NEW p \in Procs PROVE ~UpdateDel(p)
        BY <1>2, <2>2, AtWork DEF UpdateDel, CopiesOK
      <4>2. ASSUME NEW v \in Users PROVE ~Expire(v)
        BY <1>2, <2>2 DEF Expire, CopiesOK
      <4>3. QED
        BY <2>2, <4>1, <4>2 DEF Next, vars, histories, Request, Continue, LoginFound, LoginNotFound, LoginInsert,
           InfoMiss, InfoQuery, CacheSet, Update, UpdateRow, UpdateRead, Award, Crash
    <3>2. u = req[p].user /\ cache'[u] = req[p].ver /\ row' = row
      BY <2>2, <3>1 DEF CacheSet, CopiesOK
    <3>3. Registered(u) /\ req[p].ver \in 1..row[u]
      BY <3>1, <3>2 DEF CacheSet, CopyInv, LocalsOK, Ready
    <3>4. QED
      BY <3>2, <3>3 DEF Registered
  <2>3. QED
    BY <2>1, <2>2
<1>3. ASSUME NEW p \in Procs, pc'[p] = "cacheSet" PROVE req'[p].ver \in 1..row'[req'[p].user]
  <2>1. CASE Same(p)
    <3>1. pc[p] = "cacheSet" /\ req[p].user \in Users /\ Registered(req[p].user)
      BY <1>3, <2>1, AtWork DEF Same, LocalsOK, Ready
    <3>2. req[p].ver \in 1..row[req[p].user]
      BY <3>1 DEF CopyInv
    <3>3. QED
      BY <1>1, <2>1, <3>1, <3>2 DEF Same
  <2>2. CASE ~Same(p)
    <3>1. PICK q \in Procs : Request(q) \/ Continue(q)
      BY <1>3, <2>2 DEF Next, vars, Award, Expire, Crash, Same
    <3>2. q = p
      BY <2>2, <3>1, OthersSame
    <3>3. QED
      BY <1>3, <3>1, <3>2, ReadVersion
  <2>3. QED
    BY <2>1, <2>2
<1>4. QED
  BY <1>2, <1>3 DEF CopyInv, CopyOfTheRow

\* Nothing invents a copy or lets one outlive its row, whatever fails.
THEOREM CopiesAreOfTheRow == Spec => []CopyOfTheRow
<1>1. CopyInv => CopyOfTheRow
  BY DEF CopyInv
<1>2. QED
  BY <1>1, InitTypeOK, TypeOKStep, InitCopyInv, CopyInvStep, PTL DEF Spec

-----------------------------------------------------------------------------
(* When a copy can be stale.                                                *)

Raced == awarded \cup overlapped \cup uncleared

\* A fill at work holds the row as it is, or raced.
StaleInv ==
  /\ \A u \in Users :
       Stale(u) => u \in Raced \/ \E p \in Procs : pc[p] = "updateDel" /\ req[p].user = u
  /\ \A p \in Procs :
       pc[p] = "cacheSet" => req[p].ver = row[req[p].user] \/ req[p].user \in Raced

\* No copy, nobody about to make one.
LEMMA InitStaleInv == Init => StaleInv
BY DEF Init, StaleInv, Stale

\* Whoever changes a row deletes the copy, or is one of the two races, or fails.
LEMMA StaleInvStep == TypeOK /\ TypeOK' /\ CopyInv /\ StaleInv /\ [Next]_vars => StaleInv'
<1> SUFFICES ASSUME TypeOK, TypeOK', CopyInv, StaleInv, [Next]_vars PROVE StaleInv'
  OBVIOUS
<1> USE TypeParts, TypePartsNext
<1>1. Raced \subseteq Raced'
  BY DEF Raced, Next, vars, histories, Request, Continue, LoginFound, LoginNotFound, LoginInsert, InfoMiss, InfoQuery,
     CacheSet, Update, UpdateRow, UpdateDel, UpdateRead, Award, Expire, Crash
<1>2. ASSUME NEW u \in Users, row'[u] # row[u]
      PROVE  \/ ~Registered(u)
             \/ u \in awarded'
             \/ /\ \/ u \in uncleared'
                   \/ \E p \in Procs : pc'[p] = "updateDel" /\ req'[p].user = u
                /\ (\E q \in Procs : Filling(q, u)) => u \in overlapped'
  <2>1. ASSUME NEW p \in Procs, LoginInsert(p) PROVE ~Registered(u)
    BY <1>2, <2>1, AtWork DEF LoginInsert, RowsOK
  <2>2. ASSUME NEW p \in Procs, UpdateRow(p)
        PROVE  /\ u \in uncleared' \/ (pc'[p] = "updateDel" /\ req'[p].user = u)
               /\ (\E q \in Procs : Filling(q, u)) => u \in overlapped'
    <3>1. req[p] \in Req /\ req[p].user = u
      BY <1>2, <2>2, AtWork DEF UpdateRow, RowsOK
    <3>2. /\ \/ u \in uncleared'
             \/ /\ req' = [req EXCEPT ![p].ver = row'[u]]
                /\ pc' = [pc EXCEPT ![p] = "updateDel"]
          /\ overlapped' = IF \E q \in Procs : Filling(q, u) THEN overlapped \cup {u} ELSE overlapped
      BY <1>2, <2>2, <3>1 DEF UpdateRow, Goto
    <3>3. QED
      BY <3>1, <3>2 DEF LocalsOK, Req
  <2>3. ASSUME NEW v \in Users, Award(v) PROVE u \in awarded'
    BY <1>2, <2>3 DEF Award, RowsOK
  <2>4. QED
    BY <1>2, <2>1, <2>2, <2>3 DEF Next, vars, histories, Request, Continue, LoginFound, LoginNotFound, InfoMiss,
       InfoQuery, CacheSet, Update, UpdateDel, UpdateRead, Expire, Crash
<1>3. ASSUME NEW u \in Users, Stale(u)', u \notin Raced'
      PROVE  \E p \in Procs : pc'[p] = "updateDel" /\ req'[p].user = u
  <2>1. CASE row'[u] # row[u]
    <3>1. cache'[u] = cache[u]
      <4>1. row' # row
        BY <2>1
      <4>2. QED
        BY <4>1 DEF Next, vars, histories, Request, Continue, LoginFound, LoginNotFound, LoginInsert, InfoMiss, InfoQuery,
           CacheSet, Update, UpdateRow, UpdateDel, UpdateRead, Award, Expire, Crash
    <3>2. Registered(u)
      BY <1>3, <3>1 DEF Stale, CopyInv, CopyOfTheRow
    <3>3. QED
      BY <1>2, <1>3, <2>1, <3>2 DEF Raced
  <2>2. CASE row'[u] = row[u] /\ cache'[u] # cache[u]
    <3>1. PICK p \in Procs : CacheSet(p) /\ cache' = [cache EXCEPT ![req[p].user] = req[p].ver]
      <4>1. ASSUME NEW p \in Procs PROVE ~UpdateDel(p)
        BY <1>3, <2>2, AtWork DEF UpdateDel, CopiesOK, Stale
      <4>2. ASSUME NEW v \in Users PROVE ~Expire(v)
        BY <1>3, <2>2 DEF Expire, CopiesOK, Stale
      <4>3. QED
        BY <2>2, <4>1, <4>2 DEF Next, vars, histories, Request, Continue, LoginFound, LoginNotFound, LoginInsert,
           InfoMiss, InfoQuery, CacheSet, Update, UpdateRow, UpdateRead, Award, Crash
    <3>2. u = req[p].user /\ cache'[u] = req[p].ver
      BY <2>2, <3>1 DEF CacheSet, CopiesOK
    <3>3. req[p].ver = row[u] \/ u \in Raced
      BY <3>1, <3>2 DEF CacheSet, StaleInv
    <3>4. QED
      BY <1>1, <1>3, <2>2, <3>2, <3>3 DEF Stale
  <2>3. CASE row'[u] = row[u] /\ cache'[u] = cache[u]
    <3>1. PICK p \in Procs : pc[p] = "updateDel" /\ req[p].user = u
      BY <1>1, <1>3, <2>3 DEF StaleInv, Stale
    <3>2. CASE Same(p)
      BY <3>1, <3>2 DEF Same
    <3>3. CASE ~Same(p)
      <4>0. ~Crash
        BY <1>3, <3>1 DEF Crash, Raced
      <4>1. PICK q \in Procs : Request(q) \/ Continue(q)
        BY <3>3, <4>0 DEF Next, vars, Award, Expire, Same
      <4>2. q = p
        BY <3>3, <4>1, OthersSame
      <4>3. cache' = [cache EXCEPT ![u] = None]
        BY <1>3, <3>1, <4>1, <4>2 DEF Raced, Request, Continue, LoginFound, LoginNotFound, LoginInsert, InfoMiss,
           InfoQuery, CacheSet, Update, UpdateRow, UpdateDel, UpdateRead, Serve
      <4>4. QED
        BY <1>3, <4>3 DEF Stale, CopiesOK
    <3>4. QED
      BY <3>2, <3>3
  <2>4. QED
    BY <2>1, <2>2, <2>3
<1>4. ASSUME NEW p \in Procs, pc'[p] = "cacheSet"
      PROVE  req'[p].ver = row'[req'[p].user] \/ req'[p].user \in Raced'
  <2>1. CASE Same(p)
    <3>1. pc[p] = "cacheSet" /\ req[p].user \in Users /\ Registered(req[p].user)
      BY <1>4, <2>1, AtWork DEF Same, LocalsOK, Ready
    <3>2. req[p].ver = row[req[p].user] \/ req[p].user \in Raced
      BY <3>1 DEF StaleInv
    <3>3. row'[req[p].user] # row[req[p].user] => req[p].user \in Raced'
      BY <1>2, <3>1 DEF Filling, Raced
    <3>4. QED
      BY <1>1, <2>1, <3>2, <3>3 DEF Same
  <2>2. CASE ~Same(p)
    <3>1. PICK q \in Procs : Request(q) \/ Continue(q)
      BY <1>4, <2>2 DEF Next, vars, Award, Expire, Crash, Same
    <3>2. q = p
      BY <2>2, <3>1, OthersSame
    <3>3. QED
      BY <1>4, <3>1, <3>2, ReadVersion
  <2>3. QED
    BY <2>1, <2>2
<1>5. QED
  BY <1>3, <1>4 DEF StaleInv

\* Whatever fails, a copy is only stale while an update is about to delete it, or
\* because one of the two races happened or an update never got to delete it: there
\* is no other way.
THEOREM OnlyRacesMakeStale == Spec => []StaleOnlyIfRaced
<1>1. StaleInv => StaleOnlyIfRaced
  BY DEF StaleInv, StaleOnlyIfRaced, Raced
<1>2. QED
  BY <1>1, InitTypeOK, TypeOKStep, InitCopyInv, CopyInvStep, InitStaleInv, StaleInvStep, PTL DEF Spec

=============================================================================
