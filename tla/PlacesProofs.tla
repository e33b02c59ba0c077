---------------------------- MODULE PlacesProofs ----------------------------
(* Theorems about Places, for any number of goroutines, users and places.   *)
EXTENDS Places, FiniteSetTheorems, TLAPS

\* The users with a footprint at a place are finitely many.
LEMMA VisitorsFinite ==
  ASSUME NEW pl
  PROVE  IsFiniteSet(Visitors(pl)) /\ Cardinality(Visitors(pl)) \in Nat
<1>1. Visitors(pl) \subseteq Users
  BY DEF Visitors
<1>2. QED
  BY <1>1, PlacesAssumption, FS_Subset, FS_CardinalityType

\* The photos at a place are finitely many when all photos are.
LEMMA PhotosAtFinite ==
  ASSUME IsFiniteSet(photos), NEW pl
  PROVE  IsFiniteSet(PhotosAt(pl)) /\ Cardinality(PhotosAt(pl)) \in Nat
<1>1. PhotosAt(pl) \subseteq photos
  BY DEF PhotosAt
<1>2. QED
  BY <1>1, FS_Subset, FS_CardinalityType

\* The empty tables and idle goroutines have the shape TypeOK asks for.
LEMMA InitTypeOK == Init => TypeOK
<1> SUFFICES ASSUME Init PROVE TypeOK
  OBVIOUS
<1>1. IsFiniteSet(photos)
  BY FS_EmptySet DEF Init
<1>2. QED
  BY <1>1, PlacesAssumption DEF Init, TypeOK, Fits, Placed

Labels == {"idle", "detailFootprint", "detailCount", "createInsert",
           "publishInsert"} \cup Placed
Requests == DetailReq \cup CreateReq \cup PublishReq \cup {None}

\* The three parts of TypeOK.
TablesOK ==
  /\ spot \in [PlaceIds -> Spot \cup {None}]
  /\ cover \in [PlaceIds -> Images \cup {None}]
  /\ photoCount \in [PlaceIds -> Nat]
  /\ visitorCount \in [PlaceIds -> Nat]
  /\ photos \in SUBSET Photo /\ IsFiniteSet(photos)
  /\ footprints \in SUBSET (Users \X PlaceIds)

CountersOK == posts \in Nat /\ faults \in 0..MaxFaults

LocalsOK ==
  /\ pc \in [Procs -> Labels]
  /\ req \in [Procs -> Requests]
  /\ \A p \in Procs : Fits(pc[p], req[p])

\* TypeOK is the conjunction of its three parts,
LEMMA TypeParts == TypeOK <=> TablesOK /\ CountersOK /\ LocalsOK
BY DEF TypeOK, TablesOK, CountersOK, LocalsOK, Labels, Requests

\* ... in the next state too.
LEMMA TypePartsNext == TypeOK' <=> TablesOK' /\ CountersOK' /\ LocalsOK'
BY DEF TypeOK, TablesOK, CountersOK, LocalsOK, Labels, Requests

\* The ways a goroutine's local variables change.
LEMMA ServeFits ==
  ASSUME LocalsOK, NEW p \in Procs, NEW l \in Labels, NEW r \in Requests,
         Fits(l, r), Serve(p, r, l)
  PROVE  LocalsOK'
BY DEF LocalsOK, Serve, Goto

LEMMA GotoFits ==
  ASSUME LocalsOK, NEW p \in Procs, NEW l \in Labels,
         Fits(l, req[p]), Goto(p, l), UNCHANGED req
  PROVE  LocalsOK'
BY DEF LocalsOK, Goto

LEMMA UpdateFits ==
  ASSUME LocalsOK, NEW p \in Procs, NEW l \in Labels, NEW r \in PublishReq,
         Fits(l, r), pc' = [pc EXCEPT ![p] = l], req' = [req EXCEPT ![p] = r]
  PROVE  LocalsOK'
BY DEF LocalsOK, Requests

LEMMA FinishFits ==
  ASSUME LocalsOK, NEW p \in Procs, Finish(p)
  PROVE  LocalsOK'
<1>1. Fits("idle", None)
  BY DEF Fits, Placed
<1>2. QED
  BY <1>1 DEF LocalsOK, Finish, Goto, Labels, Requests

\* Failures stay within their bound.
LEMMA FaultCounts ==
  ASSUME CountersOK, Fault
  PROVE  faults' \in 0..MaxFaults
BY PlacesAssumption DEF CountersOK, Fault

\* The number of accepted requests stays a number.
LEMMA PostCounts ==
  ASSUME CountersOK, Post
  PROVE  posts' \in Nat
BY DEF CountersOK, Post

\* Tables that do not change keep their shape.
LEMMA UnchangedTables ==
  ASSUME TablesOK, UNCHANGED tables
  PROVE  TablesOK'
BY DEF TablesOK, tables

\* The INSERT of a place keeps the shape of the tables.
LEMMA InsertPlaceTables ==
  ASSUME TablesOK, NEW pl \in PlaceIds, NEW n \in Names, NEW x \in Positions,
         NEW c \in Images \cup {None}, InsertPlace(pl, n, x, c)
  PROVE  TablesOK'
BY DEF TablesOK, InsertPlace, Spot

\* Every statement of every handler, and a crash, keeps the shape of all state.
LEMMA TypeOKStep == TypeOK /\ [Next]_vars => TypeOK'
<1> SUFFICES ASSUME TablesOK, CountersOK, LocalsOK, [Next]_vars
             PROVE  TablesOK' /\ CountersOK' /\ LocalsOK'
  BY TypeParts, TypePartsNext
<1>1. CASE UNCHANGED vars
  BY <1>1 DEF vars, TablesOK, CountersOK, LocalsOK, Fits
<1>2. CASE Crash
  <2>1. TablesOK' /\ CountersOK'
    BY <1>2, UnchangedTables, FaultCounts DEF Crash, CountersOK
  <2>2. LocalsOK'
    BY <1>2 DEF Crash, LocalsOK, Fits, Placed, Labels, Requests
  <2>3. QED
    BY <2>1, <2>2
<1>3. ASSUME NEW p \in Procs, Request(p)
      PROVE  TablesOK' /\ CountersOK' /\ LocalsOK'
  <2>1. CASE DetailFind(p)
    <3>1. PICK u \in Users, pl \in PlaceIds :
            Serve(p, [user |-> u, place |-> pl], "detailFootprint")
      BY <2>1 DEF DetailFind
    <3>2. [user |-> u, place |-> pl] \in DetailReq
      BY DEF DetailReq
    <3>3. Fits("detailFootprint", [user |-> u, place |-> pl])
      BY <3>2 DEF Fits, Placed
    <3>4. LocalsOK'
      BY <3>1, <3>2, <3>3, ServeFits DEF Labels, Requests
    <3>5. QED
      BY <2>1, <3>4, UnchangedTables DEF DetailFind, CountersOK
  <2>2. CASE CreateFind(p)
    <3>1. PICK u \in Users, n \in Names, x \in Positions, c \in Covers :
            Serve(p, [user |-> u, name |-> n, pos |-> x, cover |-> c], "createInsert")
      BY <2>2 DEF CreateFind
    <3>2. [user |-> u, name |-> n, pos |-> x, cover |-> c] \in CreateReq
      BY DEF CreateReq
    <3>3. Fits("createInsert", [user |-> u, name |-> n, pos |-> x, cover |-> c])
      BY <3>2 DEF Fits, Placed
    <3>4. LocalsOK'
      BY <3>1, <3>2, <3>3, ServeFits DEF Labels, Requests
    <3>5. CountersOK'
      BY <2>2, FaultCounts, PostCounts DEF CreateFind, Misses, CountersOK
    <3>6. QED
      BY <2>2, <3>4, <3>5, UnchangedTables DEF CreateFind
  <2>3. CASE PublishTo(p) \/ PublishFound(p)
    <3>1. PICK u \in Users, pl \in PlaceIds, n \in Names, x \in Positions, b \in Batches :
            Serve(p, PublishReqOf(u, pl, n, x, b), "check")
      BY <2>3 DEF PublishTo, PublishFound, AutoMatches
    <3>2. /\ PublishReqOf(u, pl, n, x, b) \in PublishReq
          /\ PublishReqOf(u, pl, n, x, b).place \in PlaceIds
          /\ PublishReqOf(u, pl, n, x, b).next = 1
      BY DEF PublishReq, PublishReqOf
    <3>3. Fits("check", PublishReqOf(u, pl, n, x, b))
      BY <3>2 DEF Fits, Placed
    <3>4. LocalsOK'
      BY <3>1, <3>2, <3>3, ServeFits DEF Labels, Requests, Placed
    <3>5. CountersOK'
      BY <2>3, PostCounts DEF PublishTo, PublishFound, CountersOK
    <3>6. QED
      BY <2>3, <3>4, <3>5, UnchangedTables DEF PublishTo, PublishFound
  <2>4. CASE PublishNotFound(p)
    <3>1. PICK u \in Users, n \in Names, x \in Positions, b \in Batches :
            Serve(p, PublishReqOf(u, None, n, x, b), "publishInsert")
      BY <2>4 DEF PublishNotFound
    <3>2. /\ PublishReqOf(u, None, n, x, b) \in PublishReq
          /\ PublishReqOf(u, None, n, x, b).next = 1
      BY DEF PublishReq, PublishReqOf
    <3>3. Fits("publishInsert", PublishReqOf(u, None, n, x, b))
      BY <3>2 DEF Fits, Placed
    <3>4. LocalsOK'
      BY <3>1, <3>2, <3>3, ServeFits DEF Labels, Requests
    <3>5. CountersOK'
      BY <2>4, PostCounts, FaultCounts DEF PublishNotFound, Misses, CountersOK
    <3>6. QED
      BY <2>4, <3>4, <3>5, UnchangedTables DEF PublishNotFound
  <2>5. QED
    BY <1>3, <2>1, <2>2, <2>3, <2>4 DEF Request
<1>4. ASSUME NEW p \in Procs, Continue(p)
      PROVE  TablesOK' /\ CountersOK' /\ LocalsOK'
  <2> DEFINE r == req[p]
  <2>0. r \in Requests /\ Fits(pc[p], r)
    BY DEF LocalsOK
  <2>1. CASE DetailFootprint(p)
    <3>1. r \in DetailReq
      BY <2>0, <2>1 DEF DetailFootprint, Fits
    <3>2. Fits("detailCount", r)
      BY <3>1 DEF Fits, Placed
    <3>3. LocalsOK'
      BY <2>1, <3>2, GotoFits DEF DetailFootprint, Labels
    <3>4. CountersOK'
      BY <2>1, FaultCounts DEF DetailFootprint, Attempt, CountersOK
    <3>5. TablesOK'
      BY <2>1, <3>1 DEF DetailFootprint, Attempt, InsertFootprint, TablesOK, DetailReq
    <3>6. QED
      BY <3>3, <3>4, <3>5
  <2>2. CASE DetailCount(p)
    <3>1. LocalsOK'
      BY <2>2, FinishFits DEF DetailCount
    <3>2. CountersOK'
      BY <2>2, FaultCounts DEF DetailCount, Attempt, CountersOK
    <3>3. TablesOK'
      BY <2>2, VisitorsFinite DEF DetailCount, Attempt, TablesOK
    <3>4. QED
      BY <3>1, <3>2, <3>3
  <2>3. CASE CreateInsert(p)
    <3>1. r \in CreateReq
      BY <2>0, <2>3 DEF CreateInsert, Fits
    <3>2. LocalsOK'
      BY <2>3, FinishFits DEF CreateInsert
    <3>3. CountersOK'
      BY <2>3, FaultCounts DEF CreateInsert, CountersOK
    <3>4. TablesOK'
      BY <2>3, <3>1, UnchangedTables, InsertPlaceTables, PlacesAssumption
         DEF CreateInsert, CreateReq
    <3>5. QED
      BY <3>2, <3>3, <3>4
  <2>4. CASE PublishInsert(p)
    <3>1. r \in PublishReq /\ r.next = 1
      BY <2>0, <2>4 DEF PublishInsert, Fits
    <3>2. CountersOK'
      BY <2>4, FaultCounts DEF PublishInsert, CountersOK
    <3>3. TablesOK'
      BY <2>4, <3>1, UnchangedTables, InsertPlaceTables DEF PublishInsert, PublishReq
    <3>4. CASE Finish(p)
      BY <3>2, <3>3, <3>4, FinishFits
    <3>5. CASE \E pl \in PlaceIds : req' = [req EXCEPT ![p].place = pl] /\ Goto(p, "check")
      <4>1. PICK pl \in PlaceIds : req' = [req EXCEPT ![p].place = pl] /\ Goto(p, "check")
        BY <3>5
      <4> DEFINE s == [r EXCEPT !.place = pl]
      <4>2. s \in PublishReq /\ s.place \in PlaceIds /\ s.next = 1
        BY <3>1 DEF PublishReq
      <4>3. Fits("check", s)
        BY <4>2 DEF Fits, Placed
      <4>4. req' = [req EXCEPT ![p] = s]
        BY <4>1
      <4>5. LocalsOK'
        BY <4>1, <4>2, <4>3, <4>4, UpdateFits DEF Goto, Labels, Placed
      <4>6. QED
        BY <3>2, <3>3, <4>5
    <3>6. QED
      BY <2>4, <3>4, <3>5 DEF PublishInsert
  <2>5. CASE PublishCheck(p)
    <3>1. r \in PublishReq /\ r.place \in PlaceIds /\ r.next = 1
      BY <2>0, <2>5 DEF PublishCheck, Fits, Placed
    <3>2. TablesOK' /\ CountersOK'
      BY <2>5, UnchangedTables, FaultCounts DEF PublishCheck, Reads, CountersOK
    <3>3. CASE Finish(p)
      BY <3>2, <3>3, FinishFits
    <3>4. CASE Goto(p, "photos") /\ UNCHANGED req
      <4>1. r.next \in 1..Len(r.imgs)
        <5>1. r.imgs \in Seq(Images) /\ r.imgs # << >>
          BY <3>1, PlacesAssumption DEF PublishReq
        <5>2. Len(r.imgs) \in Nat \ {0}
          BY <5>1
        <5>3. QED
          BY <3>1, <5>2
      <4>2. QED
        BY <3>1, <3>2, <3>4, <4>1, GotoFits DEF Fits, Placed, Labels
    <3>5. QED
      BY <2>5, <3>3, <3>4 DEF PublishCheck
  <2>6. CASE PublishPhoto(p)
    <3>1. /\ r \in PublishReq /\ r.place \in PlaceIds
          /\ r.next \in 1..Len(r.imgs)
      BY <2>0, <2>6 DEF PublishPhoto, Fits, Placed
    <3>2. CountersOK'
      BY <2>6, FaultCounts DEF PublishPhoto, Attempt, CountersOK
    <3>3. TablesOK'
      <4>1. Len(r.imgs) \in Nat /\ r.imgs[r.next] \in Images
        BY <3>1, PlacesAssumption DEF PublishReq
      <4>2. Cardinality(photos) + 1 \in Nat
        BY FS_CardinalityType DEF TablesOK
      <4> DEFINE ph == [id |-> Cardinality(photos) + 1, place |-> r.place,
                        user |-> r.user, pos |-> r.pos, img |-> r.imgs[r.next]]
      <4>3. ph \in Photo
        BY <3>1, <4>1, <4>2 DEF Photo, PublishReq
      <4>4. IsFiniteSet(photos \cup {ph})
        BY FS_AddElement DEF TablesOK
      <4>5. photos' \in {photos, photos \cup {ph}}
        BY <2>6 DEF PublishPhoto, Attempt
      <4>6. QED
        BY <2>6, <4>3, <4>4, <4>5 DEF PublishPhoto, TablesOK
    <3>4. LocalsOK'
      <4> DEFINE s == [r EXCEPT !.next = r.next + 1]
      <4>1. Len(r.imgs) \in Nat
        BY <3>1, PlacesAssumption DEF PublishReq
      <4>2. s \in PublishReq /\ s.place \in PlaceIds /\ s.next = r.next + 1 /\ s.imgs = r.imgs
        BY <3>1 DEF PublishReq
      <4>3. req' = [req EXCEPT ![p] = s]
        BY <2>6 DEF PublishPhoto
      <4>4. CASE r.next = Len(r.imgs)
        <5>1. Fits("count", s)
          BY <4>2 DEF Fits, Placed
        <5>2. pc' = [pc EXCEPT ![p] = "count"]
          BY <2>6, <4>4 DEF PublishPhoto, Goto
        <5>3. QED
          BY <4>2, <4>3, <5>1, <5>2, UpdateFits DEF Labels, Placed
      <4>5. CASE r.next # Len(r.imgs)
        <5>1. s.next \in 1..Len(s.imgs)
          BY <3>1, <4>1, <4>2, <4>5
        <5>2. Fits("photos", s)
          BY <4>2, <5>1 DEF Fits, Placed
        <5>3. pc' = [pc EXCEPT ![p] = "photos"]
          BY <2>6, <4>5 DEF PublishPhoto, LocalsOK
        <5>4. QED
          BY <4>2, <4>3, <5>2, <5>3, UpdateFits DEF Labels, Placed
      <4>6. QED
        BY <4>4, <4>5
    <3>5. QED
      BY <3>2, <3>3, <3>4
  <2>7. CASE PublishCount(p)
    <3>1. r \in PublishReq /\ r.place \in PlaceIds
      BY <2>0, <2>7 DEF PublishCount, Fits, Placed
    <3>2. LocalsOK'
      BY <2>7, <3>1, GotoFits DEF PublishCount, Fits, Placed, Labels
    <3>3. CountersOK'
      BY <2>7, FaultCounts DEF PublishCount, Attempt, CountersOK
    <3>4. TablesOK'
      BY <2>7, PhotosAtFinite DEF PublishCount, Attempt, UpdateRow, TablesOK
    <3>5. QED
      BY <3>2, <3>3, <3>4
  <2>8. CASE PublishReadCover(p)
    <3>1. r \in PublishReq /\ r.place \in PlaceIds
      BY <2>0, <2>8 DEF PublishReadCover, Fits, Placed
    <3>2. Fits("setCover", r) /\ Fits("footprint", r)
      BY <3>1 DEF Fits, Placed
    <3>3. LocalsOK'
      BY <2>8, <3>2, GotoFits DEF PublishReadCover, Placed, Labels
    <3>4. QED
      BY <2>8, <3>3, UnchangedTables, FaultCounts DEF PublishReadCover, Finds, Misses, CountersOK
  <2>9. CASE PublishSetCover(p)
    <3>1. r \in PublishReq /\ r.place \in PlaceIds
      BY <2>0, <2>9 DEF PublishSetCover, Fits, Placed
    <3>2. LocalsOK'
      BY <2>9, <3>1, GotoFits DEF PublishSetCover, Fits, Placed, Labels
    <3>3. CountersOK'
      BY <2>9, FaultCounts DEF PublishSetCover, Attempt, CountersOK
    <3>4. r.imgs[1] \in Images
      BY <3>1, PlacesAssumption DEF PublishReq
    <3>5. TablesOK'
      BY <2>9, <3>4 DEF PublishSetCover, Attempt, UpdateRow, TablesOK
    <3>6. QED
      BY <3>2, <3>3, <3>5
  <2>10. CASE PublishFootprint(p)
    <3>1. r \in PublishReq /\ r.place \in PlaceIds
      BY <2>0, <2>10 DEF PublishFootprint, Fits, Placed
    <3>2. LocalsOK'
      BY <2>10, FinishFits DEF PublishFootprint
    <3>3. CountersOK'
      BY <2>10, FaultCounts DEF PublishFootprint, Attempt, CountersOK
    <3>4. TablesOK'
      BY <2>10, <3>1 DEF PublishFootprint, Attempt, InsertFootprint, TablesOK, PublishReq
    <3>5. QED
      BY <3>2, <3>3, <3>4
  <2>11. QED
    BY <1>4, <2>1, <2>2, <2>3, <2>4, <2>5, <2>6, <2>7, <2>8, <2>9, <2>10 DEF Continue
<1>5. QED
  BY <1>1, <1>2, <1>3, <1>4 DEF Next

\* Rows and local variables keep their shape in every reachable state.
THEOREM TypeCorrect == Spec => []TypeOK
BY InitTypeOK, TypeOKStep, PTL DEF Spec
-----------------------------------------------------------------------------
(* What a step can do to the tables and to other goroutines.                *)

\* Rows of places keep their name and position, and no row is deleted.
Grow ==
  /\ \A pl \in PlaceIds : Exists(pl) => spot'[pl] = spot[pl]
  /\ photos \subseteq photos'
  /\ footprints \subseteq footprints'

\* No statement changes the name or position of a place or removes a row.
LEMMA TablesGrow ==
  ASSUME TablesOK, [Next]_vars
  PROVE  Grow
<1>1. CASE UNCHANGED vars
  BY <1>1 DEF vars, Grow
<1>2. CASE UNCHANGED tables
  BY <1>2 DEF tables, Grow
<1>3. ASSUME NEW pl \in PlaceIds, NEW n, NEW x, NEW c, InsertPlace(pl, n, x, c)
      PROVE  Grow
  BY <1>3 DEF InsertPlace, Grow, Exists, TablesOK
<1>4. ASSUME NEW p \in Procs, Request(p) \/ Continue(p)
      PROVE  Grow
  <2>1. CASE Request(p)
    BY <1>2, <2>1 DEF Request, DetailFind, CreateFind, PublishTo, PublishFound, PublishNotFound
  <2>2. CASE DetailFootprint(p) \/ PublishFootprint(p)
    BY <2>2 DEF DetailFootprint, PublishFootprint, Attempt, InsertFootprint, Grow
  <2>3. CASE DetailCount(p) \/ PublishCount(p) \/ PublishSetCover(p)
    BY <2>3 DEF DetailCount, PublishCount, PublishSetCover, Attempt, Grow
  <2>4. CASE CreateInsert(p) \/ PublishInsert(p)
    BY <1>2, <1>3, <2>4 DEF CreateInsert, PublishInsert
  <2>5. CASE PublishCheck(p) \/ PublishReadCover(p)
    BY <1>2, <2>5 DEF PublishCheck, PublishReadCover
  <2>6. CASE PublishPhoto(p)
    BY <2>6 DEF PublishPhoto, Attempt, Grow
  <2>7. QED
    BY <1>4, <2>1, <2>2, <2>3, <2>4, <2>5, <2>6 DEF Continue
<1>5. QED
  BY <1>1, <1>2, <1>4 DEF Next, Crash

\* A step of p is no step of another goroutine.
OnlyMoves(p) == \A q \in Procs \ {p} : pc'[q] = pc[q] /\ req'[q] = req[q]

\* A statement of one request leaves the other requests where they are.
LEMMA StepsAreLocal ==
  ASSUME LocalsOK, NEW p \in Procs, Request(p) \/ Continue(p)
  PROVE  OnlyMoves(p)
<1>1. ASSUME NEW l, NEW r, Serve(p, r, l)
      PROVE  OnlyMoves(p)
  BY <1>1 DEF Serve, Goto, OnlyMoves, LocalsOK
<1>2. ASSUME NEW l, Goto(p, l), UNCHANGED req
      PROVE  OnlyMoves(p)
  BY <1>2 DEF Goto, OnlyMoves, LocalsOK
<1>3. CASE Finish(p)
  BY <1>3 DEF Finish, Goto, OnlyMoves, LocalsOK
<1>4. CASE Request(p)
  BY <1>1, <1>4 DEF Request, DetailFind, CreateFind, PublishTo, PublishFound, PublishNotFound
<1>5. CASE DetailFootprint(p) \/ PublishCount(p) \/ PublishReadCover(p) \/ PublishSetCover(p)
  BY <1>2, <1>5 DEF DetailFootprint, PublishCount, PublishReadCover, PublishSetCover
<1>6. CASE DetailCount(p) \/ CreateInsert(p) \/ PublishFootprint(p)
  BY <1>3, <1>6 DEF DetailCount, CreateInsert, PublishFootprint
<1>7. CASE PublishCheck(p)
  BY <1>2, <1>3, <1>7 DEF PublishCheck
<1>8. CASE PublishInsert(p)
  BY <1>3, <1>8 DEF PublishInsert, Goto, OnlyMoves, LocalsOK
<1>9. CASE PublishPhoto(p)
  BY <1>9 DEF PublishPhoto, Goto, OnlyMoves, LocalsOK
<1>10. QED
  BY <1>4, <1>5, <1>6, <1>7, <1>8, <1>9 DEF Continue

\* The number of failures never goes back: what held without any holds no more.
LEMMA FaultsMonotone ==
  ASSUME CountersOK, [Next]_vars
  PROVE  faults' = faults \/ faults' = faults + 1
<1>1. CASE UNCHANGED vars
  BY <1>1 DEF vars
<1>2. CASE Crash
  BY <1>2 DEF Crash, Fault
<1>3. ASSUME NEW p \in Procs, Request(p)
      PROVE  faults' = faults \/ faults' = faults + 1
  BY <1>3 DEF Request, DetailFind, CreateFind, PublishTo, PublishFound, PublishNotFound,
     Misses, Fault
<1>4. ASSUME NEW p \in Procs, Continue(p)
      PROVE  faults' = faults \/ faults' = faults + 1
  <2>1. CASE CreateInsert(p) \/ PublishInsert(p)
    BY <2>1 DEF CreateInsert, PublishInsert, Fault
  <2>2. CASE PublishCheck(p) \/ PublishReadCover(p)
    BY <2>2 DEF PublishCheck, PublishReadCover, Reads, Finds, Misses, Fault
  <2>3. CASE DetailFootprint(p) \/ DetailCount(p)
    BY <2>3 DEF DetailFootprint, DetailCount, Attempt, Fault
  <2>4. CASE PublishPhoto(p) \/ PublishCount(p)
    BY <2>4 DEF PublishPhoto, PublishCount, Attempt, Fault
  <2>5. CASE PublishSetCover(p) \/ PublishFootprint(p)
    BY <2>5 DEF PublishSetCover, PublishFootprint, Attempt, Fault
  <2>6. QED
    BY <1>4, <2>1, <2>2, <2>3, <2>4, <2>5 DEF Continue
<1>5. QED
  BY <1>1, <1>2, <1>3, <1>4 DEF Next

-----------------------------------------------------------------------------
(* Every photo hangs on a place nearby, or was taken near (0, 0).  The      *)
(* invariant needs the publisher that passed the 500 m check to be still    *)
(* near its place while it inserts: rows of places never move.              *)

Reaches(x, pl) == Exists(pl) /\ Within(x, spot[pl].pos, ReachBox)

NearInv ==
  /\ PhotosNearTheirPlace
  /\ \A p \in Procs :
       pc[p] = "photos" => Reaches(req[p].pos, req[p].place) \/ AtOrigin(req[p].pos)

\* A place id without a row, or whose read fails, reads as the point (0, 0).
LEMMA CheckedPlace ==
  ASSUME NEW x, NEW pl, NEW y, Reads(y, ReadPos(pl)), Within(x, y, ReachBox)
  PROVE  Reaches(x, pl) \/ AtOrigin(x)
BY DEF Reads, ReadPos, Reaches, AtOrigin

\* A distance test that was passed stays passed until the photo it guards is there.
LEMMA NearInvStep ==
  ASSUME TypeOK, NearInv, [Next]_vars
  PROVE  NearInv'
<1>0. TablesOK /\ CountersOK /\ LocalsOK
  BY TypeParts
<1>1. Grow
  BY <1>0, TablesGrow
<1>2. ASSUME NEW pl \in PlaceIds, Exists(pl)
      PROVE  Exists(pl)' /\ spot'[pl] = spot[pl]
  BY <1>1, <1>2 DEF Grow, Exists
<1>3. \A ph \in photos : ph.place \in PlaceIds
  BY <1>0 DEF TablesOK, Photo
<1>4. \A p \in Procs : pc[p] = "photos" => req[p] \in PublishReq /\ req[p].place \in PlaceIds
  BY <1>0 DEF LocalsOK, Fits, Placed
<1>5. ASSUME photos' = photos
      PROVE  PhotosNearTheirPlace'
  BY <1>2, <1>3, <1>5 DEF NearInv, PhotosNearTheirPlace, Within, AtOrigin
<1>6. CASE UNCHANGED vars
  BY <1>6 DEF vars, NearInv, PhotosNearTheirPlace, Reaches, Within, Exists, AtOrigin
<1>7. CASE Crash
  BY <1>5, <1>7 DEF Crash, tables, NearInv
<1>8. ASSUME NEW p \in Procs, Request(p) \/ Continue(p),
             photos' = photos, pc'[p] # "photos"
      PROVE  NearInv'
  <2>1. OnlyMoves(p)
    BY <1>0, <1>8, StepsAreLocal
  <2>2. QED
    BY <1>2, <1>4, <1>5, <1>8, <2>1 DEF NearInv, OnlyMoves, Reaches, Within, AtOrigin
<1>9. ASSUME NEW p \in Procs, PublishCheck(p)
      PROVE  NearInv'
  <2>1. photos' = photos
    BY <1>9 DEF PublishCheck, tables
  <2>2. OnlyMoves(p)
    BY <1>0, <1>9, StepsAreLocal DEF Continue
  <2>3. CASE Finish(p)
    BY <1>0, <1>8, <1>9, <2>1, <2>3 DEF Finish, Goto, LocalsOK, Continue
  <2>4. CASE UNCHANGED req /\ \E y : /\ Reads(y, ReadPos(req[p].place))
                                    /\ Within(req[p].pos, y, ReachBox)
    <3>1. req[p] \in PublishReq /\ req[p].place \in PlaceIds
      BY <1>0, <1>9 DEF PublishCheck, LocalsOK, Fits, Placed
    <3>2. Reaches(req[p].pos, req[p].place) \/ AtOrigin(req[p].pos)
      BY <2>4, CheckedPlace
    <3>3. QED
      BY <1>2, <1>4, <1>5, <2>1, <2>2, <2>4, <3>1, <3>2
         DEF NearInv, OnlyMoves, Reaches, Within, AtOrigin
  <2>5. QED
    BY <1>9, <2>3, <2>4 DEF PublishCheck
<1>10. ASSUME NEW p \in Procs, PublishPhoto(p)
       PROVE  NearInv'
  <2>1. OnlyMoves(p)
    BY <1>0, <1>10, StepsAreLocal DEF Continue
  <2>2. /\ pc[p] = "photos" /\ req[p] \in PublishReq /\ req[p].place \in PlaceIds
        /\ Reaches(req[p].pos, req[p].place) \/ AtOrigin(req[p].pos)
    BY <1>4, <1>10 DEF PublishPhoto, NearInv
  <2>3. req'[p].place = req[p].place /\ req'[p].pos = req[p].pos
    BY <1>0, <1>10, <2>2 DEF PublishPhoto, LocalsOK, PublishReq
  <2>4. spot' = spot
    BY <1>10 DEF PublishPhoto
  <2>5. \A ph \in photos' : ph \in photos \/ (ph.place = req[p].place /\ ph.pos = req[p].pos)
    BY <1>10 DEF PublishPhoto, Attempt
  <2>6. PhotosNearTheirPlace'
    BY <2>2, <2>4, <2>5 DEF NearInv, PhotosNearTheirPlace, Reaches, Within, Exists, AtOrigin
  <2>7. QED
    BY <2>1, <2>2, <2>3, <2>4, <2>6 DEF NearInv, OnlyMoves, Reaches, Within, Exists, AtOrigin
<1>11. ASSUME NEW p \in Procs, Request(p)
       PROVE  photos' = photos /\ pc'[p] # "photos"
  BY <1>0, <1>11 DEF Request, DetailFind, CreateFind, PublishTo, PublishFound, PublishNotFound,
     Serve, Goto, tables, LocalsOK
<1>12. ASSUME NEW p \in Procs, Continue(p), ~PublishCheck(p), ~PublishPhoto(p)
       PROVE  photos' = photos /\ pc'[p] # "photos"
  <2>1. CASE CreateInsert(p) \/ PublishInsert(p)
    BY <1>0, <2>1 DEF CreateInsert, PublishInsert, InsertPlace, Finish, Goto, tables, LocalsOK
  <2>2. QED
    BY <1>0, <1>12, <2>1 DEF Continue, DetailFootprint, DetailCount, PublishCount,
       PublishReadCover, PublishSetCover, PublishFootprint, Finish, Goto, tables, LocalsOK
<1>13. QED
  BY <1>6, <1>7, <1>8, <1>9, <1>10, <1>11, <1>12 DEF Next

\* The invariant holds in every reachable state.
LEMMA NearHolds == Spec => []NearInv
<1>1. Init => NearInv
  BY DEF Init, NearInv, PhotosNearTheirPlace
<1>2. TypeOK /\ NearInv /\ [Next]_vars => NearInv'
  BY NearInvStep
<1>3. QED
  BY <1>1, <1>2, TypeCorrect, PTL DEF Spec

\* Every photo row hangs on an existing place at most 500 m from where it was
\* taken, or was taken at most 500 m from (0, 0), for any positions but 0 and any
\* number of publishers, creators, failures and crashes.
THEOREM PhotosStayNear == Spec => []PhotosNearTheirPlace
<1>1. NearInv => PhotosNearTheirPlace
  BY DEF NearInv
<1>2. QED
  BY <1>1, NearHolds, PTL

-----------------------------------------------------------------------------
(* The shown counts.  The rows they count only grow, so a count taken of    *)
(* them is never too high; photo_count is exact when nobody owes a recount. *)

\* A recount of visitors is exact when it is taken, and footprints only grow.
LEMMA VisitorCountStep ==
  ASSUME TypeOK, VisitorCountNotOverstated, [Next]_vars
  PROVE  VisitorCountNotOverstated'
<1>0. TablesOK
  BY TypeParts
<1> SUFFICES ASSUME NEW pl \in PlaceIds
             PROVE  visitorCount'[pl] <= Cardinality(Visitors(pl))'
  BY DEF VisitorCountNotOverstated
<1>1. Visitors(pl) \subseteq Visitors(pl)'
  BY <1>0, TablesGrow DEF Grow, Visitors
<1>2. IsFiniteSet(Visitors(pl)')
  <2>1. Visitors(pl)' \subseteq Users
    BY DEF Visitors
  <2>2. QED
    BY <2>1, PlacesAssumption, FS_Subset
<1>3. /\ Cardinality(Visitors(pl)) <= Cardinality(Visitors(pl)')
      /\ Cardinality(Visitors(pl)) \in Nat /\ Cardinality(Visitors(pl)') \in Nat
  BY <1>1, <1>2, VisitorsFinite, FS_Subset, FS_CardinalityType
<1>4. visitorCount[pl] \in Nat /\ visitorCount[pl] <= Cardinality(Visitors(pl))
  BY <1>0 DEF TablesOK, VisitorCountNotOverstated
<1>5. visitorCount'[pl] \in {visitorCount[pl], Cardinality(Visitors(pl))}
  BY <1>0 DEF Next, Request, Continue, DetailFind, CreateFind, PublishTo, PublishFound,
     PublishNotFound, DetailFootprint, DetailCount, CreateInsert, PublishInsert, PublishCheck,
     PublishPhoto, PublishCount, PublishReadCover, PublishSetCover, PublishFootprint, Crash,
     InsertPlace, Attempt, tables, vars, TablesOK
<1>6. QED
  BY <1>3, <1>4, <1>5

\* Whatever fails and however requests interleave, a place never shows more
\* visitors than the users who have a footprint there.
THEOREM VisitorsNotOverstated == Spec => []VisitorCountNotOverstated
<1>1. Init => VisitorCountNotOverstated
  <2> SUFFICES ASSUME Init, NEW pl \in PlaceIds
               PROVE  visitorCount[pl] <= Cardinality(Visitors(pl))
    BY DEF VisitorCountNotOverstated
  <2>1. Cardinality(Visitors(pl)) >= 0
    BY VisitorsFinite
  <2>2. QED
    BY <2>1 DEF Init
<1>2. TypeOK /\ VisitorCountNotOverstated /\ [Next]_vars => VisitorCountNotOverstated'
  BY VisitorCountStep
<1>3. QED
  BY <1>1, <1>2, TypeCorrect, PTL DEF Spec

\* The photos tested on the row of their place are among those at it.
LEMMA TestedAtFinite ==
  ASSUME IsFiniteSet(photos), NEW pl
  PROVE  /\ Cardinality(TestedAt(pl)) \in Nat
         /\ Cardinality(TestedAt(pl)) <= Cardinality(PhotosAt(pl))
<1>1. TestedAt(pl) \subseteq PhotosAt(pl) /\ IsFiniteSet(PhotosAt(pl))
  BY PhotosAtFinite DEF TestedAt
<1>2. QED
  BY <1>1, FS_Subset, FS_CardinalityType

\* A place id without a row has no such photo.
LEMMA NoneTestedWithoutRow ==
  ASSUME NearInv, NEW pl, ~Exists(pl)
  PROVE  TestedAt(pl) = {}
BY DEF NearInv, PhotosNearTheirPlace, TestedAt, PhotosAt

\* A step that leaves photos and their counts alone, and after which every
\* goroutine that owed a recount still does.
LEMMA CountFrame ==
  ASSUME TypeOK, PhotoCountAccounted, NEW pl \in PlaceIds,
         PhotosAt(pl)' = PhotosAt(pl), photoCount'[pl] = photoCount[pl],
         faults' = 0 => faults = 0,
         \A p \in Procs : OwesCount(p, pl) => OwesCount(p, pl)'
  PROVE  /\ photoCount'[pl] <= Cardinality(PhotosAt(pl))'
         /\ (faults' = 0 /\ ~\E p \in Procs : OwesCount(p, pl)')
              => photoCount'[pl] >= Cardinality(TestedAt(pl))'
<1>1. TestedAt(pl)' = TestedAt(pl)
  BY DEF TestedAt, AtOrigin
<1>2. QED
  BY <1>1 DEF PhotoCountAccounted

\* An INSERT of a photo makes its publisher owe a recount; the recount is exact.
LEMMA PhotoCountStep ==
  ASSUME TypeOK, NearInv, PhotoCountAccounted, [Next]_vars
  PROVE  PhotoCountAccounted'
<1>0. TablesOK /\ CountersOK /\ LocalsOK
  BY TypeParts
<1> SUFFICES ASSUME NEW pl \in PlaceIds
             PROVE  /\ photoCount'[pl] <= Cardinality(PhotosAt(pl))'
                    /\ (faults' = 0 /\ ~\E p \in Procs : OwesCount(p, pl)')
                         => photoCount'[pl] >= Cardinality(TestedAt(pl))'
  BY DEF PhotoCountAccounted
<1>1. faults \in Nat /\ (faults' = faults \/ faults' = faults + 1)
  BY <1>0, FaultsMonotone, PlacesAssumption DEF CountersOK
<1>2. CASE UNCHANGED vars
  BY <1>2 DEF vars, PhotoCountAccounted, PhotosAt, TestedAt, AtOrigin, OwesCount
<1>3. CASE Crash
  <2>1. faults' # 0 /\ PhotosAt(pl)' = PhotosAt(pl) /\ photoCount' = photoCount
    BY <1>1, <1>3 DEF Crash, Fault, tables, PhotosAt
  <2>2. QED
    BY <2>1 DEF PhotoCountAccounted
<1>4. ASSUME NEW p \in Procs, Request(p) \/ Continue(p),
             photos' = photos, photoCount' = photoCount,
             OwesCount(p, pl) => OwesCount(p, pl)'
      PROVE  /\ photoCount'[pl] <= Cardinality(PhotosAt(pl))'
             /\ (faults' = 0 /\ ~\E q \in Procs : OwesCount(q, pl)')
                  => photoCount'[pl] >= Cardinality(TestedAt(pl))'
  <2>1. \A q \in Procs : OwesCount(q, pl) => OwesCount(q, pl)'
    BY <1>0, <1>4, StepsAreLocal DEF OnlyMoves, OwesCount
  <2>2. PhotosAt(pl)' = PhotosAt(pl)
    BY <1>4 DEF PhotosAt
  <2>3. QED
    BY <1>1, <1>4, <2>1, <2>2, CountFrame
<1>5. ASSUME NEW p \in Procs, PublishPhoto(p)
      PROVE  /\ photoCount'[pl] <= Cardinality(PhotosAt(pl))'
             /\ (faults' = 0 /\ ~\E q \in Procs : OwesCount(q, pl)')
                  => photoCount'[pl] >= Cardinality(TestedAt(pl))'
  <2>1. photoCount' = photoCount
    BY <1>5 DEF PublishPhoto
  <2>2. req[p] \in PublishReq /\ pc[p] = "photos"
    BY <1>0, <1>5 DEF PublishPhoto, LocalsOK, Fits, Placed
  <2>3. pc'[p] \in {"photos", "count"} /\ req'[p].place = req[p].place
    BY <1>0, <1>5, <2>2 DEF PublishPhoto, Goto, LocalsOK, PublishReq
  <2>4. CASE req[p].place = pl
    <3>1. OwesCount(p, pl)'
      BY <2>3, <2>4 DEF OwesCount
    <3>2. PhotosAt(pl) \subseteq PhotosAt(pl)'
      BY <1>0, TablesGrow DEF Grow, PhotosAt
    <3>3. IsFiniteSet(photos')
      BY <1>0, TypeOKStep DEF TypeOK
    <3>4. IsFiniteSet(PhotosAt(pl)')
      <4>1. PhotosAt(pl)' \subseteq photos'
        BY DEF PhotosAt
      <4>2. QED
        BY <3>3, <4>1, FS_Subset
    <3>5. /\ Cardinality(PhotosAt(pl)) <= Cardinality(PhotosAt(pl)')
          /\ Cardinality(PhotosAt(pl)) \in Nat /\ Cardinality(PhotosAt(pl)') \in Nat
      BY <3>2, <3>4, FS_Subset, FS_CardinalityType
    <3>6. photoCount[pl] \in Nat /\ photoCount[pl] <= Cardinality(PhotosAt(pl))
      BY <1>0 DEF TablesOK, PhotoCountAccounted
    <3>7. QED
      BY <2>1, <3>1, <3>5, <3>6
  <2>5. CASE req[p].place # pl
    <3>1. PhotosAt(pl)' = PhotosAt(pl)
      BY <1>5, <2>5 DEF PublishPhoto, Attempt, PhotosAt
    <3>2. \A q \in Procs : OwesCount(q, pl) => OwesCount(q, pl)'
      BY <1>0, <1>5, <2>5, StepsAreLocal DEF OnlyMoves, OwesCount, Continue
    <3>3. QED
      BY <1>1, <2>1, <3>1, <3>2, CountFrame
  <2>6. QED
    BY <2>4, <2>5
<1>6. ASSUME NEW p \in Procs, PublishCount(p)
      PROVE  /\ photoCount'[pl] <= Cardinality(PhotosAt(pl))'
             /\ (faults' = 0 /\ ~\E q \in Procs : OwesCount(q, pl)')
                  => photoCount'[pl] >= Cardinality(TestedAt(pl))'
  <2>1. PhotosAt(pl)' = PhotosAt(pl)
    BY <1>6 DEF PublishCount, PhotosAt
  <2>2. Cardinality(PhotosAt(pl)) \in Nat
    BY <1>0, PhotosAtFinite DEF TablesOK
  <2>3. CASE photoCount' =
               UpdateRow(photoCount, req[p].place, Cardinality(PhotosAt(req[p].place)))
    <3>1. CASE req[p].place = pl
      <4>1. TestedAt(pl)' = TestedAt(pl)
        BY <2>1 DEF TestedAt, AtOrigin
      <4>2. Cardinality(TestedAt(pl)) \in Nat /\ Cardinality(TestedAt(pl)) <= Cardinality(PhotosAt(pl))
        BY <1>0, TestedAtFinite DEF TablesOK
      <4>3. CASE Exists(pl)
        <5>1. photoCount'[pl] = Cardinality(PhotosAt(pl))
          BY <1>0, <2>3, <3>1, <4>3 DEF TablesOK, UpdateRow
        <5>2. QED
          BY <2>1, <2>2, <4>1, <4>2, <5>1
      <4>4. CASE ~Exists(pl)
        <5>1. photoCount'[pl] = photoCount[pl] /\ photoCount[pl] \in Nat
          BY <1>0, <2>3, <3>1, <4>4 DEF TablesOK, UpdateRow
        <5>2. Cardinality(TestedAt(pl)) = 0
          BY <4>4, NoneTestedWithoutRow, FS_EmptySet
        <5>3. QED
          BY <2>1, <4>1, <5>1, <5>2 DEF PhotoCountAccounted
      <4>5. QED
        BY <4>3, <4>4
    <3>2. CASE req[p].place # pl
      <4>1. photoCount'[pl] = photoCount[pl]
        BY <1>0, <2>3, <3>2 DEF TablesOK, UpdateRow
      <4>2. \A q \in Procs : OwesCount(q, pl) => OwesCount(q, pl)'
        BY <1>0, <1>6, <3>2, StepsAreLocal DEF OnlyMoves, OwesCount, Continue
      <4>3. QED
        BY <1>1, <2>1, <4>1, <4>2, CountFrame
    <3>3. QED
      BY <3>1, <3>2
  <2>4. CASE Fault /\ photoCount' = photoCount
    BY <1>1, <2>1, <2>4 DEF Fault, PhotoCountAccounted
  <2>5. QED
    BY <1>6, <2>3, <2>4 DEF PublishCount, Attempt
<1>7. ASSUME NEW p \in Procs, Request(p)
      PROVE  photos' = photos /\ photoCount' = photoCount /\ ~OwesCount(p, pl)
  BY <1>7 DEF Request, DetailFind, CreateFind, PublishTo, PublishFound, PublishNotFound,
     Serve, tables, OwesCount
<1>8. ASSUME NEW p \in Procs, Continue(p), ~PublishPhoto(p), ~PublishCount(p)
      PROVE  photos' = photos /\ photoCount' = photoCount /\ ~OwesCount(p, pl)
  <2>1. CASE CreateInsert(p) \/ PublishInsert(p)
    BY <2>1 DEF CreateInsert, PublishInsert, InsertPlace, tables, OwesCount
  <2>2. QED
    BY <1>8, <2>1 DEF Continue, DetailFootprint, DetailCount, PublishCheck,
       PublishReadCover, PublishSetCover, PublishFootprint, tables, OwesCount
<1>9. QED
  BY <1>2, <1>3, <1>4, <1>5, <1>6, <1>7, <1>8 DEF Next

\* The photo_count of a place never exceeds its photos, and misses none tested on
\* its row unless a publisher still owes its recount or something failed.
THEOREM PhotoCountsAccounted == Spec => []PhotoCountAccounted
<1>1. Init => PhotoCountAccounted
  <2> SUFFICES ASSUME Init, NEW pl \in PlaceIds
               PROVE  /\ photoCount[pl] = 0 /\ Cardinality(PhotosAt(pl)) = 0
                      /\ Cardinality(TestedAt(pl)) = 0
    BY DEF PhotoCountAccounted
  <2>1. PhotosAt(pl) = {} /\ TestedAt(pl) = {}
    BY DEF Init, PhotosAt, TestedAt
  <2>2. QED
    BY <2>1, FS_EmptySet DEF Init
<1>2. TypeOK /\ NearInv /\ PhotoCountAccounted /\ [Next]_vars => PhotoCountAccounted'
  BY PhotoCountStep
<1>3. QED
  BY <1>1, <1>2, NearHolds, TypeCorrect, PTL DEF Spec
-----------------------------------------------------------------------------
(* Places of one name on one spot.                                          *)

\* The requests that have looked for the place in vain and not inserted it yet.
Inserting(n, x) ==
  {p \in Procs : pc[p] \in {"createInsert", "publishInsert"} /\ req[p].name = n /\ req[p].pos = x}

\* A look-up that is answered sees every twin there is: a request that starts to
\* insert has seen none, or its look-up is among the failures.
TwinInv ==
  \A n \in Names, x \in Positions :
    Cardinality(Twins(n, x)) + Cardinality(Inserting(n, x)) <= Cardinality(Procs) + faults

\* A step inserts a twin for one request less, or lets a request in while there is
\* none, or lets one in by a failure, or does none of these.
LEMMA TwinKinds ==
  ASSUME TypeOK, [Next]_vars, NEW n \in Names, NEW x \in Positions
  PROVE  \/ Twins(n, x)' = Twins(n, x) /\ Inserting(n, x)' \subseteq Inserting(n, x)
         \/ Twins(n, x)' = {}
         \/ /\ faults' = faults + 1
            /\ Twins(n, x)' = Twins(n, x)
            /\ \E p \in Procs : Inserting(n, x)' \subseteq Inserting(n, x) \cup {p}
         \/ \E p \in Inserting(n, x), pl \in PlaceIds :
              /\ Twins(n, x)' = Twins(n, x) \cup {pl}
              /\ Inserting(n, x)' \subseteq Inserting(n, x) \ {p}
<1> DEFINE Neither == Twins(n, x)' = Twins(n, x) /\ Inserting(n, x)' \subseteq Inserting(n, x)
           LetIn   == /\ faults' = faults + 1
                      /\ Twins(n, x)' = Twins(n, x)
                      /\ \E p \in Procs : Inserting(n, x)' \subseteq Inserting(n, x) \cup {p}
<1>0. TablesOK /\ LocalsOK
  BY TypeParts
<1>1. CASE UNCHANGED vars
  BY <1>1 DEF vars, Twins, Inserting
<1>2. CASE Crash
  <2>1. Inserting(n, x)' = {}
    BY <1>2 DEF Crash, Inserting
  <2>2. Twins(n, x)' = Twins(n, x)
    BY <1>2 DEF Crash, Twins, tables
  <2>3. QED
    BY <2>1, <2>2
<1>3. ASSUME NEW p \in Procs, OnlyMoves(p), p \notin Inserting(n, x)', spot' = spot
      PROVE  Neither
  BY <1>3 DEF OnlyMoves, Inserting, Twins
<1>4. ASSUME NEW p \in Procs, Request(p)
      PROVE  Neither \/ Twins(n, x)' = {} \/ LetIn
  <2>1. OnlyMoves(p)
    BY <1>0, <1>4, StepsAreLocal
  <2>2. spot' = spot
    BY <1>4 DEF Request, DetailFind, CreateFind, PublishTo, PublishFound, PublishNotFound, tables
  <2>3. CASE DetailFind(p) \/ PublishTo(p) \/ PublishFound(p)
    <3>1. pc'[p] \notin {"createInsert", "publishInsert"}
      BY <1>0, <2>3 DEF DetailFind, PublishTo, PublishFound, Serve, Goto, LocalsOK
    <3>2. QED
      BY <1>3, <2>1, <2>2, <3>1 DEF Inserting
  <2>4. CASE CreateFind(p)
    <3>1. PICK u \in Users, m \in Names, y \in Positions, c \in Covers :
            /\ NameMatches(m, y) = {} \/ faults' = faults + 1
            /\ Serve(p, [user |-> u, name |-> m, pos |-> y, cover |-> c], "createInsert")
      BY <1>0, <2>4 DEF CreateFind, Misses, Fault
    <3>2. req'[p].name = m /\ req'[p].pos = y
      BY <1>0, <3>1 DEF Serve, LocalsOK
    <3>3. CASE m = n /\ y = x /\ NameMatches(m, y) = {}
      <4>1. x \in Int
        BY PlacesAssumption
      <4>2. ASSUME NEW pl \in Twins(n, x)
            PROVE  FALSE
        <5>1. pl \in PlaceIds /\ spot[pl] = [name |-> n, pos |-> x]
          BY DEF Twins
        <5>2. Exists(pl) /\ spot[pl].name = n /\ spot[pl].pos = x
          BY <5>1, PlacesAssumption DEF Exists
        <5>3. Within(x, x, NameBox)
          BY <4>1 DEF Within, NameBox
        <5>4. QED
          BY <3>3, <5>1, <5>2, <5>3 DEF NameMatches
      <4>3. QED
        BY <2>2, <4>2 DEF Twins
    <3>4. CASE ~(m = n /\ y = x)
      BY <1>3, <2>1, <2>2, <3>2, <3>4 DEF Inserting
    <3>5. CASE faults' = faults + 1
      BY <2>1, <2>2, <3>5 DEF OnlyMoves, Inserting, Twins
    <3>6. QED
      BY <3>1, <3>3, <3>4, <3>5
  <2>5. CASE PublishNotFound(p)
    <3>1. PICK u \in Users, m \in Names, y \in Positions, b \in Batches :
            /\ AutoMatches(y) = {} \/ faults' = faults + 1
            /\ Serve(p, PublishReqOf(u, None, m, y, b), "publishInsert")
      BY <1>0, <2>5 DEF PublishNotFound, Misses, Fault
    <3>2. req'[p].name = m /\ req'[p].pos = y
      BY <1>0, <3>1 DEF Serve, PublishReqOf, LocalsOK
    <3>3. CASE y = x /\ AutoMatches(y) = {}
      <4>1. x \in Int
        BY PlacesAssumption
      <4>2. ASSUME NEW pl \in Twins(n, x)
            PROVE  FALSE
        <5>1. pl \in PlaceIds /\ spot[pl] = [name |-> n, pos |-> x]
          BY DEF Twins
        <5>2. Exists(pl) /\ spot[pl].pos = x
          BY <5>1, PlacesAssumption DEF Exists
        <5>3. Within(x, x, AutoBox)
          BY <4>1 DEF Within, AutoBox
        <5>4. QED
          BY <3>3, <5>1, <5>2, <5>3 DEF AutoMatches
      <4>3. QED
        BY <2>2, <4>2 DEF Twins
    <3>4. CASE y # x
      BY <1>3, <2>1, <2>2, <3>2, <3>4 DEF Inserting
    <3>5. CASE faults' = faults + 1
      BY <2>1, <2>2, <3>5 DEF OnlyMoves, Inserting, Twins
    <3>6. QED
      BY <3>1, <3>3, <3>4, <3>5
  <2>6. QED
    BY <1>4, <2>3, <2>4, <2>5 DEF Request
<1>5. ASSUME NEW p \in Procs, CreateInsert(p) \/ PublishInsert(p)
      PROVE  \/ Neither
             \/ \E pl \in PlaceIds : /\ p \in Inserting(n, x)
                                   /\ Twins(n, x)' = Twins(n, x) \cup {pl}
                                   /\ Inserting(n, x)' \subseteq Inserting(n, x) \ {p}
  <2>1. OnlyMoves(p) /\ pc[p] \in {"createInsert", "publishInsert"}
    BY <1>0, <1>5, StepsAreLocal DEF Continue, CreateInsert, PublishInsert
  <2>2. pc'[p] \notin {"createInsert", "publishInsert"}
    BY <1>0, <1>5 DEF CreateInsert, PublishInsert, Finish, Goto, LocalsOK
  <2>3. Inserting(n, x)' \subseteq Inserting(n, x) \ {p}
    BY <2>1, <2>2 DEF OnlyMoves, Inserting
  <2>4. CASE UNCHANGED tables
    BY <2>3, <2>4 DEF tables, Twins
  <2>5. CASE \E pl \in PlaceIds : \E c : InsertPlace(pl, req[p].name, req[p].pos, c)
    <3>0. PICK pl \in PlaceIds : \E c : InsertPlace(pl, req[p].name, req[p].pos, c)
      BY <2>5
    <3>1. spot' = [spot EXCEPT ![pl] = [name |-> req[p].name, pos |-> req[p].pos]]
          /\ spot[pl] = None
      BY <3>0 DEF InsertPlace, Exists
    <3>2. spot \in [PlaceIds -> Spot \cup {None}] /\ [name |-> n, pos |-> x] # None
      BY <1>0, PlacesAssumption DEF TablesOK
    <3>3. CASE req[p].name = n /\ req[p].pos = x
      BY <2>1, <2>3, <3>1, <3>2, <3>3 DEF Twins, Inserting
    <3>4. CASE ~(req[p].name = n /\ req[p].pos = x)
      <4>1. [name |-> req[p].name, pos |-> req[p].pos] # [name |-> n, pos |-> x]
        BY <3>4
      <4>2. Twins(n, x)' = Twins(n, x)
        BY <3>1, <3>2, <4>1 DEF Twins
      <4>3. QED
        BY <2>3, <4>2
    <3>5. QED
      BY <3>3, <3>4
  <2>6. QED
    BY <1>5, <2>4, <2>5 DEF CreateInsert, PublishInsert
<1>6. ASSUME NEW p \in Procs, Continue(p), ~CreateInsert(p), ~PublishInsert(p)
      PROVE  Neither
  <2>1. OnlyMoves(p)
    BY <1>0, <1>6, StepsAreLocal
  <2>2. spot' = spot
    BY <1>6 DEF Continue, DetailFootprint, DetailCount, PublishCheck, PublishPhoto, PublishCount,
       PublishReadCover, PublishSetCover, PublishFootprint, tables
  <2>3. pc'[p] \notin {"createInsert", "publishInsert"}
    <3>1. CASE DetailFootprint(p) \/ DetailCount(p) \/ PublishCheck(p) \/ PublishCount(p)
      BY <1>0, <3>1 DEF DetailFootprint, DetailCount, PublishCheck, PublishCount, Finish, Goto, LocalsOK
    <3>2. CASE PublishReadCover(p) \/ PublishSetCover(p) \/ PublishFootprint(p)
      BY <1>0, <3>2 DEF PublishReadCover, PublishSetCover, PublishFootprint, Finish, Goto, LocalsOK
    <3>3. CASE PublishPhoto(p)
      BY <1>0, <3>3 DEF PublishPhoto, Goto, LocalsOK
    <3>4. QED
      BY <1>6, <3>1, <3>2, <3>3 DEF Continue
  <2>4. QED
    BY <1>3, <2>1, <2>2, <2>3 DEF Inserting
<1>7. QED
  BY <1>1, <1>2, <1>4, <1>5, <1>6 DEF Next

LEMMA TwinInvStep == TypeOK /\ TwinInv /\ [Next]_vars => TwinInv'
<1> SUFFICES ASSUME TypeOK, TwinInv, [Next]_vars, NEW n \in Names, NEW x \in Positions
             PROVE  Cardinality(Twins(n, x)') + Cardinality(Inserting(n, x)') <= Cardinality(Procs) + faults'
  BY DEF TwinInv
<1> DEFINE T == Twins(n, x)
           S == Twins(n, x)'
           I == Inserting(n, x)
           J == Inserting(n, x)'
<1>1. faults \in Nat /\ (faults' = faults \/ faults' = faults + 1)
  BY FaultsMonotone, TypeParts, PlacesAssumption DEF CountersOK
<1>2. Cardinality(T) + Cardinality(I) <= Cardinality(Procs) + faults
  BY DEF TwinInv
<1>3. T \subseteq PlaceIds /\ S \subseteq PlaceIds /\ I \subseteq Procs /\ J \subseteq Procs
  BY DEF Twins, Inserting
<1>4. \/ S = T /\ J \subseteq I
      \/ S = {}
      \/ faults' = faults + 1 /\ S = T /\ \E p \in Procs : J \subseteq I \cup {p}
      \/ \E p \in I, pl \in PlaceIds : S = T \cup {pl} /\ J \subseteq I \ {p}
  BY TwinKinds
<1> HIDE DEF T, S, I, J
<1>5. /\ IsFiniteSet(T) /\ IsFiniteSet(S) /\ IsFiniteSet(I) /\ IsFiniteSet(J)
      /\ Cardinality(T) \in Nat /\ Cardinality(S) \in Nat
      /\ Cardinality(I) \in Nat /\ Cardinality(J) \in Nat /\ Cardinality(Procs) \in Nat
  BY <1>3, PlacesAssumption, FS_Subset, FS_CardinalityType
<1>6. ASSUME S = T, J \subseteq I
      PROVE  Cardinality(S) + Cardinality(J) <= Cardinality(Procs) + faults'
  BY <1>1, <1>2, <1>5, <1>6, FS_Subset
<1>7. ASSUME S = {}
      PROVE  Cardinality(S) + Cardinality(J) <= Cardinality(Procs) + faults'
  <2>1. Cardinality(S) = 0 /\ Cardinality(J) <= Cardinality(Procs)
    BY <1>3, <1>7, PlacesAssumption, FS_Subset, FS_EmptySet
  <2>2. QED
    BY <1>1, <1>5, <2>1
<1>8. ASSUME NEW p \in I, NEW pl, S = T \cup {pl}, J \subseteq I \ {p}
      PROVE  Cardinality(S) + Cardinality(J) <= Cardinality(Procs) + faults'
  <2>1. Cardinality(S) <= Cardinality(T) + 1
    BY <1>5, <1>8, FS_AddElement
  <2>2. IsFiniteSet(I \ {p}) /\ Cardinality(I \ {p}) = Cardinality(I) - 1
    BY <1>5, FS_RemoveElement
  <2>3. Cardinality(J) <= Cardinality(I \ {p})
    BY <1>8, <2>2, FS_Subset
  <2>4. QED
    BY <1>1, <1>2, <1>5, <2>1, <2>2, <2>3
<1>9. ASSUME NEW p \in Procs, faults' = faults + 1, S = T, J \subseteq I \cup {p}
      PROVE  Cardinality(S) + Cardinality(J) <= Cardinality(Procs) + faults'
  <2>1. /\ IsFiniteSet(I \cup {p})
        /\ Cardinality(I \cup {p}) = Cardinality(I) \/ Cardinality(I \cup {p}) = Cardinality(I) + 1
    BY <1>5, FS_AddElement
  <2>2. Cardinality(I \cup {p}) \in Nat /\ Cardinality(J) <= Cardinality(I \cup {p})
    BY <1>9, <2>1, FS_Subset, FS_CardinalityType
  <2>3. QED
    BY <1>1, <1>2, <1>5, <1>9, <2>1, <2>2
<1>10. Cardinality(S) + Cardinality(J) <= Cardinality(Procs) + faults'
  BY <1>4, <1>6, <1>7, <1>8, <1>9
<1>11. QED
  BY <1>10 DEF S, J

\* Overlapping requests can each insert the same place, but never more of them than
\* there are goroutines and failures: once the first row is there, no later look-up
\* that is answered misses it.
THEOREM TwinsBounded == Spec => []TwinsBoundedByConcurrency
<1>1. Init => TwinInv
  <2> SUFFICES ASSUME Init, NEW n \in Names, NEW x \in Positions
               PROVE  Cardinality(Twins(n, x)) + Cardinality(Inserting(n, x)) <= Cardinality(Procs) + faults
    BY DEF TwinInv
  <2>1. Twins(n, x) = {} /\ Inserting(n, x) = {}
    BY PlacesAssumption DEF Init, Twins, Inserting
  <2>2. Cardinality({}) = 0 /\ Cardinality(Procs) \in Nat
    BY PlacesAssumption, FS_EmptySet, FS_CardinalityType
  <2>3. QED
    BY <2>1, <2>2 DEF Init
<1>2. TypeOK /\ TwinInv => TwinsBoundedByConcurrency
  <2> SUFFICES ASSUME TypeOK, TwinInv, NEW n \in Names, NEW x \in Positions
               PROVE  Cardinality(Twins(n, x)) <= Cardinality(Procs) + faults
    BY DEF TwinsBoundedByConcurrency
  <2>1. Twins(n, x) \subseteq PlaceIds /\ Inserting(n, x) \subseteq Procs
    BY DEF Twins, Inserting
  <2>2. /\ Cardinality(Twins(n, x)) \in Nat /\ Cardinality(Inserting(n, x)) \in Nat
        /\ Cardinality(Procs) \in Nat /\ faults \in Nat
    BY <2>1, PlacesAssumption, FS_Subset, FS_CardinalityType DEF TypeOK
  <2>3. Cardinality(Twins(n, x)) + Cardinality(Inserting(n, x)) <= Cardinality(Procs) + faults
    BY DEF TwinInv
  <2>4. QED
    BY <2>2, <2>3
<1>3. QED
  BY <1>1, <1>2, TwinInvStep, TypeCorrect, PTL DEF Spec

-----------------------------------------------------------------------------
(* Covers.                                                                  *)

\* The first image of the request is that of a photo at its place.
FirstIsThere(p) == \E ph \in PhotosAt(req[p].place) : ph.img = req[p].imgs[1]

\* A publisher past its first INSERT has its first image among the photos, which
\* is the one it sets the cover to.
CoverInv ==
  /\ CoverAccounted
  /\ faults = 0 =>
       \A p \in Procs :
         (pc[p] = "photos" /\ req[p].next > 1) \/ pc[p] \in {"count", "readCover", "setCover"}
           => FirstIsThere(p)

\* Photos stay, and with them what a publisher has put there.
LEMMA FirstStays ==
  ASSUME photos \subseteq photos', NEW p \in Procs, FirstIsThere(p),
         req'[p].place = req[p].place, req'[p].imgs = req[p].imgs
  PROVE  FirstIsThere(p)'
BY DEF FirstIsThere, PhotosAt

\* A step that writes no cover and no photo, and after which whoever owed the
\* cover still does, or the place has one.
LEMMA CoverAside ==
  ASSUME TypeOK, CoverInv, NEW p \in Procs, OnlyMoves(p), faults = 0,
         cover' = cover, photos' = photos,
         \A pl \in PlaceIds : OwesCover(p, pl) => OwesCover(p, pl)' \/ cover[pl] # None,
         (pc'[p] = "photos" /\ req'[p].next > 1) \/ pc'[p] \in {"count", "readCover", "setCover"}
           => FirstIsThere(p)'
  PROVE  CoverInv'
<1>1. ASSUME NEW q \in Procs,
             (pc'[q] = "photos" /\ req'[q].next > 1) \/ pc'[q] \in {"count", "readCover", "setCover"}
      PROVE  FirstIsThere(q)'
  BY <1>1, FirstStays DEF CoverInv, OnlyMoves
<1>2. ASSUME NEW pl \in PlaceIds
      PROVE  /\ cover'[pl] \in Covers \cup {None} \cup {ph.img : ph \in PhotosAt(pl)'}
             /\ TestedAt(pl)' # {} /\ (~\E q \in Procs : OwesCover(q, pl)') => cover'[pl] # None
  <2>1. PhotosAt(pl)' = PhotosAt(pl) /\ TestedAt(pl)' = TestedAt(pl)
    BY DEF PhotosAt, TestedAt, AtOrigin
  <2>2. \A q \in Procs : OwesCover(q, pl) => OwesCover(q, pl)' \/ cover[pl] # None
    <3>1. \A q \in Procs \ {p} : OwesCover(q, pl) => OwesCover(q, pl)'
      BY DEF OnlyMoves, OwesCover
    <3>2. QED
      BY <3>1
  <2>3. /\ cover[pl] \in Covers \cup {None} \cup {ph.img : ph \in PhotosAt(pl)}
        /\ TestedAt(pl) # {} /\ (~\E q \in Procs : OwesCover(q, pl)) => cover[pl] # None
    BY DEF CoverInv, CoverAccounted
  <2>4. QED
    BY <2>1, <2>2, <2>3
<1>3. QED
  BY <1>1, <1>2 DEF CoverInv, CoverAccounted

LEMMA CoverInvStep == TypeOK /\ TypeOK' /\ NearInv /\ CoverInv /\ [Next]_vars => CoverInv'
<1> SUFFICES ASSUME TypeOK, TypeOK', NearInv, CoverInv, [Next]_vars, faults' = 0
             PROVE  CoverInv'
  BY DEF CoverInv, CoverAccounted
<1>0. TablesOK /\ CountersOK /\ LocalsOK /\ TablesOK' /\ LocalsOK'
  BY TypeParts, TypePartsNext
<1>1. faults = 0 /\ ~Fault
  BY <1>0, FaultsMonotone, PlacesAssumption DEF CountersOK, Fault
<1>2. photos \subseteq photos'
  BY <1>0, TablesGrow DEF Grow
<1>3. CASE UNCHANGED vars
  BY <1>3 DEF vars, CoverInv, CoverAccounted, FirstIsThere, PhotosAt, TestedAt, AtOrigin, OwesCover
<1>4. CASE Crash
  BY <1>1, <1>4 DEF Crash
<1>5. ASSUME NEW p \in Procs, Request(p)
      PROVE  CoverInv'
  <2>1. OnlyMoves(p) /\ cover' = cover /\ photos' = photos
    BY <1>0, <1>5, StepsAreLocal DEF Request, DetailFind, CreateFind, PublishTo, PublishFound,
       PublishNotFound, tables
  <2>2. pc[p] = "idle" /\ pc'[p] \in {"detailFootprint", "createInsert", "publishInsert", "check"}
    BY <1>0, <1>5 DEF Request, DetailFind, CreateFind, PublishTo, PublishFound,
       PublishNotFound, Serve, Goto, LocalsOK
  <2>3. QED
    BY <1>1, <2>1, <2>2, CoverAside DEF OwesCover
<1>6. ASSUME NEW p \in Procs, Continue(p)
      PROVE  CoverInv'
  <2>1. OnlyMoves(p)
    BY <1>0, <1>6, StepsAreLocal
  <2>2. CASE DetailFootprint(p) \/ DetailCount(p) \/ PublishFootprint(p)
    <3>1. cover' = cover /\ photos' = photos
      BY <2>2 DEF DetailFootprint, DetailCount, PublishFootprint
    <3>2. pc[p] \in {"detailFootprint", "detailCount", "footprint"} /\ pc'[p] \in {"detailCount", "idle"}
      BY <1>0, <2>2 DEF DetailFootprint, DetailCount, PublishFootprint, Finish, Goto, LocalsOK
    <3>3. QED
      BY <1>1, <2>1, <3>1, <3>2, CoverAside DEF OwesCover
  <2>3. CASE PublishCheck(p)
    <3>1. cover' = cover /\ photos' = photos /\ pc[p] = "check" /\ req[p].next = 1
      BY <1>0, <2>3 DEF PublishCheck, tables, LocalsOK, Fits
    <3>2. pc'[p] = "idle" \/ (pc'[p] = "photos" /\ req' = req)
      BY <1>0, <2>3 DEF PublishCheck, Finish, Goto, LocalsOK
    <3>3. QED
      BY <1>1, <2>1, <3>1, <3>2, CoverAside DEF OwesCover
  <2>4. CASE PublishCount(p)
    <3>1. cover' = cover /\ photos' = photos /\ pc[p] = "count" /\ req' = req
      BY <2>4 DEF PublishCount
    <3>2. pc'[p] = "readCover"
      BY <1>0, <2>4 DEF PublishCount, Goto, LocalsOK
    <3>3. FirstIsThere(p)'
      BY <1>1, <1>2, <3>1, FirstStays DEF CoverInv
    <3>4. QED
      BY <1>1, <2>1, <3>1, <3>2, <3>3, CoverAside DEF OwesCover
  <2>5. CASE PublishReadCover(p)
    <3>1. cover' = cover /\ photos' = photos /\ pc[p] = "readCover" /\ req' = req
      BY <2>5 DEF PublishReadCover, tables
    <3>2. \/ pc'[p] = "footprint" /\ cover[req[p].place] # None
          \/ pc'[p] = "setCover"
      BY <1>0, <1>1, <2>5 DEF PublishReadCover, Finds, Misses, Goto, LocalsOK
    <3>3. FirstIsThere(p)'
      BY <1>1, <1>2, <3>1, FirstStays DEF CoverInv
    <3>4. QED
      BY <1>1, <2>1, <3>1, <3>2, <3>3, CoverAside DEF OwesCover
  <2>6. CASE CreateInsert(p) \/ PublishInsert(p)
    <3>1. photos' = photos /\ pc[p] \in {"createInsert", "publishInsert"}
      BY <1>1, <2>6 DEF CreateInsert, PublishInsert, InsertPlace
    <3>2. pc'[p] \in {"idle", "check"}
      BY <1>0, <2>6 DEF CreateInsert, PublishInsert, Finish, Goto, LocalsOK
    <3>3. PICK pl \in PlaceIds, c \in Covers \cup {None} :
            ~Exists(pl) /\ cover' = [cover EXCEPT ![pl] = c]
      <4>1. CASE CreateInsert(p)
        <5>1. req[p].cover \in Covers
          BY <1>0, <3>1, <4>1 DEF CreateInsert, LocalsOK, Fits, CreateReq
        <5>2. QED
          BY <1>1, <4>1, <5>1 DEF CreateInsert, InsertPlace
      <4>2. CASE PublishInsert(p)
        BY <1>1, <4>2 DEF PublishInsert, InsertPlace
      <4>3. QED
        BY <2>6, <4>1, <4>2
    <3>4. TestedAt(pl) = {}
      BY <3>3, NoneTestedWithoutRow
    <3>5. ASSUME NEW q \in Procs,
                 (pc'[q] = "photos" /\ req'[q].next > 1) \/ pc'[q] \in {"count", "readCover", "setCover"}
          PROVE  FirstIsThere(q)'
      BY <1>1, <1>2, <2>1, <3>2, <3>5, FirstStays DEF CoverInv, OnlyMoves
    <3>6. ASSUME NEW r \in PlaceIds
          PROVE  /\ cover'[r] \in Covers \cup {None} \cup {ph.img : ph \in PhotosAt(r)'}
                 /\ TestedAt(r)' # {} /\ (~\E q \in Procs : OwesCover(q, r)') => cover'[r] # None
      <4>1. PhotosAt(r)' = PhotosAt(r) /\ TestedAt(r)' = TestedAt(r)
        BY <3>1 DEF PhotosAt, TestedAt, AtOrigin
      <4>2. \A q \in Procs : OwesCover(q, r) => OwesCover(q, r)'
        BY <2>1, <3>1 DEF OnlyMoves, OwesCover
      <4>3. CASE r = pl
        BY <1>0, <3>3, <3>4, <4>1, <4>3 DEF TablesOK
      <4>4. CASE r # pl
        <5>1. cover'[r] = cover[r]
          BY <1>0, <3>3, <4>4 DEF TablesOK
        <5>2. QED
          BY <1>1, <4>1, <4>2, <5>1 DEF CoverInv, CoverAccounted
      <4>5. QED
        BY <4>3, <4>4
    <3>7. QED
      BY <3>5, <3>6 DEF CoverInv, CoverAccounted
  <2>7. CASE PublishPhoto(p)
    <3>1. req[p] \in PublishReq /\ pc[p] = "photos" /\ cover' = cover
          /\ req[p].next \in 1..Len(req[p].imgs) /\ req[p].place \in PlaceIds
      BY <1>0, <2>7 DEF PublishPhoto, LocalsOK, Fits, Placed
    <3>2. req'[p] = [req[p] EXCEPT !.next = req[p].next + 1]
      BY <1>0, <2>7, <3>1 DEF PublishPhoto, LocalsOK
    <3>3. req'[p].place = req[p].place /\ req'[p].imgs = req[p].imgs
      BY <3>1, <3>2 DEF PublishReq
    <3>4. pc'[p] \in {"photos", "count"}
      BY <1>0, <2>7, <3>1 DEF PublishPhoto, Goto, LocalsOK
    <3>5. PICK ph : /\ photos' = photos \cup {ph} /\ ph.place = req[p].place
                    /\ ph.img = req[p].imgs[req[p].next]
      <4> DEFINE row == [id |-> Cardinality(photos) + 1, place |-> req[p].place,
                         user |-> req[p].user, pos |-> req[p].pos,
                         img |-> req[p].imgs[req[p].next]]
      <4>1. photos' = photos \cup {row}
        BY <1>1, <2>7 DEF PublishPhoto, Attempt
      <4>2. row.place = req[p].place /\ row.img = req[p].imgs[req[p].next]
        OBVIOUS
      <4> HIDE DEF row
      <4>3. QED
        BY <4>1, <4>2
    <3>6. FirstIsThere(p)'
      <4>1. CASE req[p].next = 1
        <5>1. ph \in PhotosAt(req[p].place)' /\ ph.img = req[p].imgs[1]
          BY <3>5, <4>1, <3>3 DEF PhotosAt
        <5>2. QED
          BY <3>3, <5>1 DEF FirstIsThere, PhotosAt
      <4>2. CASE req[p].next # 1
        <5>1. FirstIsThere(p)
          BY <1>1, <3>1, <4>2 DEF CoverInv
        <5>2. QED
          BY <1>2, <3>3, <5>1, FirstStays
      <4>3. QED
        BY <4>1, <4>2
    <3>7. ASSUME NEW q \in Procs,
                 (pc'[q] = "photos" /\ req'[q].next > 1) \/ pc'[q] \in {"count", "readCover", "setCover"}
          PROVE  FirstIsThere(q)'
      BY <1>1, <1>2, <2>1, <3>6, <3>7, FirstStays DEF CoverInv, OnlyMoves
    <3>8. ASSUME NEW r \in PlaceIds
          PROVE  /\ cover'[r] \in Covers \cup {None} \cup {x.img : x \in PhotosAt(r)'}
                 /\ TestedAt(r)' # {} /\ (~\E q \in Procs : OwesCover(q, r)') => cover'[r] # None
      <4>1. /\ PhotosAt(r) \subseteq PhotosAt(r)'
            /\ r # req[p].place => TestedAt(r)' = TestedAt(r)
        BY <3>5 DEF PhotosAt, TestedAt, AtOrigin
      <4>2. \A q \in Procs : OwesCover(q, r) => OwesCover(q, r)'
        <5>1. \A q \in Procs \ {p} : OwesCover(q, r) => OwesCover(q, r)'
          BY <2>1 DEF OnlyMoves, OwesCover
        <5>2. OwesCover(p, r) => OwesCover(p, r)'
          BY <3>3, <3>4 DEF OwesCover
        <5>3. QED
          BY <5>1, <5>2
      <4>3. r = req[p].place => OwesCover(p, r)'
        BY <3>3, <3>4 DEF OwesCover
      <4>4. /\ cover[r] \in Covers \cup {None} \cup {x.img : x \in PhotosAt(r)}
            /\ TestedAt(r) # {} /\ (~\E q \in Procs : OwesCover(q, r)) => cover[r] # None
        BY <1>1 DEF CoverInv, CoverAccounted
      <4>5. cover'[r] \in Covers \cup {None} \cup {x.img : x \in PhotosAt(r)'}
        BY <3>1, <4>1, <4>4
      <4>6. QED
        BY <3>1, <4>1, <4>2, <4>3, <4>4, <4>5
    <3>9. QED
      BY <3>7, <3>8 DEF CoverInv, CoverAccounted
  <2>8. CASE PublishSetCover(p)
    <3>1. pc[p] = "setCover" /\ req' = req /\ photos' = photos /\ req[p] \in PublishReq
          /\ req[p].place \in PlaceIds
      BY <1>0, <2>8 DEF PublishSetCover, LocalsOK, Fits, Placed
    <3>2. pc'[p] = "footprint"
      BY <1>0, <2>8 DEF PublishSetCover, Goto, LocalsOK
    <3>3. cover' = UpdateRow(cover, req[p].place, req[p].imgs[1])
      BY <1>1, <2>8 DEF PublishSetCover, Attempt
    <3>4. PICK ph \in PhotosAt(req[p].place) : ph.img = req[p].imgs[1]
      BY <1>1, <3>1 DEF CoverInv, FirstIsThere
    <3>5. req[p].imgs[1] # None
      <4>1. ph.img \in Images
        BY <1>0 DEF TablesOK, PhotosAt, Photo
      <4>2. QED
        BY <3>4, <4>1, PlacesAssumption
    <3>6. ASSUME NEW q \in Procs,
                 (pc'[q] = "photos" /\ req'[q].next > 1) \/ pc'[q] \in {"count", "readCover", "setCover"}
          PROVE  FirstIsThere(q)'
      BY <1>1, <1>2, <2>1, <3>2, <3>6, FirstStays DEF CoverInv, OnlyMoves
    <3>7. ASSUME NEW r \in PlaceIds
          PROVE  /\ cover'[r] \in Covers \cup {None} \cup {x.img : x \in PhotosAt(r)'}
                 /\ TestedAt(r)' # {} /\ (~\E q \in Procs : OwesCover(q, r)') => cover'[r] # None
      <4>1. PhotosAt(r)' = PhotosAt(r) /\ TestedAt(r)' = TestedAt(r)
        BY <3>1 DEF PhotosAt, TestedAt, AtOrigin
      <4>2. CASE r = req[p].place /\ Exists(r)
        <5>1. cover'[r] = req[p].imgs[1]
          BY <1>0, <3>3, <4>2 DEF TablesOK, UpdateRow
        <5>2. QED
          BY <3>4, <3>5, <4>1, <4>2, <5>1
      <4>4. CASE r = req[p].place /\ ~Exists(r)
        <5>1. cover'[r] = cover[r]
          BY <3>3, <4>4 DEF UpdateRow
        <5>2. TestedAt(r) = {}
          BY <4>4, NoneTestedWithoutRow
        <5>3. QED
          BY <1>1, <4>1, <5>1, <5>2 DEF CoverInv, CoverAccounted
      <4>3. CASE r # req[p].place
        <5>1. cover'[r] = cover[r]
          BY <1>0, <3>3, <4>3 DEF TablesOK, UpdateRow
        <5>2. \A q \in Procs : OwesCover(q, r) => OwesCover(q, r)'
          BY <2>1, <4>3 DEF OnlyMoves, OwesCover
        <5>3. QED
          BY <1>1, <4>1, <5>1, <5>2 DEF CoverInv, CoverAccounted
      <4>5. QED
        BY <4>2, <4>3, <4>4
    <3>8. QED
      BY <3>6, <3>7 DEF CoverInv, CoverAccounted
  <2>9. QED
    BY <1>6, <2>2, <2>3, <2>4, <2>5, <2>6, <2>7, <2>8 DEF Continue
<1>7. QED
  BY <1>3, <1>4, <1>5, <1>6 DEF Next

\* As long as nothing fails, a cover is its creator's or the image of a photo
\* published at the place, and a place with photos has one once its publishers
\* are past that step.
THEOREM CoversAccounted == Spec => []CoverAccounted
<1>1. Init => NearInv /\ CoverInv
  BY DEF Init, NearInv, PhotosNearTheirPlace, CoverInv, CoverAccounted, PhotosAt, TestedAt
<1>2. TypeOK /\ NearInv /\ [Next]_vars => NearInv'
  BY NearInvStep
<1>3. CoverInv => CoverAccounted
  BY DEF CoverInv
<1>4. QED
  BY <1>1, <1>2, <1>3, CoverInvStep, TypeCorrect, PTL DEF Spec

=============================================================================
