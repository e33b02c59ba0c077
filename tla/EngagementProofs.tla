-------------------------- MODULE EngagementProofs --------------------------
(***************************************************************************)
(* Proofs about Engagement, for any number of goroutines, users, photos,   *)
(* requests and failures.                                                  *)
(***************************************************************************)
EXTENDS Engagement, SumProofs

Labels == {"idle", "commentInsert", "commentCount"} \cup Toggling
Req    == [user : Users, photo : PhotoIds]

\* The parts of TypeOK that the proofs rest on: all but favourites, views and the
\* likes of places, which no other variable depends on, and the bounds.
RowsOK   == likes \in SUBSET (Users \X PhotoIds) /\ comments \in [Photos -> Nat]
CountsOK == likeCount \in [Photos -> Nat] /\ commentCount \in [Photos -> Nat]
NotesOK  == faults \in Nat /\ careless \in Nat
LocalsOK ==
  /\ pc \in [Procs -> Labels]
  /\ req \in [Procs -> Req \cup {None}]
  /\ \A p \in Procs :
       /\ pc[p] # "idle" => req[p] \in Req
       /\ pc[p] \in {"likeRefresh", "commentInsert", "commentCount"} => req[p].photo \in Photos
Shape == RowsOK /\ CountsOK /\ NotesOK /\ LocalsOK

-----------------------------------------------------------------------------
(* The shape of rows, counts and local variables.                           *)

\* The floor under a decrement.
LEMMA Floor ==
  ASSUME NEW a \in Int
  PROVE  Max({a, 0}) = IF a >= 0 THEN a ELSE 0
<1>1. \E x \in {a, 0} : \A y \in {a, 0} : x >= y
  OBVIOUS
<1>2. Max({a, 0}) \in {a, 0} /\ \A y \in {a, 0} : Max({a, 0}) >= y
  BY <1>1 DEF Max
<1>3. QED
  BY <1>2

\* The request of a goroutine at work.
LEMMA AtWork ==
  ASSUME LocalsOK, NEW p \in Procs, pc[p] # "idle"
  PROVE  /\ req[p] \in Req /\ req[p].user \in Users /\ req[p].photo \in PhotoIds
         /\ pc[p] \in {"likeRefresh", "commentInsert", "commentCount"} => req[p].photo \in Photos
BY DEF LocalsOK, Req

\* A goroutine takes a request at a first statement and leaves the others alone.
Accepted(p) ==
  /\ pc[p] = "idle"
  /\ \E r \in Req, l \in {"likeInsert", "unlikeDelete", "commentInsert"} :
       /\ l = "commentInsert" => r.photo \in Photos
       /\ req' = [req EXCEPT ![p] = r]
       /\ pc' = [pc EXCEPT ![p] = l]

\* A goroutine goes on to a further statement of its request.
WentOn(p) ==
  /\ req' = req
  /\ \E l \in Labels \ {"idle", "likeInsert", "unlikeDelete", "commentInsert"} :
       /\ l = "commentCount" => pc[p] = "commentInsert"
       /\ l = "likeRefresh" => req[p].photo \in Photos
       /\ pc' = [pc EXCEPT ![p] = l]
  /\ pc[p] # "idle"

\* A goroutine answers its request.
Answered(p) ==
  /\ pc[p] # "idle"
  /\ req' = [req EXCEPT ![p] = None]
  /\ pc' = [pc EXCEPT ![p] = "idle"]

\* What an action does to the local variables.
LEMMA AcceptMoves ==
  ASSUME Shape, NEW p \in Procs, Like(p) \/ Unlike(p) \/ Comment(p)
  PROVE  Accepted(p)
<1>1. ASSUME NEW u \in Users, NEW ph \in PhotoIds,
             NEW l \in {"likeInsert", "unlikeDelete", "commentInsert"},
             Accept(p, u, ph, l), l = "commentInsert" => ph \in Photos
      PROVE  Accepted(p)
  <2>1. [user |-> u, photo |-> ph] \in Req /\ [user |-> u, photo |-> ph].photo = ph
    BY DEF Req
  <2>2. QED
    BY <1>1, <2>1 DEF Accepted, Accept, Goto
<1>2. CASE Like(p)
  BY <1>1, <1>2 DEF Like, Toggle
<1>3. CASE Unlike(p)
  BY <1>1, <1>3 DEF Unlike, Toggle
<1>4. CASE Comment(p)
  <2>1. Photos \subseteq PhotoIds
    BY EngagementAssumption
  <2>2. QED
    BY <1>1, <1>4, <2>1 DEF Comment
<1>5. QED
  BY <1>2, <1>3, <1>4

LEMMA ContinueMoves ==
  ASSUME Shape, NEW p \in Procs, Continue(p)
  PROVE  WentOn(p) \/ Answered(p)
<1> USE DEF WentOn, Answered, Labels, Toggling, Goto, Finish
<1>1. CASE LikeInsert(p)
  BY <1>1 DEF LikeInsert
<1>2. CASE LikeIncrement(p)
  BY <1>2 DEF LikeIncrement
<1>3. CASE LikeFindPlace(p)
  BY <1>3 DEF LikeFindPlace
<1>4. CASE LikeRefresh(p)
  BY <1>4 DEF LikeRefresh
<1>5. CASE UnlikeDelete(p)
  BY <1>5 DEF UnlikeDelete
<1>6. CASE UnlikeDecrement(p)
  BY <1>6 DEF UnlikeDecrement
<1>7. CASE CommentInsert(p)
  BY <1>7 DEF CommentInsert
<1>8. CASE CommentIncrement(p)
  BY <1>8 DEF CommentIncrement
<1>9. QED
  BY <1>1, <1>2, <1>3, <1>4, <1>5, <1>6, <1>7, <1>8 DEF Continue

LEMMA LocalsOKStep ==
  ASSUME Shape, [Next]_vars
  PROVE  LocalsOK'
<1>1. CASE UNCHANGED <<pc, req>>
  BY <1>1 DEF Shape, LocalsOK
<1>2. ASSUME NEW p \in Procs, Accepted(p)
      PROVE  LocalsOK'
  BY <1>2 DEF Shape, LocalsOK, Accepted, Labels, Toggling
<1>3. ASSUME NEW p \in Procs, WentOn(p)
      PROVE  LocalsOK'
  BY <1>3 DEF Shape, LocalsOK, WentOn, Labels, Toggling
<1>4. ASSUME NEW p \in Procs, Answered(p)
      PROVE  LocalsOK'
  BY <1>4 DEF Shape, LocalsOK, Answered, Labels
<1>5. CASE Crash
  BY <1>5 DEF Crash, LocalsOK, Labels
<1>6. UNCHANGED vars \/ GetPhotoDetail \/ FavoritePhoto => UNCHANGED <<pc, req>>
  BY DEF vars, GetPhotoDetail, FavoritePhoto
<1>7. QED
  BY <1>1, <1>2, <1>3, <1>4, <1>5, <1>6, AcceptMoves, ContinueMoves DEF Next

\* The notes of what clients and failures did only grow.
LEMMA NotesGrow ==
  ASSUME [Next]_vars
  PROVE  faults' \in {faults, faults + 1} /\ careless' \in {careless, careless + 1}
<1>1. ASSUME NEW p \in Procs, Like(p) \/ Unlike(p) \/ Comment(p)
      PROVE  faults' = faults /\ careless' \in {careless, careless + 1}
  BY <1>1 DEF Like, Unlike, Toggle, Comment
<1>2. ASSUME NEW p \in Procs, LikeInsert(p)
      PROVE  faults' \in {faults, faults + 1} /\ careless' = careless
  BY <1>2 DEF LikeInsert, Attempt, Fault
<1>3. ASSUME NEW p \in Procs, LikeIncrement(p)
      PROVE  faults' \in {faults, faults + 1} /\ careless' = careless
  BY <1>3 DEF LikeIncrement, Attempt, Fault
<1>4. ASSUME NEW p \in Procs, LikeFindPlace(p) \/ CommentInsert(p)
      PROVE  faults' \in {faults, faults + 1} /\ careless' = careless
  BY <1>4 DEF LikeFindPlace, CommentInsert, Fault
<1>5. ASSUME NEW p \in Procs, LikeRefresh(p)
      PROVE  faults' \in {faults, faults + 1} /\ careless' = careless
  BY <1>5 DEF LikeRefresh, Attempt, Fault
<1>6. ASSUME NEW p \in Procs, UnlikeDelete(p)
      PROVE  faults' \in {faults, faults + 1} /\ careless' = careless
  BY <1>6 DEF UnlikeDelete, Attempt, Fault
<1>7. ASSUME NEW p \in Procs, UnlikeDecrement(p)
      PROVE  faults' \in {faults, faults + 1} /\ careless' = careless
  BY <1>7 DEF UnlikeDecrement, Attempt, Fault
<1>8. ASSUME NEW p \in Procs, CommentIncrement(p)
      PROVE  faults' \in {faults, faults + 1} /\ careless' = careless
  BY <1>8 DEF CommentIncrement, Attempt, Fault
<1>9. ASSUME GetPhotoDetail \/ FavoritePhoto \/ Crash
       PROVE  faults' \in {faults, faults + 1} /\ careless' = careless
  BY <1>9 DEF GetPhotoDetail, FavoritePhoto, Crash, Attempt, Fault
<1>10. QED
  BY <1>1, <1>2, <1>3, <1>4, <1>5, <1>6, <1>7, <1>8, <1>9 DEF Next, Continue, vars

\* Rows and counts keep their shape: the floor keeps like_count from going below 0.
LEMMA TablesOKStep ==
  ASSUME Shape, [Next]_vars
  PROVE  RowsOK' /\ CountsOK' /\ NotesOK'
<1>1. ASSUME UNCHANGED <<likes, comments>>
      PROVE  RowsOK'
  BY <1>1 DEF Shape, RowsOK
<1>2. ASSUME UNCHANGED <<likeCount, commentCount>>
      PROVE  CountsOK'
  BY <1>2 DEF Shape, CountsOK
<1>3. NotesOK'
  BY NotesGrow DEF Shape, NotesOK
<1>4. ASSUME NEW p \in Procs, Like(p) \/ Unlike(p) \/ Comment(p) \/ LikeFindPlace(p) \/ LikeRefresh(p)
      PROVE  UNCHANGED <<likes, comments, likeCount, commentCount>>
  BY <1>4 DEF Like, Unlike, Toggle, Comment, LikeFindPlace, LikeRefresh, rows, counts
<1>5. ASSUME NEW p \in Procs, LikeInsert(p)
      PROVE  RowsOK' /\ CountsOK'
  <2>1. <<req[p].user, req[p].photo>> \in Users \X PhotoIds
    BY <1>5, AtWork DEF LikeInsert, Shape
  <2>2. QED
    BY <1>2, <1>5, <2>1 DEF LikeInsert, Attempt, Shape, RowsOK, counts
<1>6. ASSUME NEW p \in Procs, UnlikeDelete(p)
      PROVE  RowsOK' /\ CountsOK'
  BY <1>2, <1>6 DEF UnlikeDelete, Attempt, Shape, RowsOK, counts
<1>7. ASSUME NEW p \in Procs, LikeIncrement(p)
      PROVE  RowsOK' /\ CountsOK'
  BY <1>1, <1>7 DEF LikeIncrement, Attempt, OnRow, Shape, CountsOK, rows
<1>8. ASSUME NEW p \in Procs, UnlikeDecrement(p)
      PROVE  RowsOK' /\ CountsOK'
  <2>1. req[p].photo \in Photos => Max({likeCount[req[p].photo] - 1, 0}) \in Nat
    BY Floor DEF Shape, CountsOK
  <2>2. QED
    BY <1>1, <1>8, <2>1 DEF UnlikeDecrement, Attempt, OnRow, Shape, CountsOK, rows
<1>9. ASSUME NEW p \in Procs, CommentInsert(p)
      PROVE  RowsOK' /\ CountsOK'
  BY <1>2, <1>9 DEF CommentInsert, Shape, RowsOK, counts
<1>10. ASSUME NEW p \in Procs, CommentIncrement(p)
       PROVE  RowsOK' /\ CountsOK'
  BY <1>1, <1>10 DEF CommentIncrement, Attempt, Shape, CountsOK, rows
<1>11. GetPhotoDetail \/ FavoritePhoto \/ Crash \/ UNCHANGED vars
         => UNCHANGED <<likes, comments, likeCount, commentCount>>
  BY DEF GetPhotoDetail, FavoritePhoto, Crash, vars, rows, counts
<1>12. QED
  BY <1>1, <1>2, <1>3, <1>4, <1>5, <1>6, <1>7, <1>8, <1>9, <1>10, <1>11 DEF Next, Continue

LEMMA InitShape == Init => Shape
BY DEF Init, Shape, RowsOK, CountsOK, NotesOK, LocalsOK, Labels

LEMMA ShapeStep == Shape /\ [Next]_vars => Shape'
BY LocalsOKStep, TablesOKStep DEF Shape

\* Rows, counts and local variables keep their types, whatever clients send and
\* whatever fails; no like_count goes below zero.
THEOREM TypesKept == Spec => []Shape
BY InitShape, ShapeStep, PTL DEF Spec

-----------------------------------------------------------------------------
(* Goroutines at a statement for a photo.                                   *)

LEMMA AtFinite ==
  ASSUME NEW l, NEW ph
  PROVE  IsFiniteSet(At(l, ph)) /\ Cardinality(At(l, ph)) \in Nat
<1>1. At(l, ph) \in SUBSET Procs
  BY DEF At
<1>2. QED
  BY <1>1, EngagementAssumption, FS_Subset, FS_CardinalityType

LEMMA LikersFinite ==
  ASSUME NEW ph
  PROVE  IsFiniteSet(Likers(ph)) /\ Cardinality(Likers(ph)) \in Nat
<1>1. Likers(ph) \in SUBSET Users
  BY DEF Likers
<1>2. QED
  BY <1>1, EngagementAssumption, FS_Subset, FS_CardinalityType

\* A goroutine that takes a request is at no increment or decrement.
LEMMA AtAfterAccept ==
  ASSUME Shape, NEW p \in Procs, Accepted(p),
         NEW l \in {"likeCount", "unlikeCount", "commentCount"}, NEW ph
  PROVE  At(l, ph)' = At(l, ph)
BY DEF Accepted, At, Shape, LocalsOK

\* A goroutine goes on to statement `n`, or answers.
MoveTo(p, n) ==
  /\ n # pc[p]
  /\ pc' = [pc EXCEPT ![p] = n]
  /\ req' = req \/ (n = "idle" /\ req' = [req EXCEPT ![p] = None])

\* This changes the number of those at the statement it leaves and at the one it
\* goes to, for its photo.
LEMMA CountAfterMove ==
  ASSUME Shape, NEW p \in Procs, NEW n, MoveTo(p, n), NEW l, l # "idle", NEW ph
  PROVE  /\ (pc[p] # l /\ n # l) \/ req[p].photo # ph
              => Cardinality(At(l, ph))' = Cardinality(At(l, ph))
         /\ pc[p] = l /\ req[p].photo = ph
              => /\ Cardinality(At(l, ph))' = Cardinality(At(l, ph)) - 1
                 /\ Cardinality(At(l, ph)) >= 1
         /\ n = l /\ req[p].photo = ph
              => Cardinality(At(l, ph))' = Cardinality(At(l, ph)) + 1
<1>1. CASE (pc[p] # l /\ n # l) \/ req[p].photo # ph
  <2>1. At(l, ph)' = At(l, ph)
    BY <1>1 DEF MoveTo, At, Shape, LocalsOK
  <2>2. QED
    BY <1>1, <2>1
<1>2. CASE pc[p] = l /\ req[p].photo = ph
  <2>1. p \in At(l, ph) /\ At(l, ph)' = At(l, ph) \ {p}
    BY <1>2 DEF MoveTo, At, Shape, LocalsOK
  <2>2. Cardinality(At(l, ph) \ {p}) = Cardinality(At(l, ph)) - 1
    BY <2>1, AtFinite, FS_RemoveElement
  <2>3. Cardinality(At(l, ph)) \in Nat /\ Cardinality(At(l, ph)) # 0
    BY <2>1, AtFinite, FS_EmptySet
  <2>4. QED
    BY <1>2, <2>1, <2>2, <2>3 DEF MoveTo
<1>3. CASE n = l /\ req[p].photo = ph
  <2>1. p \notin At(l, ph) /\ At(l, ph)' = At(l, ph) \cup {p}
    BY <1>3 DEF MoveTo, At, Shape, LocalsOK
  <2>2. Cardinality(At(l, ph) \cup {p}) = Cardinality(At(l, ph)) + 1
    BY <2>1, AtFinite, FS_AddElement
  <2>3. QED
    BY <1>3, <2>1, <2>2 DEF MoveTo
<1>4. QED
  BY <1>1, <1>2, <1>3

\* A crash leaves nobody at work.
LEMMA AtAfterCrash ==
  ASSUME Crash, NEW l, l # "idle", NEW ph
  PROVE  Cardinality(At(l, ph))' = 0
<1>1. At(l, ph)' = {}
  BY DEF Crash, At
<1>2. QED
  BY <1>1, FS_EmptySet

\* Views and favourites are nobody's next statement.
LEMMA Elsewhere ==
  ASSUME GetPhotoDetail \/ FavoritePhoto \/ UNCHANGED vars
  PROVE  UNCHANGED <<likes, comments, likeCount, commentCount, pc, req, careless>>
BY DEF GetPhotoDetail, FavoritePhoto, vars, counts, rows

-----------------------------------------------------------------------------
(* Comments.  A goroutine between its INSERT and its increment owes one.    *)

Shown(ph) == commentCount[ph] + Cardinality(At("commentCount", ph))

LEMMA CommentCountStep ==
  ASSUME Shape, CommentCountAccounted, [Next]_vars
  PROVE  CommentCountAccounted'
<1> SUFFICES ASSUME NEW ph \in Photos
             PROVE  Shown(ph)' <= comments'[ph] /\ (faults' = 0 => Shown(ph)' = comments'[ph])
  BY DEF CommentCountAccounted, Shown
<1> DEFINE n == Cardinality(At("commentCount", ph))
<1>1. /\ commentCount[ph] \in Nat /\ comments[ph] \in Nat /\ n \in Nat /\ n' \in Nat
      /\ commentCount[ph] + n <= comments[ph]
      /\ faults = 0 => commentCount[ph] + n = comments[ph]
      /\ faults \in Nat /\ (faults' = 0 => faults = 0)
  <2>1. n' \in Nat
    BY AtFinite, EngagementAssumption, FS_Subset, FS_CardinalityType DEF At
  <2>2. faults \in Nat /\ (faults' = 0 => faults = 0)
    BY NotesGrow DEF Shape, NotesOK
  <2>3. QED
    BY <2>1, <2>2, AtFinite DEF Shape, RowsOK, CountsOK, CommentCountAccounted
<1>2. ASSUME UNCHANGED <<comments, commentCount>>, n' = n
      PROVE  Shown(ph)' <= comments'[ph] /\ (faults' = 0 => Shown(ph)' = comments'[ph])
  BY <1>1, <1>2 DEF Shown
<1>3. ASSUME NEW p \in Procs, CommentInsert(p)
      PROVE  Shown(ph)' <= comments'[ph] /\ (faults' = 0 => Shown(ph)' = comments'[ph])
  <2>1. pc[p] = "commentInsert" /\ req[p].photo \in Photos
        /\ UNCHANGED commentCount /\ comments \in [Photos -> Nat] /\ pc \in [Procs -> Labels]
    BY <1>3, AtWork DEF CommentInsert, counts, Shape, RowsOK, LocalsOK
  <2>2. CASE Goto(p, "commentCount") /\ UNCHANGED req
             /\ comments' = [comments EXCEPT ![req[p].photo] = @ + 1]
    <3>1. MoveTo(p, "commentCount")
      BY <2>1, <2>2 DEF MoveTo, Goto
    <3>2. n' = IF req[p].photo = ph THEN n + 1 ELSE n
      BY <2>1, <3>1, CountAfterMove
    <3>3. comments'[ph] = IF req[p].photo = ph THEN comments[ph] + 1 ELSE comments[ph]
      BY <2>1, <2>2
    <3>4. QED
      BY <1>1, <2>1, <3>2, <3>3 DEF Shown
  <2>3. CASE Finish(p) /\ Fault /\ (\/ comments' = [comments EXCEPT ![req[p].photo] = @ + 1]
                                    \/ UNCHANGED comments)
    <3>1. MoveTo(p, "idle")
      BY <2>1, <2>3 DEF MoveTo, Finish, Goto
    <3>2. n' = n
      BY <2>1, <3>1, CountAfterMove
    <3>3. comments'[ph] \in Nat /\ comments'[ph] >= comments[ph] /\ faults' # 0
      BY <1>1, <2>1, <2>3 DEF Fault
    <3>4. QED
      BY <1>1, <2>1, <3>2, <3>3 DEF Shown
  <2>4. QED
    BY <1>3, <2>2, <2>3 DEF CommentInsert
<1>4. ASSUME NEW p \in Procs, CommentIncrement(p)
      PROVE  Shown(ph)' <= comments'[ph] /\ (faults' = 0 => Shown(ph)' = comments'[ph])
  <2>1. pc[p] = "commentCount" /\ req[p].photo \in Photos /\ Finish(p)
        /\ UNCHANGED comments /\ commentCount \in [Photos -> Nat]
    BY <1>4, AtWork DEF CommentIncrement, rows, Shape, CountsOK
  <2>2. n' = IF req[p].photo = ph THEN n - 1 ELSE n
    <3>1. MoveTo(p, "idle")
      BY <2>1 DEF MoveTo, Finish, Goto
    <3>2. QED
      BY <2>1, <3>1, CountAfterMove
  <2>3. CASE commentCount' = [commentCount EXCEPT ![req[p].photo] = @ + 1]
    <3>1. commentCount'[ph] = IF req[p].photo = ph THEN commentCount[ph] + 1 ELSE commentCount[ph]
      BY <2>1, <2>3
    <3>2. QED
      BY <1>1, <2>1, <2>2, <3>1 DEF Shown
  <2>4. CASE Fault /\ UNCHANGED commentCount
    BY <1>1, <2>1, <2>2, <2>4 DEF Shown, Fault
  <2>5. QED
    BY <1>4, <2>3, <2>4 DEF CommentIncrement, Attempt
<1>5. ASSUME NEW p \in Procs, Like(p) \/ Unlike(p) \/ Comment(p)
      PROVE  Shown(ph)' <= comments'[ph] /\ (faults' = 0 => Shown(ph)' = comments'[ph])
  <2>1. UNCHANGED <<comments, commentCount>>
    BY <1>5 DEF Like, Unlike, Toggle, Comment, rows, counts
  <2>2. At("commentCount", ph)' = At("commentCount", ph)
    BY <1>5, AcceptMoves, AtAfterAccept
  <2>3. QED
    BY <1>2, <2>1, <2>2
<1>6. ASSUME NEW p \in Procs, LikeInsert(p) \/ LikeIncrement(p) \/ LikeFindPlace(p) \/ LikeRefresh(p)
                              \/ UnlikeDelete(p) \/ UnlikeDecrement(p)
      PROVE  Shown(ph)' <= comments'[ph] /\ (faults' = 0 => Shown(ph)' = comments'[ph])
  <2>1. /\ UNCHANGED <<comments, commentCount>>
        /\ pc[p] \in Toggling
        /\ \E m \in {"likeCount", "likePlace", "likeRefresh", "unlikeCount", "idle"} : MoveTo(p, m)
    BY <1>6 DEF LikeInsert, LikeIncrement, LikeFindPlace, LikeRefresh, UnlikeDelete,
                UnlikeDecrement, rows, counts, Toggling, Finish, Goto, MoveTo
  <2>2. n' = n
    BY <2>1, CountAfterMove DEF Toggling
  <2>3. QED
    BY <1>2, <2>1, <2>2
<1>7. CASE Crash
  <2>1. n' = 0 /\ UNCHANGED <<comments, commentCount>> /\ faults' # 0
    BY <1>1, <1>7, AtAfterCrash DEF Crash, Fault, rows, counts
  <2>2. QED
    BY <1>1, <2>1 DEF Shown
<1>8. CASE GetPhotoDetail \/ FavoritePhoto \/ UNCHANGED vars
  <2>1. UNCHANGED <<comments, commentCount>> /\ At("commentCount", ph)' = At("commentCount", ph)
    BY <1>8, Elsewhere DEF At
  <2>2. QED
    BY <1>2, <2>1
<1>9. QED
  BY <1>3, <1>4, <1>5, <1>6, <1>7, <1>8 DEF Next, Continue

LEMMA InitAt ==
  ASSUME Init, NEW l, l # "idle", NEW ph
  PROVE  Cardinality(At(l, ph)) = 0
<1>1. At(l, ph) = {}
  BY DEF Init, At
<1>2. QED
  BY <1>1, FS_EmptySet

\* A comment_count, with the increments on their way, never exceeds the comments,
\* and while nothing fails it is their number.
THEOREM CommentCountsAccounted == Spec => []CommentCountAccounted
<1>1. Init => CommentCountAccounted
  BY InitAt DEF Init, CommentCountAccounted
<1>2. Shape /\ CommentCountAccounted /\ [Next]_vars => CommentCountAccounted'
  BY CommentCountStep
<1>3. QED
  BY <1>1, <1>2, TypesKept, PTL DEF Spec

-----------------------------------------------------------------------------
(* Likes.  While clients are careful and nothing fails, a goroutine has its *)
(* user and photo to itself, and knows whether there is a row for them.     *)

Pair(p) == <<req[p].user, req[p].photo>>

Quiet == faults = 0 /\ careless = 0

Alone(p) ==
  /\ req[p].photo \in Photos
  /\ Pair(p) \in likes <=> pc[p] \notin {"likeInsert", "unlikeCount"}
  /\ \A q \in Procs : q # p /\ pc[q] \in Toggling => Pair(q) # Pair(p)

CarefulInv == Quiet => \A p \in Procs : pc[p] \in Toggling => Alone(p)

\* It is quiet after a step only if it was quiet before.
LEMMA QuietBefore ==
  ASSUME Shape, [Next]_vars, Quiet'
  PROVE  Quiet /\ faults' = faults /\ careless' = careless
BY NotesGrow DEF Shape, NotesOK, Quiet

\* No likes change and nobody starts to toggle: the others stay alone.
LEMMA AloneStays ==
  ASSUME Shape, NEW p \in Procs, \A q \in Procs : pc[q] \in Toggling => Alone(q),
         NEW m, m # "likeInsert", m # "unlikeDelete",
         pc' = [pc EXCEPT ![p] = m],
         \/ req' = req /\ (m \in Toggling => pc[p] \in Toggling)
         \/ m \notin Toggling /\ \E r : req' = [req EXCEPT ![p] = r],
         \/ likes' = likes /\ (m \in Toggling => m # "unlikeCount" /\ pc[p] # "likeInsert" /\ pc[p] # "unlikeCount")
         \/ likes' = likes \cup {Pair(p)} /\ pc[p] \in Toggling /\ m \in Toggling /\ m # "unlikeCount"
         \/ likes' = likes \ {Pair(p)} /\ pc[p] \in Toggling /\ m = "unlikeCount"
  PROVE  \A q \in Procs : pc'[q] \in Toggling => Alone(q)'
<1> SUFFICES ASSUME NEW q \in Procs, pc'[q] \in Toggling
             PROVE  Alone(q)'
  OBVIOUS
<1>1. \A o \in Procs : pc'[o] \in Toggling => pc[o] \in Toggling /\ req'[o] = req[o]
  BY DEF Shape, LocalsOK
<1>2. Alone(q) /\ pc[q] \in Toggling /\ req'[q] = req[q]
  BY <1>1
<1>3. \A o \in Procs : o # q /\ pc'[o] \in Toggling => Pair(o)' # Pair(q)'
  BY <1>1, <1>2 DEF Alone, Pair
<1>4. Pair(q)' \in likes' <=> pc'[q] \notin {"likeInsert", "unlikeCount"}
  <2>1. CASE q = p
    BY <1>2, <2>1 DEF Alone, Pair, Shape, LocalsOK
  <2>2. CASE q # p
    <3>1. pc'[q] = pc[q] /\ (pc[p] \in Toggling => Pair(p) # Pair(q))
      BY <1>2, <2>2 DEF Alone, Shape, LocalsOK
    <3>2. Pair(q)' = Pair(q)
      BY <1>2 DEF Pair
    <3>3. QED
      BY <1>2, <3>1, <3>2 DEF Alone
  <2>3. QED
    BY <2>1, <2>2
<1>5. QED
  BY <1>2, <1>3, <1>4 DEF Alone

\* A careful client starts a toggle.
LEMMA AloneStarts ==
  ASSUME Shape, NEW p \in Procs, \A q \in Procs : pc[q] \in Toggling => Alone(q),
         NEW u \in Users, NEW ph \in PhotoIds, NEW stored \in BOOLEAN,
         Toggle(p, u, ph, stored, IF stored THEN "unlikeDelete" ELSE "likeInsert"),
         careless' = careless, careless \in Nat
  PROVE  \A q \in Procs : pc'[q] \in Toggling => Alone(q)'
<1> DEFINE l == IF stored THEN "unlikeDelete" ELSE "likeInsert"
<1>1. /\ Careful(u, ph, stored)
      /\ pc[p] = "idle" /\ pc' = [pc EXCEPT ![p] = l]
      /\ req' = [req EXCEPT ![p] = [user |-> u, photo |-> ph]]
      /\ likes' = likes
  BY DEF Toggle, Accept, Goto, rows
<1>2. /\ pc'[p] = l /\ req'[p].user = u /\ req'[p].photo = ph /\ Pair(p)' = <<u, ph>>
      /\ \A q \in Procs \ {p} : pc'[q] = pc[q] /\ req'[q] = req[q] /\ Pair(q)' = Pair(q)
  BY <1>1 DEF Shape, LocalsOK, Pair
<1>3. \A q \in Procs : pc[q] \in Toggling => Pair(q) # <<u, ph>>
  BY <1>1 DEF Careful, Pair
<1>4. ASSUME NEW q \in Procs \ {p}, pc'[q] \in Toggling
      PROVE  Alone(q)'
  <2>1. Alone(q) /\ Pair(q) # <<u, ph>>
    BY <1>2, <1>3, <1>4
  <2>2. \A o \in Procs : o # q /\ pc'[o] \in Toggling => Pair(o)' # Pair(q)'
    BY <1>2, <2>1 DEF Alone
  <2>3. QED
    BY <1>1, <1>2, <1>4, <2>1, <2>2 DEF Alone
<1>5. Alone(p)'
  <2>1. ph \in Photos /\ (<<u, ph>> \in likes) = stored
    BY <1>1 DEF Careful
  <2>2. \A o \in Procs : o # p /\ pc'[o] \in Toggling => Pair(o)' # Pair(p)'
    BY <1>2, <1>3
  <2>3. QED
    BY <1>1, <1>2, <2>1, <2>2 DEF Alone
<1>6. QED
  BY <1>4, <1>5

LEMMA CarefulInvStep ==
  ASSUME Shape, CarefulInv, [Next]_vars
  PROVE  CarefulInv'
<1> SUFFICES ASSUME Quiet'
             PROVE  \A q \in Procs : pc'[q] \in Toggling => Alone(q)'
  BY DEF CarefulInv
<1>1. /\ faults' = faults /\ careless' = careless /\ ~Fault /\ careless \in Nat
      /\ \A q \in Procs : pc[q] \in Toggling => Alone(q)
  BY QuietBefore DEF CarefulInv, Fault, Shape, NotesOK, Quiet
<1>2. ASSUME NEW p \in Procs, Like(p) \/ Unlike(p)
      PROVE  \A q \in Procs : pc'[q] \in Toggling => Alone(q)'
  BY <1>1, <1>2, AloneStarts DEF Like, Unlike
<1>3. ASSUME NEW p \in Procs, Comment(p)
      PROVE  \A q \in Procs : pc'[q] \in Toggling => Alone(q)'
  <2>1. /\ pc' = [pc EXCEPT ![p] = "commentInsert"] /\ likes' = likes
        /\ \E r : req' = [req EXCEPT ![p] = r]
    BY <1>3 DEF Comment, Accept, Goto, rows
  <2>2. QED
    BY <1>1, <2>1, AloneStays DEF Toggling
<1>4. ASSUME NEW p \in Procs, LikeInsert(p)
      PROVE  \A q \in Procs : pc'[q] \in Toggling => Alone(q)'
  <2>1. /\ pc[p] = "likeInsert" /\ pc' = [pc EXCEPT ![p] = "likeCount"]
        /\ likes' = likes \cup {Pair(p)} /\ req' = req
    BY <1>1, <1>4 DEF LikeInsert, Attempt, Goto, Pair
  <2>2. QED
    BY <1>1, <2>1, AloneStays DEF Toggling
<1>5. ASSUME NEW p \in Procs, LikeIncrement(p)
      PROVE  \A q \in Procs : pc'[q] \in Toggling => Alone(q)'
  <2>1. /\ pc[p] = "likeCount" /\ pc' = [pc EXCEPT ![p] = "likePlace"]
        /\ likes' = likes /\ req' = req
    BY <1>5 DEF LikeIncrement, Goto, rows
  <2>2. QED
    BY <1>1, <2>1, AloneStays DEF Toggling
<1>6. ASSUME NEW p \in Procs, LikeFindPlace(p), pc' = [pc EXCEPT ![p] = "likeRefresh"], req' = req
      PROVE  \A q \in Procs : pc'[q] \in Toggling => Alone(q)'
  <2>1. pc[p] = "likePlace" /\ likes' = likes
    BY <1>6 DEF LikeFindPlace, rows
  <2>2. QED
    BY <1>1, <1>6, <2>1, AloneStays DEF Toggling
<1>7. ASSUME NEW p \in Procs, UnlikeDelete(p)
      PROVE  \A q \in Procs : pc'[q] \in Toggling => Alone(q)'
  <2>1. /\ pc[p] = "unlikeDelete" /\ pc' = [pc EXCEPT ![p] = "unlikeCount"]
        /\ likes' = likes \ {Pair(p)} /\ req' = req
    BY <1>1, <1>7 DEF UnlikeDelete, Attempt, Goto, Pair
  <2>2. QED
    BY <1>1, <2>1, AloneStays DEF Toggling
<1>8. ASSUME NEW p \in Procs, Finish(p), likes' = likes
      PROVE  \A q \in Procs : pc'[q] \in Toggling => Alone(q)'
  BY <1>1, <1>8, AloneStays DEF Finish, Goto, Toggling
<1>9. ASSUME NEW p \in Procs, CommentInsert(p), Goto(p, "commentCount"), UNCHANGED req
      PROVE  \A q \in Procs : pc'[q] \in Toggling => Alone(q)'
  <2>1. likes' = likes /\ pc' = [pc EXCEPT ![p] = "commentCount"] /\ req' = req
    BY <1>9 DEF CommentInsert, Goto
  <2>2. QED
    BY <1>1, <2>1, AloneStays DEF Toggling
<1>10. ASSUME NEW p \in Procs, Continue(p)
       PROVE  \A q \in Procs : pc'[q] \in Toggling => Alone(q)'
  <2>1. LikeFindPlace(p) \/ LikeRefresh(p) \/ UnlikeDecrement(p) \/ CommentInsert(p)
          \/ CommentIncrement(p) => likes' = likes
    BY DEF LikeFindPlace, LikeRefresh, UnlikeDecrement, CommentInsert, CommentIncrement, rows
  <2>2. LikeRefresh(p) \/ UnlikeDecrement(p) \/ CommentIncrement(p) => Finish(p)
    BY DEF LikeRefresh, UnlikeDecrement, CommentIncrement
  <2>3. LikeFindPlace(p) => Finish(p) \/ (pc' = [pc EXCEPT ![p] = "likeRefresh"] /\ req' = req)
    BY DEF LikeFindPlace, Goto
  <2>4. CommentInsert(p) => Finish(p) \/ (Goto(p, "commentCount") /\ UNCHANGED req)
    BY DEF CommentInsert
  <2>5. QED
    BY <1>4, <1>5, <1>6, <1>7, <1>8, <1>9, <1>10, <2>1, <2>2, <2>3, <2>4 DEF Continue
<1>11. CASE GetPhotoDetail \/ FavoritePhoto \/ UNCHANGED vars
  <2>1. UNCHANGED <<likes, pc, req>>
    BY <1>11, Elsewhere
  <2>2. QED
    BY <1>1, <2>1 DEF Alone, Pair
<1>12. CASE Crash
  BY <1>1, <1>12 DEF Crash
<1>13. QED
  BY <1>2, <1>3, <1>10, <1>11, <1>12 DEF Next

-----------------------------------------------------------------------------
(* The number of likes.                                                     *)

\* There is a row for each increment that is on its way: those who like a photo
\* are different users.
LEMMA IncrementsHaveRows ==
  ASSUME Shape, CarefulInv, Quiet, NEW ph \in Photos
  PROVE  Cardinality(At("likeCount", ph)) <= Cardinality(Likers(ph))
<1> DEFINE f == [p \in At("likeCount", ph) |-> req[p].user]
<1>1. ASSUME NEW p \in At("likeCount", ph)
      PROVE  /\ p \in Procs /\ Alone(p) /\ pc[p] = "likeCount" /\ req[p].photo = ph
             /\ req[p].user \in Likers(ph)
  <2>1. p \in Procs /\ Alone(p) /\ pc[p] = "likeCount" /\ req[p].photo = ph
    BY <1>1 DEF At, CarefulInv, Toggling
  <2>2. Pair(p) \in likes /\ req[p].user \in Users
    BY <2>1, AtWork DEF Alone, Shape
  <2>3. QED
    BY <2>1, <2>2 DEF Likers, Pair
<1>2. f \in [At("likeCount", ph) -> Likers(ph)]
  BY <1>1
<1>3. ASSUME NEW p \in At("likeCount", ph), NEW q \in At("likeCount", ph), f[p] = f[q]
      PROVE  p = q
  <2>1. Pair(p) = Pair(q)
    BY <1>1, <1>3 DEF Pair
  <2>2. QED
    BY <1>1, <2>1 DEF Alone, Toggling
<1>4. f \in Injection(At("likeCount", ph), Likers(ph))
  BY <1>2, <1>3 DEF Injection, IsInjective
<1>5. QED
  BY <1>4, LikersFinite, FS_Injection

\* The equation of LikeCountAccounted.
Balanced(ph) ==
  likeCount[ph] + Cardinality(At("likeCount", ph))
    = Cardinality(Likers(ph)) + Cardinality(At("unlikeCount", ph))

\* One more or one less.
LEMMA LikersStep ==
  ASSUME NEW ph, NEW x
  PROVE  /\ Cardinality(Likers(ph) \cup {x}) =
              IF x \in Likers(ph) THEN Cardinality(Likers(ph)) ELSE Cardinality(Likers(ph)) + 1
         /\ Cardinality(Likers(ph) \ {x}) =
              IF x \in Likers(ph) THEN Cardinality(Likers(ph)) - 1 ELSE Cardinality(Likers(ph))
BY LikersFinite, FS_AddElement, FS_RemoveElement

LEMMA BalancedStep ==
  ASSUME Shape, CarefulInv, [Next]_vars, Quiet', NEW ph \in Photos, Balanced(ph)
  PROVE  Balanced(ph)'
<1> DEFINE c == Cardinality(At("likeCount", ph))
           d == Cardinality(At("unlikeCount", ph))
           n == Cardinality(Likers(ph))
<1>1. Quiet /\ ~Fault
  BY QuietBefore DEF Fault, Shape, NotesOK, Quiet
<1>2. /\ c \in Nat /\ d \in Nat /\ n \in Nat /\ likeCount[ph] \in Nat
      /\ likeCount[ph] + c = n + d /\ c <= n
  BY <1>1, AtFinite, LikersFinite, IncrementsHaveRows DEF Balanced, Shape, CountsOK
<1>3. ASSUME likeCount'[ph] = likeCount[ph], likes' = likes, c' = c, d' = d
      PROVE  Balanced(ph)'
  <2>1. n' = n
    BY <1>3 DEF Likers
  <2>2. QED
    BY <1>2, <1>3, <2>1 DEF Balanced
<1>4. ASSUME NEW p \in Procs, Like(p) \/ Unlike(p) \/ Comment(p)
      PROVE  Balanced(ph)'
  <2>1. UNCHANGED <<likeCount, likes>>
    BY <1>4 DEF Like, Unlike, Toggle, Comment, rows, counts
  <2>2. At("likeCount", ph)' = At("likeCount", ph) /\ At("unlikeCount", ph)' = At("unlikeCount", ph)
    BY <1>4, AcceptMoves, AtAfterAccept
  <2>3. QED
    BY <1>3, <2>1, <2>2
<1>5. ASSUME NEW p \in Procs, NEW m \in {"likePlace", "likeRefresh", "commentCount", "idle"},
             MoveTo(p, m), pc[p] \notin {"likeCount", "unlikeCount"}, UNCHANGED <<likes, likeCount>>
      PROVE  Balanced(ph)'
  BY <1>3, <1>5, CountAfterMove
<1>6. ASSUME NEW p \in Procs, LikeFindPlace(p) \/ LikeRefresh(p) \/ CommentInsert(p) \/ CommentIncrement(p)
      PROVE  Balanced(ph)'
  <2>1. /\ UNCHANGED <<likes, likeCount>> /\ pc[p] \notin {"likeCount", "unlikeCount"}
        /\ \E m \in {"likePlace", "likeRefresh", "commentCount", "idle"} : MoveTo(p, m)
    BY <1>6 DEF LikeFindPlace, LikeRefresh, CommentInsert, CommentIncrement, rows, counts,
                Finish, Goto, MoveTo
  <2>2. QED
    BY <1>5, <2>1
<1>7. ASSUME NEW p \in Procs, LikeInsert(p)
      PROVE  Balanced(ph)'
  <2>1. /\ pc[p] = "likeInsert" /\ MoveTo(p, "likeCount")
        /\ likes' = likes \cup {Pair(p)} /\ likeCount' = likeCount
    BY <1>1, <1>7 DEF LikeInsert, Attempt, Goto, MoveTo, Pair, counts
  <2>2. Pair(p) \notin likes /\ req[p].user \in Users
    BY <1>1, <2>1, AtWork DEF CarefulInv, Alone, Toggling, Shape
  <2>3. d' = d
    BY <2>1, CountAfterMove
  <2>4. CASE req[p].photo = ph
    <3>1. c' = c + 1
      BY <2>1, <2>4, CountAfterMove
    <3>2. req[p].user \notin Likers(ph) /\ Likers(ph)' = Likers(ph) \cup {req[p].user}
      BY <2>1, <2>2, <2>4 DEF Likers, Pair
    <3>3. n' = n + 1
      BY <3>2, LikersStep
    <3>4. QED
      BY <1>2, <2>1, <2>3, <3>1, <3>3 DEF Balanced
  <2>5. CASE req[p].photo # ph
    <3>1. c' = c
      BY <2>1, <2>5, CountAfterMove
    <3>2. Likers(ph)' = Likers(ph)
      BY <2>1, <2>5 DEF Likers, Pair
    <3>3. QED
      BY <1>2, <2>1, <2>3, <3>1, <3>2 DEF Balanced
  <2>6. QED
    BY <2>4, <2>5
<1>8. ASSUME NEW p \in Procs, UnlikeDelete(p)
      PROVE  Balanced(ph)'
  <2>1. /\ pc[p] = "unlikeDelete" /\ MoveTo(p, "unlikeCount")
        /\ likes' = likes \ {Pair(p)} /\ likeCount' = likeCount
    BY <1>1, <1>8 DEF UnlikeDelete, Attempt, Goto, MoveTo, Pair, counts
  <2>2. Pair(p) \in likes /\ req[p].user \in Users
    BY <1>1, <2>1, AtWork DEF CarefulInv, Alone, Toggling, Shape
  <2>3. c' = c
    BY <2>1, CountAfterMove
  <2>4. CASE req[p].photo = ph
    <3>1. d' = d + 1
      BY <2>1, <2>4, CountAfterMove
    <3>2. req[p].user \in Likers(ph) /\ Likers(ph)' = Likers(ph) \ {req[p].user}
      BY <2>1, <2>2, <2>4 DEF Likers, Pair
    <3>3. n' = n - 1
      BY <3>2, LikersStep
    <3>4. QED
      BY <1>2, <2>1, <2>3, <3>1, <3>3 DEF Balanced
  <2>5. CASE req[p].photo # ph
    <3>1. d' = d
      BY <2>1, <2>5, CountAfterMove
    <3>2. Likers(ph)' = Likers(ph)
      BY <2>1, <2>5 DEF Likers, Pair
    <3>3. QED
      BY <1>2, <2>1, <2>3, <3>1, <3>2 DEF Balanced
  <2>6. QED
    BY <2>4, <2>5
<1>9. ASSUME NEW p \in Procs, LikeIncrement(p)
      PROVE  Balanced(ph)'
  <2>1. /\ pc[p] = "likeCount" /\ MoveTo(p, "likePlace") /\ likes' = likes
        /\ likeCount' = OnRow(likeCount, req[p].photo, likeCount[req[p].photo] + 1)
    BY <1>1, <1>9 DEF LikeIncrement, Attempt, Goto, MoveTo, rows
  <2>2. d' = d /\ Likers(ph)' = Likers(ph)
    BY <2>1, CountAfterMove DEF Likers
  <2>3. c' = IF req[p].photo = ph THEN c - 1 ELSE c
    BY <2>1, CountAfterMove
  <2>4. likeCount'[ph] = IF req[p].photo = ph THEN likeCount[ph] + 1 ELSE likeCount[ph]
    BY <2>1 DEF OnRow, Shape, CountsOK
  <2>5. QED
    BY <1>2, <2>2, <2>3, <2>4 DEF Balanced
<1>10. ASSUME NEW p \in Procs, UnlikeDecrement(p)
       PROVE  Balanced(ph)'
  <2>1. /\ pc[p] = "unlikeCount" /\ MoveTo(p, "idle") /\ likes' = likes
        /\ likeCount' = OnRow(likeCount, req[p].photo, Max({likeCount[req[p].photo] - 1, 0}))
    BY <1>1, <1>10 DEF UnlikeDecrement, Attempt, Finish, Goto, MoveTo, rows
  <2>2. c' = c /\ Likers(ph)' = Likers(ph)
    BY <2>1, CountAfterMove DEF Likers
  <2>3. CASE req[p].photo = ph
    <3>1. d' = d - 1 /\ d >= 1
      BY <2>1, <2>3, CountAfterMove
    <3>2. likeCount[ph] >= 1
      BY <1>2, <3>1
    <3>3. likeCount'[ph] = likeCount[ph] - 1
      BY <1>2, <2>1, <2>3, <3>2, Floor DEF OnRow, Shape, CountsOK
    <3>4. QED
      BY <1>2, <2>2, <3>1, <3>3 DEF Balanced
  <2>4. CASE req[p].photo # ph
    <3>1. d' = d
      BY <2>1, <2>4, CountAfterMove
    <3>2. likeCount'[ph] = likeCount[ph]
      BY <2>1, <2>4 DEF OnRow, Shape, CountsOK
    <3>3. QED
      BY <1>2, <2>2, <3>1, <3>2 DEF Balanced
  <2>5. QED
    BY <2>3, <2>4
<1>11. CASE GetPhotoDetail \/ FavoritePhoto \/ UNCHANGED vars
  <2>1. UNCHANGED <<likes, likeCount>> /\ At("likeCount", ph)' = At("likeCount", ph)
        /\ At("unlikeCount", ph)' = At("unlikeCount", ph)
    BY <1>11, Elsewhere DEF At
  <2>2. QED
    BY <1>3, <2>1
<1>12. CASE Crash
  BY <1>1, <1>12 DEF Crash
<1>13. QED
  BY <1>4, <1>6, <1>7, <1>8, <1>9, <1>10, <1>11, <1>12 DEF Next, Continue

LikesInv == CarefulInv /\ LikeCountAccounted

LEMMA LikesInvStep == Shape /\ LikesInv /\ [Next]_vars => LikesInv'
<1> SUFFICES ASSUME Shape, LikesInv, [Next]_vars
             PROVE  LikesInv'
  OBVIOUS
<1>1. CarefulInv'
  BY CarefulInvStep DEF LikesInv
<1>2. ASSUME Quiet', NEW ph \in Photos
      PROVE  Balanced(ph)'
  <2>1. Balanced(ph)
    BY <1>2, QuietBefore DEF LikesInv, LikeCountAccounted, Quiet, Balanced
  <2>2. QED
    BY <1>2, <2>1, BalancedStep DEF LikesInv
<1>3. QED
  BY <1>1, <1>2 DEF LikesInv, LikeCountAccounted, Quiet, Balanced

\* While clients are careful and nothing fails, a photo's like_count is its number
\* of rows, up to the increments and decrements on their way; the floor under the
\* decrement never swallows one, for there is always something to take away.
THEOREM LikeCountsAccounted == Spec => []LikeCountAccounted
<1>1. Init => LikesInv
  <2> SUFFICES ASSUME Init
               PROVE  LikesInv
    OBVIOUS
  <2>1. CarefulInv
    BY DEF Init, CarefulInv, Toggling
  <2>2. ASSUME NEW ph \in Photos
        PROVE  Balanced(ph)
    <3>1. Likers(ph) = {} /\ likeCount[ph] = 0
      BY DEF Init, Likers
    <3>2. QED
      BY <3>1, InitAt, FS_EmptySet DEF Balanced
  <2>3. QED
    BY <2>1, <2>2 DEF LikesInv, LikeCountAccounted, Balanced
<1>2. Shape /\ LikesInv /\ [Next]_vars => LikesInv'
  BY LikesInvStep
<1>3. LikesInv => LikeCountAccounted
  BY DEF LikesInv
<1>4. QED
  BY <1>1, <1>2, <1>3, TypesKept, PTL DEF Spec

-----------------------------------------------------------------------------
(* The likes of a place.                                                    *)

LEMMA PhotosAtFinite ==
  ASSUME NEW pl
  PROVE  IsFiniteSet(PhotosAt(pl)) /\ PhotosAt(pl) \subseteq Photos
<1>1. PhotosAt(pl) \in SUBSET Photos
  BY DEF PhotosAt
<1>2. QED
  BY <1>1, EngagementAssumption, FS_Subset

LEMMA SumOfLikesType ==
  ASSUME CountsOK, NEW pl
  PROVE  SumOfLikes(pl) = Sum(likeCount, PhotosAt(pl)) /\ SumOfLikes(pl) \in Nat
<1>1. SumOfLikes(pl) = Sum(likeCount, PhotosAt(pl))
  BY DEF SumOfLikes, Sum
<1>2. \A ph \in PhotosAt(pl) : likeCount[ph] \in Nat
  BY PhotosAtFinite DEF CountsOK
<1>3. QED
  BY <1>1, <1>2, PhotosAtFinite, SumType

\* The parts of TypeOK that Shape leaves out.
RestOK ==
  /\ favorites \in SUBSET (Users \X PhotoIds)
  /\ viewCount \in [Photos -> Nat]
  /\ placeLikes \in [Places -> Nat]
  /\ requests \in 0..MaxRequests
  /\ careless \in 0..MaxCareless
  /\ faults \in 0..MaxFaults

LEMMA TypeParts == Shape /\ RestOK => TypeOK
BY DEF Shape, RestOK, RowsOK, CountsOK, LocalsOK, TypeOK, Labels, Req

\* The counters of the bounds.
LEMMA BoundsStep ==
  ASSUME RestOK, [Next]_vars
  PROVE  requests' \in 0..MaxRequests /\ careless' \in 0..MaxCareless /\ faults' \in 0..MaxFaults
<1>0. /\ MaxRequests \in Nat /\ MaxCareless \in Nat /\ MaxFaults \in Nat
      /\ requests \in 0..MaxRequests /\ careless \in 0..MaxCareless /\ faults \in 0..MaxFaults
  BY EngagementAssumption DEF RestOK
<1>1. ASSUME Fault \/ UNCHANGED faults
      PROVE  faults' \in 0..MaxFaults
  BY <1>0, <1>1 DEF Fault
<1>2. ASSUME NEW p \in Procs, Like(p) \/ Unlike(p) \/ Comment(p)
      PROVE  requests' \in 0..MaxRequests /\ careless' \in 0..MaxCareless /\ UNCHANGED faults
  <2>1. /\ UNCHANGED faults
        /\ requests < MaxRequests /\ requests' = requests + 1
        /\ UNCHANGED careless \/ (careless < MaxCareless /\ careless' = careless + 1)
    BY <1>2 DEF Like, Unlike, Comment, Toggle, Accept
  <2>2. QED
    BY <1>0, <2>1
<1>3. ASSUME NEW p \in Procs, Continue(p)
      PROVE  UNCHANGED <<requests, careless>> /\ (Fault \/ UNCHANGED faults)
  BY <1>3 DEF Continue, LikeInsert, LikeIncrement, LikeFindPlace, LikeRefresh, UnlikeDelete,
              UnlikeDecrement, CommentInsert, CommentIncrement, Attempt
<1>4. ASSUME GetPhotoDetail \/ FavoritePhoto
      PROVE  requests' \in 0..MaxRequests /\ UNCHANGED careless /\ (Fault \/ UNCHANGED faults)
  <2>1. /\ UNCHANGED careless /\ (Fault \/ UNCHANGED faults)
        /\ requests < MaxRequests /\ requests' = requests + 1
    BY <1>4 DEF GetPhotoDetail, FavoritePhoto, Attempt
  <2>2. QED
    BY <1>0, <2>1
<1>5. Crash => UNCHANGED <<requests, careless>> /\ Fault
  BY DEF Crash
<1>6. QED
  BY <1>0, <1>1, <1>2, <1>3, <1>4, <1>5 DEF Next, vars

LEMMA RestOKStep ==
  ASSUME Shape, RestOK, [Next]_vars
  PROVE  RestOK'
<1>1. ASSUME UNCHANGED <<favorites, viewCount, placeLikes>>
      PROVE  RestOK'
  BY <1>1, BoundsStep DEF RestOK
<1>2. ASSUME NEW p \in Procs, LikeRefresh(p)
      PROVE  RestOK'
  <2>1. \A pl : SumOfLikes(pl) \in Nat
    BY SumOfLikesType DEF Shape
  <2>2. placeLikes' \in [Places -> Nat]
    BY <1>2, <2>1 DEF LikeRefresh, Attempt, RestOK
  <2>3. UNCHANGED <<favorites, viewCount>>
    BY <1>2 DEF LikeRefresh, rows
  <2>4. QED
    BY <2>2, <2>3, BoundsStep DEF RestOK
<1>3. CASE GetPhotoDetail
  <2>1. viewCount' \in [Photos -> Nat] /\ UNCHANGED <<favorites, placeLikes>>
    BY <1>3 DEF GetPhotoDetail, Attempt, RestOK, rows
  <2>2. QED
    BY <2>1, BoundsStep DEF RestOK
<1>4. CASE FavoritePhoto
  <2>1. favorites' \in SUBSET (Users \X PhotoIds) /\ UNCHANGED <<viewCount, placeLikes>>
    BY <1>4 DEF FavoritePhoto, Attempt, RestOK, counts
  <2>2. QED
    BY <2>1, BoundsStep DEF RestOK
<1>5. ASSUME NEW p \in Procs, Like(p) \/ Unlike(p) \/ Comment(p)
      PROVE  UNCHANGED <<favorites, viewCount, placeLikes>>
  BY <1>5 DEF Like, Unlike, Toggle, Comment, rows, counts
<1>6. ASSUME NEW p \in Procs, LikeInsert(p) \/ LikeFindPlace(p) \/ UnlikeDelete(p) \/ CommentInsert(p)
      PROVE  UNCHANGED <<favorites, viewCount, placeLikes>>
  BY <1>6 DEF LikeInsert, LikeFindPlace, UnlikeDelete, CommentInsert, rows, counts
<1>7. ASSUME NEW p \in Procs, LikeIncrement(p) \/ UnlikeDecrement(p) \/ CommentIncrement(p)
      PROVE  UNCHANGED <<favorites, viewCount, placeLikes>>
  BY <1>7 DEF LikeIncrement, UnlikeDecrement, CommentIncrement, rows
<1>8. Crash \/ UNCHANGED vars => UNCHANGED <<favorites, viewCount, placeLikes>>
  BY DEF Crash, vars, rows, counts
<1>9. QED
  BY <1>1, <1>2, <1>3, <1>4, <1>5, <1>6, <1>7, <1>8 DEF Next, Continue

\* Every variable keeps its type; the sum over the photos of a place is a number.
THEOREM TypeCorrect == Spec => []TypeOK
<1>1. Init => RestOK
  BY EngagementAssumption DEF Init, RestOK
<1>2. Shape /\ RestOK /\ [Next]_vars => RestOK'
  BY RestOKStep
<1>3. QED
  BY <1>1, <1>2, TypeParts, TypesKept, PTL DEF Spec

\* The refresh of a like is on its way to the place.
Pending(pl) ==
  \E p \in Procs : pc[p] \in {"likePlace", "likeRefresh"} /\ req[p].photo \in PhotosAt(pl)

LEMMA PendingAt ==
  ASSUME NEW pl
  PROVE  Pending(pl) <=> \E ph \in PhotosAt(pl) : At("likePlace", ph) \cup At("likeRefresh", ph) # {}
BY DEF Pending, At

\* A goroutine that is not at one of the two statements, before or after, or stays
\* with its photo, leaves every refresh on its way.
LEMMA PendingStays ==
  ASSUME Shape, NEW p \in Procs, NEW m, pc' = [pc EXCEPT ![p] = m],
         \/ pc[p] \notin {"likePlace", "likeRefresh"} /\ \E r : req' = [req EXCEPT ![p] = r]
         \/ m \in {"likePlace", "likeRefresh"} /\ req' = req,
         NEW pl, Pending(pl)
  PROVE  Pending(pl)'
<1>1. PICK q \in Procs : pc[q] \in {"likePlace", "likeRefresh"} /\ req[q].photo \in PhotosAt(pl)
  BY DEF Pending
<1>2. pc'[q] \in {"likePlace", "likeRefresh"} /\ req'[q] = req[q]
  BY <1>1 DEF Shape, LocalsOK
<1>3. PhotosAt(pl)' = PhotosAt(pl)
  BY DEF PhotosAt
<1>4. QED
  BY <1>1, <1>2, <1>3 DEF Pending

\* Photos without likes add up to none.
LEMMA SumOfLikesIsZero ==
  ASSUME NEW pl, \A ph \in PhotosAt(pl) : likeCount[ph] = 0
  PROVE  SumOfLikes(pl) = 0
<1>1. SumOfLikes(pl) = Sum(likeCount, PhotosAt(pl))
  BY DEF SumOfLikes, Sum
<1>2. QED
  BY <1>1, PhotosAtFinite, SumZero

\* What holds of each place while nothing fails.
Covered(pl) == placeLikes[pl] >= SumOfLikes(pl) \/ Pending(pl)

\* A photo's number changes: the sum of its place changes with it, that of the
\* others does not.
LEMMA SumOfLikesStep ==
  ASSUME Shape, CountsOK', NEW a \in Photos, NEW n, likeCount' = [likeCount EXCEPT ![a] = n],
         NEW pl \in Places
  PROVE  /\ PlaceOf[a] # pl => SumOfLikes(pl)' = SumOfLikes(pl)
         /\ PlaceOf[a] = pl => SumOfLikes(pl)' + likeCount[a] = SumOfLikes(pl) + n
<1>1. /\ SumOfLikes(pl) = Sum(likeCount, PhotosAt(pl))
      /\ SumOfLikes(pl)' = Sum(likeCount', PhotosAt(pl))
  <2>1. PhotosAt(pl)' = PhotosAt(pl)
    BY DEF PhotosAt
  <2>2. QED
    BY <2>1 DEF SumOfLikes, Sum, MapThenSumSet, MapThenFoldSet
<1>2. /\ likeCount'[a] = n
      /\ \A ph \in PhotosAt(pl) :
           likeCount[ph] \in Nat /\ likeCount'[ph] \in Nat /\ (ph # a => likeCount'[ph] = likeCount[ph])
  BY PhotosAtFinite DEF Shape, CountsOK
<1>3. CASE PlaceOf[a] # pl
  <2>1. \A ph \in PhotosAt(pl) : likeCount'[ph] = likeCount[ph]
    BY <1>2, <1>3 DEF PhotosAt
  <2>2. Sum(likeCount', PhotosAt(pl)) = Sum(likeCount, PhotosAt(pl))
    BY <2>1, PhotosAtFinite, SumSame
  <2>3. QED
    BY <1>1, <1>3, <2>2
<1>4. CASE PlaceOf[a] = pl
  <2>1. a \in PhotosAt(pl)
    BY <1>4 DEF PhotosAt
  <2>2. Sum(likeCount', PhotosAt(pl)) + likeCount[a] = Sum(likeCount, PhotosAt(pl)) + likeCount'[a]
    <3> DEFINE f == likeCount
               g == likeCount'
               S == PhotosAt(pl)
    <3>1. /\ IsFiniteSet(S) /\ a \in S
          /\ \A x \in S : f[x] \in Nat /\ g[x] \in Nat /\ (x # a => g[x] = f[x])
      BY <1>2, <2>1, PhotosAtFinite
    <3> HIDE DEF f, g, S
    <3>2. Sum(g, S) + f[a] = Sum(f, S) + g[a]
      BY <3>1, SumChanges
    <3>3. QED
      BY <3>2 DEF f, g, S
  <2>3. QED
    BY <1>1, <1>2, <1>4, <2>2
<1>5. QED
  BY <1>3, <1>4

LEMMA CoveredStep ==
  ASSUME Shape, Shape', RestOK, [Next]_vars, faults = 0, faults' = 0,
         NEW pl \in Places, Covered(pl)
  PROVE  Covered(pl)'
<1>1. /\ SumOfLikes(pl) \in Nat /\ SumOfLikes(pl)' \in Nat /\ placeLikes[pl] \in Nat
      /\ likeCount' = likeCount => SumOfLikes(pl)' = SumOfLikes(pl)
  <2>1. PhotosAt(pl)' = PhotosAt(pl)
    BY DEF PhotosAt
  <2>2. SumOfLikes(pl) \in Nat /\ SumOfLikes(pl) = Sum(likeCount, PhotosAt(pl))
    BY SumOfLikesType DEF Shape
  <2>3. SumOfLikes(pl)' = Sum(likeCount', PhotosAt(pl))
    BY <2>1 DEF SumOfLikes, Sum, MapThenSumSet, MapThenFoldSet
  <2>4. \A ph \in PhotosAt(pl) : likeCount'[ph] \in Nat
    BY PhotosAtFinite DEF Shape, CountsOK
  <2>5. Sum(likeCount', PhotosAt(pl)) \in Nat
    BY <2>4, PhotosAtFinite, SumType
  <2>6. QED
    BY <2>2, <2>3, <2>5 DEF RestOK
<1>2. ~Fault
  BY DEF Fault, Shape, NotesOK
<1>3. ASSUME SumOfLikes(pl)' <= SumOfLikes(pl), placeLikes' = placeLikes,
             Pending(pl) => Pending(pl)'
      PROVE  Covered(pl)'
  BY <1>1, <1>3 DEF Covered
<1>4. ASSUME NEW p \in Procs, Like(p) \/ Unlike(p) \/ Comment(p)
      PROVE  Covered(pl)'
  <2>1. UNCHANGED <<likeCount, placeLikes>>
    BY <1>4 DEF Like, Unlike, Toggle, Comment, counts
  <2>2. Pending(pl) => Pending(pl)'
    BY <1>4, AcceptMoves, PendingStays DEF Accepted
  <2>3. QED
    BY <1>1, <1>3, <2>1, <2>2
<1>5. ASSUME NEW p \in Procs, LikeInsert(p) \/ UnlikeDelete(p) \/ CommentInsert(p) \/ CommentIncrement(p)
      PROVE  Covered(pl)'
  <2>1. /\ UNCHANGED <<likeCount, placeLikes>> /\ pc[p] \notin {"likePlace", "likeRefresh"}
        /\ \E m : pc' = [pc EXCEPT ![p] = m]
        /\ req' = req \/ req' = [req EXCEPT ![p] = None]
    BY <1>5 DEF LikeInsert, UnlikeDelete, CommentInsert, CommentIncrement, counts, Goto, Finish
  <2>2. req' = req => req' = [req EXCEPT ![p] = req[p]]
    BY DEF Shape, LocalsOK
  <2>3. \E r : req' = [req EXCEPT ![p] = r]
    BY <2>1, <2>2
  <2>4. Pending(pl) => Pending(pl)'
    BY <2>1, <2>3, PendingStays
  <2>5. QED
    BY <1>1, <1>3, <2>1, <2>4
<1>6. ASSUME NEW p \in Procs, LikeIncrement(p)
      PROVE  Covered(pl)'
  <2> DEFINE a == req[p].photo
  <2>1. /\ pc[p] = "likeCount" /\ pc' = [pc EXCEPT ![p] = "likePlace"] /\ req' = req
        /\ placeLikes' = placeLikes /\ likeCount' = OnRow(likeCount, a, likeCount[a] + 1)
    BY <1>2, <1>6 DEF LikeIncrement, Attempt, Goto
  <2>2. Pending(pl) => Pending(pl)'
    BY <2>1, PendingStays
  <2>3. CASE a \notin Photos
    BY <1>1, <1>3, <2>1, <2>2, <2>3 DEF OnRow
  <2>4. CASE a \in Photos /\ PlaceOf[a] = pl
    <3>1. pc'[p] = "likePlace" /\ req'[p].photo \in PhotosAt(pl) /\ PhotosAt(pl)' = PhotosAt(pl)
      BY <2>1, <2>4 DEF PhotosAt, Shape, LocalsOK
    <3>2. QED
      BY <3>1 DEF Covered, Pending
  <2>5. CASE a \in Photos /\ PlaceOf[a] # pl
    <3>1. SumOfLikes(pl)' = SumOfLikes(pl)
      BY <2>1, <2>5, SumOfLikesStep DEF OnRow, Shape
    <3>2. QED
      BY <1>1, <1>3, <2>1, <2>2, <3>1
  <2>6. QED
    BY <2>3, <2>4, <2>5
<1>7. ASSUME NEW p \in Procs, LikeFindPlace(p)
      PROVE  Covered(pl)'
  <2>1. pc[p] = "likePlace" /\ UNCHANGED <<likeCount, placeLikes>>
    BY <1>7 DEF LikeFindPlace, counts
  <2>2. CASE Goto(p, "likeRefresh") /\ UNCHANGED req
    <3>1. Pending(pl) => Pending(pl)'
      BY <2>2, PendingStays DEF Goto
    <3>2. QED
      BY <1>1, <1>3, <2>1, <3>1
  <2>3. CASE req[p].photo \notin Photos /\ Finish(p)
    <3>1. ASSUME Pending(pl)
          PROVE  Pending(pl)'
      <4>1. PICK q \in Procs : pc[q] \in {"likePlace", "likeRefresh"} /\ req[q].photo \in PhotosAt(pl)
        BY <3>1 DEF Pending
      <4>2. q # p
        BY <2>3, <4>1 DEF PhotosAt
      <4>3. pc'[q] = pc[q] /\ req'[q] = req[q] /\ PhotosAt(pl)' = PhotosAt(pl)
        BY <2>3, <4>2 DEF Finish, Goto, Shape, LocalsOK, PhotosAt
      <4>4. QED
        BY <4>1, <4>3 DEF Pending
    <3>2. QED
      BY <1>1, <1>3, <2>1, <3>1
  <2>4. QED
    BY <1>2, <1>7, <2>2, <2>3 DEF LikeFindPlace
<1>8. ASSUME NEW p \in Procs, LikeRefresh(p)
      PROVE  Covered(pl)'
  <2> DEFINE a == req[p].photo
  <2>1. /\ pc[p] = "likeRefresh" /\ Finish(p) /\ likeCount' = likeCount
        /\ placeLikes' = [placeLikes EXCEPT ![PlaceOf[a]] = SumOfLikes(PlaceOf[a])]
    BY <1>2, <1>8 DEF LikeRefresh, Attempt
  <2>2. a \in Photos
    BY <2>1, AtWork DEF Shape
  <2>3. CASE PlaceOf[a] = pl
    <3>1. placeLikes'[pl] = SumOfLikes(pl)
      BY <2>1, <2>3 DEF RestOK
    <3>2. QED
      BY <1>1, <2>1, <3>1 DEF Covered
  <2>4. CASE PlaceOf[a] # pl
    <3>1. placeLikes'[pl] = placeLikes[pl]
      BY <2>1, <2>4 DEF RestOK
    <3>2. ASSUME Pending(pl)
          PROVE  Pending(pl)'
      <4>1. PICK q \in Procs : pc[q] \in {"likePlace", "likeRefresh"} /\ req[q].photo \in PhotosAt(pl)
        BY <3>2 DEF Pending
      <4>2. q # p
        BY <2>4, <4>1 DEF PhotosAt
      <4>3. pc'[q] = pc[q] /\ req'[q] = req[q] /\ PhotosAt(pl)' = PhotosAt(pl)
        BY <2>1, <4>2 DEF Finish, Goto, Shape, LocalsOK, PhotosAt
      <4>4. QED
        BY <4>1, <4>3 DEF Pending
    <3>3. QED
      BY <1>1, <2>1, <3>1, <3>2 DEF Covered
  <2>5. QED
    BY <2>3, <2>4
<1>9. ASSUME NEW p \in Procs, UnlikeDecrement(p)
      PROVE  Covered(pl)'
  <2> DEFINE a == req[p].photo
             n == Max({likeCount[a] - 1, 0})
  <2>1. /\ pc[p] = "unlikeCount" /\ Finish(p) /\ placeLikes' = placeLikes
        /\ likeCount' = OnRow(likeCount, a, n)
    BY <1>2, <1>9 DEF UnlikeDecrement, Attempt
  <2>2. Pending(pl) => Pending(pl)'
    BY <2>1, PendingStays DEF Finish, Goto
  <2>3. CASE a \notin Photos
    BY <1>1, <1>3, <2>1, <2>2, <2>3 DEF OnRow
  <2>4. CASE a \in Photos
    <3>1. likeCount[a] \in Nat /\ n \in Nat /\ n <= likeCount[a]
      <4>1. likeCount[a] \in Nat
        BY <2>4 DEF Shape, CountsOK
      <4>2. QED
        BY <4>1, Floor
    <3>2. likeCount' = [likeCount EXCEPT ![a] = n]
      BY <2>1, <2>4 DEF OnRow
    <3>3. /\ PlaceOf[a] # pl => SumOfLikes(pl)' = SumOfLikes(pl)
          /\ PlaceOf[a] = pl => SumOfLikes(pl)' + likeCount[a] = SumOfLikes(pl) + n
      BY <2>4, <3>2, SumOfLikesStep DEF Shape
    <3>4. SumOfLikes(pl)' <= SumOfLikes(pl)
      BY <1>1, <3>1, <3>3
    <3>5. QED
      BY <1>3, <2>1, <2>2, <3>4
  <2>5. QED
    BY <2>3, <2>4
<1>10. CASE GetPhotoDetail \/ FavoritePhoto \/ UNCHANGED vars
  <2>1. UNCHANGED <<likeCount, placeLikes, pc, req>> /\ PhotosAt(pl)' = PhotosAt(pl)
    BY <1>10 DEF GetPhotoDetail, FavoritePhoto, vars, counts, PhotosAt
  <2>2. QED
    BY <1>1, <1>3, <2>1 DEF Pending
<1>11. CASE Crash
  BY <1>2, <1>11 DEF Crash
<1>12. QED
  BY <1>4, <1>5, <1>6, <1>7, <1>8, <1>9, <1>10, <1>11 DEF Next, Continue

\* While nothing fails, a place never shows less than the likes of its photos,
\* unless the refresh of a like is on its way, whatever clients send.
THEOREM PlaceLikesCovered == Spec => []PlaceLikesNotUnderstated
<1>1. PlaceLikesNotUnderstated <=> (faults = 0 => \A pl \in Places : Covered(pl))
  BY PendingAt DEF PlaceLikesNotUnderstated, Covered
<1>2. Init => RestOK /\ PlaceLikesNotUnderstated
  <2> SUFFICES ASSUME Init
               PROVE  RestOK /\ PlaceLikesNotUnderstated
    OBVIOUS
  <2>1. RestOK
    BY EngagementAssumption DEF Init, RestOK
  <2>2. ASSUME NEW pl \in Places
        PROVE  placeLikes[pl] = 0 /\ SumOfLikes(pl) = 0
    <3>1. \A ph \in PhotosAt(pl) : likeCount[ph] = 0
      BY PhotosAtFinite DEF Init
    <3>2. SumOfLikes(pl) = 0
      BY <3>1, PhotosAtFinite, SumOfLikesIsZero
    <3>3. QED
      BY <3>2 DEF Init
  <2>3. QED
    BY <2>1, <2>2 DEF PlaceLikesNotUnderstated
<1>3. Shape /\ RestOK /\ [Next]_vars => RestOK'
  BY RestOKStep
<1>4. Shape /\ Shape' /\ RestOK /\ PlaceLikesNotUnderstated /\ [Next]_vars
        => PlaceLikesNotUnderstated'
  <2> SUFFICES ASSUME Shape, Shape', RestOK, PlaceLikesNotUnderstated, [Next]_vars, faults' = 0,
                      NEW pl \in Places
               PROVE  Covered(pl)'
    BY DEF PlaceLikesNotUnderstated, Covered, Pending, At
  <2>1. faults = 0
    BY NotesGrow DEF Shape, NotesOK
  <2>2. QED
    BY <1>1, <2>1, CoveredStep
<1>5. QED
  BY <1>2, <1>3, <1>4, TypesKept, PTL DEF Spec

=============================================================================
