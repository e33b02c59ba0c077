----------------------------- MODULE Engagement -----------------------------
(***************************************************************************)
(* Likes, comments, favourites and views of photos (handler/place.go:      *)
(* GetPhotoDetail, LikePhoto, PostComment, FavoritePhoto).                 *)
(*                                                                         *)
(* A like is a row of `likes`, a number on the photo that is incremented   *)
(* and decremented, and a number on the place that is recomputed.  The     *)
(* three are written by separate autocommitted statements, so the handlers *)
(* of concurrent requests interleave between any two of them.  One action  *)
(* is one statement with the local computation after it.                   *)
(*                                                                         *)
(* Photos are rows that exist (PublishPhotos inserts them and nothing      *)
(* deletes them); LikePhoto does not look whether its photo exists.  Reads *)
(* and refused requests change no table and are left out.                  *)
(***************************************************************************)
EXTENDS Integers, FiniteSets, FiniteSetsExt

CONSTANTS
  Procs,        \* goroutines serving HTTP requests
  Users,        \* ids of logged-in users
  PhotoIds,     \* photo ids in requests
  Photos,       \* those that have a row
  Places,       \* ids of places
  PlaceOf,      \* photos.place_id, set when the photo is published
  None,         \* no request
  MaxRequests,  \* bound: requests in a behaviour
  MaxCareless,  \* bound: toggles that a careful client would not send
  MaxFaults     \* bound: failed statements and crashes in a behaviour

ASSUME EngagementAssumption ==
  /\ IsFiniteSet(Procs) /\ IsFiniteSet(Users) /\ IsFiniteSet(Photos)
  /\ Photos \subseteq PhotoIds
  /\ PlaceOf \in [Photos -> Places]
  /\ None \notin [user : Users, photo : PhotoIds]
  /\ MaxRequests \in Nat /\ MaxCareless \in Nat /\ MaxFaults \in Nat

VARIABLES
  likes,         \* keys (user_id, photo_id) of the rows of likes
  favorites,     \* keys (user_id, photo_id) of the rows of favorites
  comments,      \* number of rows of comments on each photo
  likeCount,     \* photos.like_count
  commentCount,  \* photos.comment_count
  viewCount,     \* photos.view_count
  placeLikes,    \* places.like_count
  pc,            \* the statement each goroutine executes next
  req,           \* user and photo of the request it serves
  requests,      \* requests accepted so far
  careless,      \* toggles sent so far that a careful client would not send
  faults         \* failed statements and crashes so far

rows   == <<likes, favorites, comments>>
counts == <<likeCount, commentCount, viewCount, placeLikes>>
vars   == <<likes, favorites, comments, likeCount, commentCount, viewCount,
            placeLikes, pc, req, requests, careless, faults>>

-----------------------------------------------------------------------------
Toggling == {"likeInsert", "likeCount", "likePlace", "likeRefresh",
             "unlikeDelete", "unlikeCount"}

Likers(ph)   == {u \in Users : <<u, ph>> \in likes}
PhotosAt(pl) == {ph \in Photos : PlaceOf[ph] = pl}
SumOfLikes(pl) == MapThenSumSet(LAMBDA ph : likeCount[ph], PhotosAt(pl))

At(l, ph) == {p \in Procs : pc[p] = l /\ req[p].photo = ph}

Fault == faults < MaxFaults /\ faults' = faults + 1

\* An Exec whose error the handler ignores: it changes `table` or it fails.
Attempt(effect, table) ==
  \/ effect /\ UNCHANGED faults
  \/ Fault /\ UNCHANGED table

Goto(p, l) == pc' = [pc EXCEPT ![p] = l]
Finish(p)  == Goto(p, "idle") /\ req' = [req EXCEPT ![p] = None]

Accept(p, u, ph, l) ==
  /\ pc[p] = "idle"
  /\ requests < MaxRequests /\ requests' = requests + 1
  /\ req' = [req EXCEPT ![p] = [user |-> u, photo |-> ph]]
  /\ Goto(p, l)

\* UPDATE photos ... WHERE id = ?: no effect on an id without a row.
OnRow(f, ph, new) == IF ph \in Photos THEN [f EXCEPT ![ph] = new] ELSE f

Init ==
  /\ likes = {} /\ favorites = {}
  /\ comments = [ph \in Photos |-> 0]
  /\ likeCount = [ph \in Photos |-> 0]
  /\ commentCount = [ph \in Photos |-> 0]
  /\ viewCount = [ph \in Photos |-> 0]
  /\ placeLikes = [pl \in Places |-> 0]
  /\ pc = [p \in Procs |-> "idle"]
  /\ req = [p \in Procs |-> None]
  /\ requests = 0 /\ careless = 0 /\ faults = 0

-----------------------------------------------------------------------------
(* LikePhoto.                                                               *)

\* A careful client sends a toggle for a photo it has seen, opposite to what is
\* stored, and waits for the answer before the next.  Retries after a timeout,
\* double taps and a second device of the user are not careful.
Careful(u, ph, stored) ==
  /\ ph \in Photos
  /\ (<<u, ph>> \in likes) = stored
  /\ ~\E q \in Procs : /\ pc[q] \in Toggling
                       /\ req[q].user = u /\ req[q].photo = ph

Toggle(p, u, ph, stored, l) ==
  /\ Accept(p, u, ph, l)
  /\ IF Careful(u, ph, stored)
       THEN UNCHANGED careless
       ELSE careless < MaxCareless /\ careless' = careless + 1
  /\ UNCHANGED <<rows, counts, faults>>

Like(p)   == \E u \in Users, ph \in PhotoIds : Toggle(p, u, ph, FALSE, "likeInsert")
Unlike(p) == \E u \in Users, ph \in PhotoIds : Toggle(p, u, ph, TRUE, "unlikeDelete")

\* INSERT IGNORE: a row that is there already stays.
LikeInsert(p) ==
  /\ pc[p] = "likeInsert"
  /\ Attempt(likes' = likes \cup {<<req[p].user, req[p].photo>>}, likes)
  /\ Goto(p, "likeCount")
  /\ UNCHANGED <<favorites, comments, counts, req, requests, careless>>

\* Mistake: the new number is computed from the photo as it was published.
LikeIncrementFromZero(p) ==
  LET ph == req[p].photo IN
  /\ pc[p] = "likeCount"
  /\ Attempt(likeCount' = OnRow(likeCount, ph, 1), likeCount)
  /\ Goto(p, "likePlace")
  /\ UNCHANGED <<rows, commentCount, viewCount, placeLikes, req, requests, careless>>

\* The increment does not depend on whether the INSERT did anything.
LikeIncrement(p) ==
  LET ph == req[p].photo IN
  /\ pc[p] = "likeCount"
  /\ Attempt(likeCount' = OnRow(likeCount, ph, likeCount[ph] + 1), likeCount)
  /\ Goto(p, "likePlace")
  /\ UNCHANGED <<rows, commentCount, viewCount, placeLikes, req, requests, careless>>

\* SELECT place_id: 0 without a row or on a failure, and the handler is done.
LikeFindPlace(p) ==
  /\ pc[p] = "likePlace"
  /\ \/ req[p].photo \in Photos /\ Goto(p, "likeRefresh") /\ UNCHANGED <<req, faults>>
     \/ req[p].photo \notin Photos /\ Finish(p) /\ UNCHANGED faults
     \/ Fault /\ Finish(p)
  /\ UNCHANGED <<rows, counts, requests, careless>>

\* Mistake: the place shows the likes of its best photo, not their sum.
LikeRefreshMax(p) ==
  LET pl == PlaceOf[req[p].photo] IN
  /\ pc[p] = "likeRefresh"
  /\ Attempt(placeLikes' = [placeLikes EXCEPT
                 ![pl] = Max({likeCount[ph] : ph \in PhotosAt(pl)})], placeLikes)
  /\ Finish(p)
  /\ UNCHANGED <<rows, likeCount, commentCount, viewCount, requests, careless>>

\* UPDATE places SET like_count = (SELECT SUM(like_count) ...), one statement.
LikeRefresh(p) ==
  LET pl == PlaceOf[req[p].photo] IN
  /\ pc[p] = "likeRefresh"
  /\ Attempt(placeLikes' = [placeLikes EXCEPT ![pl] = SumOfLikes(pl)], placeLikes)
  /\ Finish(p)
  /\ UNCHANGED <<rows, likeCount, commentCount, viewCount, requests, careless>>

UnlikeDelete(p) ==
  /\ pc[p] = "unlikeDelete"
  /\ Attempt(likes' = likes \ {<<req[p].user, req[p].photo>>}, likes)
  /\ Goto(p, "unlikeCount")
  /\ UNCHANGED <<favorites, comments, counts, req, requests, careless>>

\* Mistake: no floor under the decrement.
UnlikeDecrementPlain(p) ==
  LET ph == req[p].photo IN
  /\ pc[p] = "unlikeCount"
  /\ Attempt(likeCount' = OnRow(likeCount, ph, likeCount[ph] - 1), likeCount)
  /\ Finish(p)
  /\ UNCHANGED <<rows, commentCount, viewCount, placeLikes, requests, careless>>

\* GREATEST(like_count - 1, 0).  The place is not refreshed.
UnlikeDecrement(p) ==
  LET ph == req[p].photo IN
  /\ pc[p] = "unlikeCount"
  /\ Attempt(likeCount' = OnRow(likeCount, ph, Max({likeCount[ph] - 1, 0})), likeCount)
  /\ Finish(p)
  /\ UNCHANGED <<rows, commentCount, viewCount, placeLikes, requests, careless>>

-----------------------------------------------------------------------------
(* PostComment; without a photo row it answers 404.                         *)

Comment(p) ==
  /\ \E u \in Users, ph \in Photos : Accept(p, u, ph, "commentInsert")
  /\ UNCHANGED <<rows, counts, careless, faults>>

\* A failed INSERT ends the request with 500; the row stays when only its answer
\* was lost.
CommentInsert(p) ==
  LET inserted == comments' = [comments EXCEPT ![req[p].photo] = @ + 1] IN
  /\ pc[p] = "commentInsert"
  /\ \/ inserted /\ Goto(p, "commentCount") /\ UNCHANGED <<req, faults>>
     \/ inserted /\ Fault /\ Finish(p)
     \/ Fault /\ Finish(p) /\ UNCHANGED comments
  /\ UNCHANGED <<likes, favorites, counts, requests, careless>>

\* Mistake: the count is bumped as if a first comment were being posted.
CommentIncrementToOne(p) ==
  /\ pc[p] = "commentCount"
  /\ Attempt(commentCount' = [commentCount EXCEPT ![req[p].photo] = 1], commentCount)
  /\ Finish(p)
  /\ UNCHANGED <<rows, likeCount, viewCount, placeLikes, requests, careless>>

CommentIncrement(p) ==
  /\ pc[p] = "commentCount"
  /\ Attempt(commentCount' = [commentCount EXCEPT ![req[p].photo] = @ + 1], commentCount)
  /\ Finish(p)
  /\ UNCHANGED <<rows, likeCount, viewCount, placeLikes, requests, careless>>

-----------------------------------------------------------------------------
(* Handlers with a single statement that changes a table.                   *)

\* GetPhotoDetail counts the view, whoever looks.
GetPhotoDetail ==
  /\ requests < MaxRequests /\ requests' = requests + 1
  /\ \E ph \in Photos :
       Attempt(viewCount' = [viewCount EXCEPT ![ph] = @ + 1], viewCount)
  /\ UNCHANGED <<rows, likeCount, commentCount, placeLikes, pc, req, careless>>

\* FavoritePhoto: INSERT IGNORE or DELETE, for an id that may have no row.
FavoritePhoto ==
  /\ requests < MaxRequests /\ requests' = requests + 1
  /\ \E u \in Users, ph \in PhotoIds :
       \/ Attempt(favorites' = favorites \cup {<<u, ph>>}, favorites)
       \/ Attempt(favorites' = favorites \ {<<u, ph>>}, favorites)
  /\ UNCHANGED <<likes, comments, counts, pc, req, careless>>

\* The process dies: requests in flight are gone, the tables stay.
Crash ==
  /\ Fault
  /\ pc' = [p \in Procs |-> "idle"]
  /\ req' = [p \in Procs |-> None]
  /\ UNCHANGED <<rows, counts, requests, careless>>

Continue(p) ==
  \/ LikeInsert(p) \/ LikeIncrement(p) \/ LikeFindPlace(p) \/ LikeRefresh(p)
  \/ UnlikeDelete(p) \/ UnlikeDecrement(p)
  \/ CommentInsert(p) \/ CommentIncrement(p)

Next ==
  \/ \E p \in Procs : Like(p) \/ Unlike(p) \/ Comment(p) \/ Continue(p)
  \/ GetPhotoDetail \/ FavoritePhoto \/ Crash

Spec == Init /\ [][Next]_vars

-----------------------------------------------------------------------------
(* Properties.                                                              *)

\* Rows, counts and local variables have the shape the code gives them; no count
\* goes below zero, in whatever order toggles arrive.
TypeOK ==
  /\ likes \in SUBSET (Users \X PhotoIds)
  /\ favorites \in SUBSET (Users \X PhotoIds)
  /\ comments \in [Photos -> Nat]
  /\ likeCount \in [Photos -> Nat]
  /\ commentCount \in [Photos -> Nat]
  /\ viewCount \in [Photos -> Nat]
  /\ placeLikes \in [Places -> Nat]
  /\ requests \in 0..MaxRequests
  /\ careless \in 0..MaxCareless
  /\ faults \in 0..MaxFaults
  /\ pc \in [Procs -> {"idle", "commentInsert", "commentCount"} \cup Toggling]
  /\ req \in [Procs -> [user : Users, photo : PhotoIds] \cup {None}]
  /\ \A p \in Procs :
       /\ pc[p] # "idle" => req[p] \in [user : Users, photo : PhotoIds]
       /\ pc[p] \in {"likeRefresh", "commentInsert", "commentCount"}
            => req[p].photo \in Photos

\* While clients are careful and nothing fails, the like_count of a photo is its
\* number of rows in likes, up to the increments and decrements still on their
\* way: toggles of different users commute, and the floor under the decrement
\* never swallows one.
LikeCountAccounted ==
  (faults = 0 /\ careless = 0) =>
    \A ph \in Photos :
      likeCount[ph] + Cardinality(At("likeCount", ph))
        = Cardinality(Likers(ph)) + Cardinality(At("unlikeCount", ph))

\* Whatever clients send, the like_count of a place is at least the sum over its
\* photos unless the refresh of a like is still on its way: concurrent likes
\* cannot leave a place with a sum computed before the last increment.
PlaceLikesNotUnderstated ==
  faults = 0 =>
    \A pl \in Places :
      \/ placeLikes[pl] >= SumOfLikes(pl)
      \/ \E ph \in PhotosAt(pl) : At("likePlace", ph) \cup At("likeRefresh", ph) # {}

\* A photo's comment_count, with the increments on their way, never exceeds its
\* comments, and is their number as long as nothing fails.
CommentCountAccounted ==
  \A ph \in Photos :
    LET shown == commentCount[ph] + Cardinality(At("commentCount", ph)) IN
    /\ shown <= comments[ph]
    /\ faults = 0 => shown = comments[ph]

\* "Total number of likes" (schema.sql, places.like_count): with careful clients
\* and no failure, a place at rest shows the sum of the likes of its photos.
PlaceLikesTotal ==
  (faults = 0 /\ careless = 0 /\ \A p \in Procs : pc[p] = "idle")
    => \A pl \in Places : placeLikes[pl] = SumOfLikes(pl)

=============================================================================
