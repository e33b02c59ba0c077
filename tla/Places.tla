------------------------------- MODULE Places -------------------------------
(***************************************************************************)
(* Memory places and the photos published at them (handler/place.go).      *)
(*                                                                         *)
(* CreatePlace, PublishPhotos and GetPlaceDetail each run a series of SQL  *)
(* statements on autocommit: no transaction spans two of them, so the      *)
(* handlers of concurrent requests interleave between any two statements.  *)
(* One action here is one statement with the local computation after it.   *)
(* A statement may fail, and the handlers go on after most failures; a     *)
(* crash of the server drops every request in flight and keeps the tables. *)
(*                                                                         *)
(* Requests the handlers refuse, and pure reads, change no table and are   *)
(* left out.  Rows of `places` and `photos` are never deleted or disabled  *)
(* by this code, so `status` is 1 throughout and does not appear.          *)
(***************************************************************************)
EXTENDS Integers, FiniteSets, Sequences

CONSTANTS
  Procs,      \* goroutines serving HTTP requests
  Users,      \* ids of logged-in users
  PlaceIds,   \* values of the AUTO_INCREMENT key of `places`
  Names,      \* place names (the default name among them)
  Positions,  \* positions requests carry, see below
  Images,     \* uploaded image URLs
  Batches,    \* the image_urls lists of PublishPhotos requests
  Covers,     \* the cover_url values of CreatePlace requests
  None,       \* an absent row, an empty URL, an absent place id, no request
  MaxPosts,   \* bound: creating and publishing requests in a behaviour
  MaxFaults   \* bound: failed statements and crashes in a behaviour

\* Positions lie on one meridian, a hair beside that of longitude 0, in units of
\* 0.0005 degrees of latitude (55.6 m), the half side of the box in which
\* PublishPhotos looks for a place.  500 m is then between 8 and 9 units, and
\* x is the distance from the point with coordinates (0, 0).
AutoBox  == 1
NameBox  == 2
ReachBox == 8

\* Handlers refuse latitude 0 and an empty image list.
ASSUME PlacesAssumption ==
  /\ IsFiniteSet(Procs) /\ IsFiniteSet(Users) /\ IsFiniteSet(PlaceIds)
  /\ PlaceIds \subseteq Nat
  /\ Positions \subseteq Int \ {0}
  /\ Batches \subseteq {b \in Seq(Images) : b # << >>}
  /\ Covers \subseteq Images \cup {None}
  /\ None \notin Images
  /\ None \notin PlaceIds
  /\ None \notin [name : Names, pos : Positions]
  /\ MaxFaults \in Nat
  /\ MaxPosts \in Nat

VARIABLES
  spot,          \* places: name and position of each row, fixed once inserted
  cover,         \* places.cover_url
  photoCount,    \* places.photo_count
  visitorCount,  \* places.visitor_count
  photos,        \* rows of photos
  footprints,    \* keys (user_id, place_id) of the rows of footprints
  pc,            \* the statement each goroutine executes next
  req,           \* the request it serves, with the handler's local variables
  posts,         \* creating and publishing requests accepted so far
  faults         \* failed statements and crashes so far

tables == <<spot, cover, photoCount, visitorCount, photos, footprints>>
vars   == <<spot, cover, photoCount, visitorCount, photos, footprints,
            pc, req, posts, faults>>

-----------------------------------------------------------------------------
Spot        == [name : Names, pos : Positions]
Photo       == [id : Nat, place : PlaceIds, user : Users, pos : Positions,
                img : Images]
DetailReq   == [user : Users, place : PlaceIds]
CreateReq   == [user : Users, name : Names, pos : Positions, cover : Covers]
PublishReq  == [user : Users, place : PlaceIds \cup {None}, name : Names,
                pos : Positions, imgs : Batches, next : Nat]

\* Statements of PublishPhotos that come after the place is settled.
Placed == {"check", "photos", "count", "readCover", "setCover", "footprint"}

Exists(pl)   == spot[pl] # None
PhotosAt(pl) == {ph \in photos : ph.place = pl}
Visitors(pl) == {u \in Users : <<u, pl>> \in footprints}
Within(x, y, d) == x - y <= d /\ y - x <= d

\* SELECT latitude, longitude: the Go variables keep 0 when no row answers.
ReadPos(pl)  == IF Exists(pl) THEN spot[pl].pos ELSE 0

\* Mistake: a look-up by name that sees only places with a shown photo count.
NameMatchesWithPhotos(n, x) ==
  {pl \in PlaceIds : /\ Exists(pl) /\ photoCount[pl] > 0
                     /\ spot[pl].name = n
                     /\ Within(spot[pl].pos, x, NameBox)}

\* The rows the two look-ups match; LIMIT 1 returns any of them.
AutoMatches(x) == {pl \in PlaceIds : Exists(pl) /\ Within(spot[pl].pos, x, AutoBox)}
NameMatches(n, x) ==
  {pl \in PlaceIds : /\ Exists(pl)
                     /\ spot[pl].name = n
                     /\ Within(spot[pl].pos, x, NameBox)}

Fault == faults < MaxFaults /\ faults' = faults + 1

\* UPDATE places SET a column WHERE id = pl: without the row it changes nothing.
UpdateRow(column, pl, v) ==
  IF Exists(pl) THEN [column EXCEPT ![pl] = v] ELSE column

\* An Exec whose error the handler ignores: it changes `table` or it fails.
Attempt(effect, table) ==
  \/ effect /\ UNCHANGED faults
  \/ Fault /\ UNCHANGED table

\* A QueryRow whose error the handler ignores: the variable it scans into keeps
\* its zero value when the query fails, as when no row matches.
Finds(found)  == found /\ UNCHANGED faults
Misses(found) == (~found /\ UNCHANGED faults) \/ Fault

Reads(x, value) == (x = value /\ UNCHANGED faults) \/ (x = 0 /\ Fault)

Goto(p, l) == pc' = [pc EXCEPT ![p] = l]
Finish(p)  == Goto(p, "idle") /\ req' = [req EXCEPT ![p] = None]
Serve(p, r, l) ==
  /\ pc[p] = "idle"
  /\ req' = [req EXCEPT ![p] = r]
  /\ Goto(p, l)
Post == posts < MaxPosts /\ posts' = posts + 1

\* INSERT INTO places: the key is the next AUTO_INCREMENT value.
InsertPlace(pl, n, x, c) ==
  /\ pl \in PlaceIds /\ ~Exists(pl)
  /\ \A q \in PlaceIds : q < pl => Exists(q)
  /\ spot' = [spot EXCEPT ![pl] = [name |-> n, pos |-> x]]
  /\ cover' = [cover EXCEPT ![pl] = c]
  /\ UNCHANGED <<photoCount, visitorCount, photos, footprints>>

InsertFootprint(u, pl) == footprints' = footprints \cup {<<u, pl>>}

Init ==
  /\ spot = [pl \in PlaceIds |-> None]
  /\ cover = [pl \in PlaceIds |-> None]
  /\ photoCount = [pl \in PlaceIds |-> 0]
  /\ visitorCount = [pl \in PlaceIds |-> 0]
  /\ photos = {}
  /\ footprints = {}
  /\ pc = [p \in Procs |-> "idle"]
  /\ req = [p \in Procs |-> None]
  /\ posts = 0
  /\ faults = 0

-----------------------------------------------------------------------------
(* GetPlaceDetail by a logged-in user; without a row it answers 404.        *)

DetailFind(p) ==
  /\ \E u \in Users, pl \in PlaceIds :
       /\ Exists(pl)
       /\ Serve(p, [user |-> u, place |-> pl], "detailFootprint")
  /\ UNCHANGED <<tables, posts, faults>>

DetailFootprint(p) ==
  /\ pc[p] = "detailFootprint"
  /\ Attempt(InsertFootprint(req[p].user, req[p].place), footprints)
  /\ Goto(p, "detailCount")
  /\ UNCHANGED <<spot, cover, photoCount, visitorCount, photos, req, posts>>

\* Mistake: one more visitor on every visit, where the code counts distinct users.
DetailCountByIncrement(p) ==
  LET pl == req[p].place IN
  /\ pc[p] = "detailCount"
  /\ Attempt(visitorCount' = [visitorCount EXCEPT ![pl] = @ + 1], visitorCount)
  /\ Finish(p)
  /\ UNCHANGED <<spot, cover, photoCount, photos, footprints, posts>>

DetailCount(p) ==
  LET pl == req[p].place IN
  /\ pc[p] = "detailCount"
  /\ Attempt(visitorCount' = [visitorCount EXCEPT ![pl] = Cardinality(Visitors(pl))],
             visitorCount)
  /\ Finish(p)
  /\ UNCHANGED <<spot, cover, photoCount, photos, footprints, posts>>

-----------------------------------------------------------------------------
(* CreatePlace: look for a place of the same name nearby, answer 409 if one *)
(* is found, insert otherwise.                                              *)

CreateFind(p) ==
  /\ \E u \in Users, n \in Names, x \in Positions, c \in Covers :
       /\ Misses(NameMatches(n, x) # {})
       /\ Serve(p, [user |-> u, name |-> n, pos |-> x, cover |-> c], "createInsert")
  /\ Post
  /\ UNCHANGED tables

CreateInsert(p) ==
  /\ pc[p] = "createInsert"
  /\ \/ /\ \E pl \in PlaceIds :
             InsertPlace(pl, req[p].name, req[p].pos, req[p].cover)
        /\ UNCHANGED faults
     \/ Fault /\ UNCHANGED tables
  /\ Finish(p)
  /\ UNCHANGED posts

-----------------------------------------------------------------------------
(* PublishPhotos.                                                           *)

PublishReqOf(u, pl, n, x, imgs) ==
  [user |-> u, place |-> pl, name |-> n, pos |-> x, imgs |-> imgs, next |-> 1]

\* The request names its place, which may have no row.
PublishTo(p) ==
  /\ \E u \in Users, pl \in PlaceIds, n \in Names, x \in Positions, b \in Batches :
       Serve(p, PublishReqOf(u, pl, n, x, b), "check")
  /\ Post
  /\ UNCHANGED <<tables, faults>>

\* The request names no place: take any place in the box around the position...
PublishFound(p) ==
  /\ \E u \in Users, n \in Names, x \in Positions, b \in Batches :
       \E pl \in AutoMatches(x) : Serve(p, PublishReqOf(u, pl, n, x, b), "check")
  /\ Post
  /\ UNCHANGED <<tables, faults>>

\* ... or go on to create one.
PublishNotFound(p) ==
  /\ \E u \in Users, n \in Names, x \in Positions, b \in Batches :
       /\ Misses(AutoMatches(x) # {})
       /\ Serve(p, PublishReqOf(u, None, n, x, b), "publishInsert")
  /\ Post
  /\ UNCHANGED tables

\* A failed INSERT ends the request with 500.  It may have taken effect and
\* lost its answer to the client timeout: the place then stays.
PublishInsert(p) ==
  /\ pc[p] = "publishInsert"
  /\ \/ \E pl \in PlaceIds :
          /\ InsertPlace(pl, req[p].name, req[p].pos, None)
          /\ \/ /\ req' = [req EXCEPT ![p].place = pl]
                /\ Goto(p, "check")
                /\ UNCHANGED faults
             \/ Fault /\ Finish(p)
     \/ Fault /\ Finish(p) /\ UNCHANGED tables
  /\ UNCHANGED posts

\* Mistake: the place id of the request is taken as it comes.
PublishUnchecked(p) ==
  /\ pc[p] = "check"
  /\ Goto(p, "photos")
  /\ UNCHANGED <<req, faults, tables, posts>>

\* The 500 m rule, on the position read back: that of the row, or 0 when there is
\* no row or the query fails, and near (0, 0) that passes too.
PublishCheck(p) ==
  /\ pc[p] = "check"
  /\ \E x \in Positions \cup {0} :
       /\ Reads(x, ReadPos(req[p].place))
       /\ \/ Within(req[p].pos, x, ReachBox) /\ Goto(p, "photos") /\ UNCHANGED req
          \/ ~Within(req[p].pos, x, ReachBox) /\ Finish(p)
  /\ UNCHANGED <<tables, posts>>

\* Mistake: the loop over the images runs one past the end.
PublishPhotoPastEnd(p) ==
  LET r == req[p] IN
  /\ pc[p] = "photos"
  /\ Attempt(photos' = photos \cup
               {[id |-> Cardinality(photos) + 1, place |-> r.place, user |-> r.user,
                 pos |-> r.pos, img |-> r.imgs[1]]},
             photos)
  /\ req' = [req EXCEPT ![p].next = r.next + 1]
  /\ IF r.next > Len(r.imgs) THEN Goto(p, "count") ELSE UNCHANGED pc
  /\ UNCHANGED <<spot, cover, photoCount, visitorCount, footprints, posts>>

\* One INSERT INTO photos per image; an image whose INSERT fails is skipped.
PublishPhoto(p) ==
  LET r == req[p] IN
  /\ pc[p] = "photos"
  /\ Attempt(photos' = photos \cup
               {[id |-> Cardinality(photos) + 1, place |-> r.place, user |-> r.user,
                 pos |-> r.pos, img |-> r.imgs[r.next]]},
             photos)
  /\ req' = [req EXCEPT ![p].next = r.next + 1]
  /\ IF r.next = Len(r.imgs) THEN Goto(p, "count") ELSE UNCHANGED pc
  /\ UNCHANGED <<spot, cover, photoCount, visitorCount, footprints, posts>>

\* Mistake: the number of images in the request is added, inserted or not.
PublishCountByIncrement(p) ==
  LET pl == req[p].place IN
  /\ pc[p] = "count"
  /\ Attempt(photoCount' = UpdateRow(photoCount, pl, photoCount[pl] + Len(req[p].imgs)),
             photoCount)
  /\ Goto(p, "readCover")
  /\ UNCHANGED <<spot, cover, visitorCount, photos, footprints, req, posts>>

\* Mistake: like the cover, the count is written only while it is missing.
PublishCountWhenMissing(p) ==
  LET pl == req[p].place IN
  /\ pc[p] = "count"
  /\ Attempt(photoCount' = IF photoCount[pl] = 0
                THEN UpdateRow(photoCount, pl, Cardinality(PhotosAt(pl))) ELSE photoCount,
             photoCount)
  /\ Goto(p, "readCover")
  /\ UNCHANGED <<spot, cover, visitorCount, photos, footprints, req, posts>>

\* UPDATE places SET photo_count = (SELECT COUNT(*) ...), one statement.
PublishCount(p) ==
  LET pl == req[p].place IN
  /\ pc[p] = "count"
  /\ Attempt(photoCount' = UpdateRow(photoCount, pl, Cardinality(PhotosAt(pl))),
             photoCount)
  /\ Goto(p, "readCover")
  /\ UNCHANGED <<spot, cover, visitorCount, photos, footprints, req, posts>>

\* Mistake: the test on the cover read back is inverted.
PublishReadCoverInverted(p) ==
  /\ pc[p] = "readCover"
  /\ \/ Finds(cover[req[p].place] # None) /\ Goto(p, "setCover")
     \/ Misses(cover[req[p].place] # None) /\ Goto(p, "footprint")
  /\ UNCHANGED <<tables, req, posts>>

\* A failed read leaves existingCover empty, as a place without cover does.
PublishReadCover(p) ==
  /\ pc[p] = "readCover"
  /\ \/ Finds(cover[req[p].place] # None) /\ Goto(p, "footprint")
     \/ Misses(cover[req[p].place] # None) /\ Goto(p, "setCover")
  /\ UNCHANGED <<tables, req, posts>>

PublishSetCover(p) ==
  /\ pc[p] = "setCover"
  /\ Attempt(cover' = UpdateRow(cover, req[p].place, req[p].imgs[1]), cover)
  /\ Goto(p, "footprint")
  /\ UNCHANGED <<spot, photoCount, visitorCount, photos, footprints, req, posts>>

\* The last statement; checkAchievements is then started on its own goroutine.
PublishFootprint(p) ==
  /\ pc[p] = "footprint"
  /\ Attempt(InsertFootprint(req[p].user, req[p].place), footprints)
  /\ Finish(p)
  /\ UNCHANGED <<spot, cover, photoCount, visitorCount, photos, posts>>

-----------------------------------------------------------------------------
\* The process dies: requests in flight are gone, the tables stay.
Crash ==
  /\ Fault
  /\ pc' = [p \in Procs |-> "idle"]
  /\ req' = [p \in Procs |-> None]
  /\ UNCHANGED <<tables, posts>>

Request(p) ==
  DetailFind(p) \/ CreateFind(p) \/ PublishTo(p) \/ PublishFound(p) \/ PublishNotFound(p)

Continue(p) ==
  \/ DetailFootprint(p) \/ DetailCount(p)
  \/ CreateInsert(p)
  \/ PublishInsert(p) \/ PublishCheck(p) \/ PublishPhoto(p) \/ PublishCount(p)
  \/ PublishReadCover(p) \/ PublishSetCover(p) \/ PublishFootprint(p)

Next == (\E p \in Procs : Request(p) \/ Continue(p)) \/ Crash

Spec == Init /\ [][Next]_vars

\* A goroutine runs its handler to the end; nothing obliges clients to call.
FairSpec == Spec /\ \A p \in Procs : WF_vars(Continue(p))

-----------------------------------------------------------------------------
(* Properties.                                                              *)

\* The request r a goroutine serves when its next statement is l.
Fits(l, r) ==
  /\ l \in {"detailFootprint", "detailCount"} => r \in DetailReq
  /\ l = "createInsert" => r \in CreateReq
  /\ l \in {"publishInsert"} \cup Placed => r \in PublishReq
  /\ l \in Placed => r.place \in PlaceIds
  /\ l \in {"publishInsert", "check"} => r.next = 1
  /\ l = "photos" => r.next \in 1..Len(r.imgs)

\* Every row and every goroutine's local variables have the shape the code gives.
TypeOK ==
  /\ spot \in [PlaceIds -> Spot \cup {None}]
  /\ cover \in [PlaceIds -> Images \cup {None}]
  /\ photoCount \in [PlaceIds -> Nat]
  /\ visitorCount \in [PlaceIds -> Nat]
  /\ photos \in SUBSET Photo /\ IsFiniteSet(photos)
  /\ footprints \in SUBSET (Users \X PlaceIds)
  /\ posts \in Nat
  /\ faults \in 0..MaxFaults
  /\ pc \in [Procs -> {"idle", "detailFootprint", "detailCount", "createInsert",
                       "publishInsert"} \cup Placed]
  /\ req \in [Procs -> DetailReq \cup CreateReq \cup PublishReq \cup {None}]
  /\ \A p \in Procs : Fits(pc[p], req[p])

\* A photo taken near (0, 0) may have passed the distance test on coordinates
\* that are no place's; the others at pl have passed it on the row of pl.
AtOrigin(x)  == Within(x, 0, ReachBox)
TestedAt(pl) == {ph \in PhotosAt(pl) : ~AtOrigin(ph.pos)}

\* A publisher that may have inserted photos at pl and not recounted them yet.
OwesCount(p, pl) == pc[p] \in {"photos", "count"} /\ req[p].place = pl

\* The photo_count shown for a place is never more than its photos, and it is
\* not less either unless a publisher still has its recount ahead, or a statement
\* or the server failed: recounting after the inserts makes concurrent publishers
\* repair each other's counts, where an increment or a stale count would not.
\* (Photos taken near (0, 0) may be older than the row of their place.)
PhotoCountAccounted ==
  \A pl \in PlaceIds :
    /\ photoCount[pl] <= Cardinality(PhotosAt(pl))
    /\ (faults = 0 /\ ~\E p \in Procs : OwesCount(p, pl))
         => photoCount[pl] >= Cardinality(TestedAt(pl))

\* The visitor_count shown for a place never exceeds the users with a footprint
\* there, whatever fails.  It may lag: PublishPhotos adds a footprint and leaves
\* the count to the next GetPlaceDetail.
VisitorCountNotOverstated ==
  \A pl \in PlaceIds : visitorCount[pl] <= Cardinality(Visitors(pl))

\* Every photo row hangs on an existing place at most 500 m from where it was
\* taken, however the publisher came by its place id (photos has no foreign key),
\* or it was taken within 500 m of (0, 0): a place id without a row, or whose
\* read failed, takes photos there and nowhere else.
PhotosNearTheirPlace ==
  \A ph \in photos :
    \/ Exists(ph.place) /\ Within(ph.pos, spot[ph.place].pos, ReachBox)
    \/ AtOrigin(ph.pos)

Twins(n, x) == {pl \in PlaceIds : spot[pl] = [name |-> n, pos |-> x]}

\* The look-up and the INSERT are separate statements and no key forbids two
\* places of one name on one spot.  Overlapping requests can each insert one,
\* and each failed look-up lets one more in, but there are never more than
\* goroutines and failures: once the first row is there, no look-up that is
\* answered misses it, not even when the INSERT itself lost its answer.
TwinsBoundedByConcurrency ==
  \A n \in Names, x \in Positions :
    Cardinality(Twins(n, x)) <= Cardinality(Procs) + faults

\* A publisher at pl that has not finished with the cover.
OwesCover(p, pl) ==
  pc[p] \in {"photos", "count", "readCover", "setCover"} /\ req[p].place = pl

\* As long as nothing fails, a place shows as cover the image its creator gave
\* or an image of a photo published there, and a place with photos has a cover
\* once its publishers are past that step.
CoverAccounted ==
  faults = 0 =>
    \A pl \in PlaceIds :
      /\ cover[pl] \in Covers \cup {None} \cup {ph.img : ph \in PhotosAt(pl)}
      /\ (TestedAt(pl) # {} /\ ~\E p \in Procs : OwesCover(p, pl)) => cover[pl] # None

\* Without failures the shown counts and covers come to rest on the truth once
\* clients stop publishing: no interleaving leaves a wrong photo_count behind.
PublishesSettle ==
  <>[](faults > 0 \/ \A pl \in PlaceIds :
          /\ photoCount[pl] \in Cardinality(TestedAt(pl)) .. Cardinality(PhotosAt(pl))
          /\ TestedAt(pl) # {} => cover[pl] # None)

=============================================================================
