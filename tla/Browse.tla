------------------------------- MODULE Browse -------------------------------
(***************************************************************************)
(* Lists that are read while they change (handler/place.go): the photos of *)
(* a place, of a user and a user's favourites, page by page with LIMIT and *)
(* OFFSET, and the places near a position, with a LIMIT before the test of *)
(* the distance.                                                           *)
(*                                                                         *)
(* Each request is one query over the rows of its moment, nothing joins    *)
(* the pages of a reader, and rows of equal rank come in an order of the   *)
(* database's choice, a new one for each query: created_at is a DATETIME,  *)
(* a whole second, and PublishPhotos inserts a batch within one.           *)
(***************************************************************************)
EXTENDS Integers, FiniteSets, Sequences, FiniteSetsExt

CONSTANTS
  DefaultSize, LargestSize, \* 20 and 50 rows
  Limit,      \* places GetNearbyPlaces looks at, 100
  Radius,     \* radius of a nearby request, in units of latitude
  Offsets,    \* where places are, <<north, east>> of the request, in degrees
  CosPercent, \* length of a degree of longitude there, in % of one of latitude
  Sizes,      \* page_size clients ask for
  MaxRows,    \* bound: rows of the list
  MaxSeconds, \* bound: seconds in a behaviour
  MaxMoves    \* bound: likes and removals in a behaviour

ASSUME BrowseAssumption ==
  /\ DefaultSize \in Nat \ {0} /\ LargestSize \in Nat /\ DefaultSize <= LargestSize
  /\ Limit \in Nat \ {0} /\ Radius \in Nat /\ CosPercent \in 0..100
  /\ Offsets \subseteq Int \X Int /\ Sizes \subseteq Int
  /\ MaxRows \in Nat /\ MaxSeconds \in Nat /\ MaxMoves \in Nat

VARIABLES
  list,    \* the list that is read
  at,      \* created_at of each row, in the order of insertion
  weight,  \* its like_count (of a place: photo_count)
  offset,  \* where it is (a place)
  gone,    \* rows that were removed
  now,     \* the second
  ask,     \* the request of the reader: sort, page_size and the next page
  begin,   \* the rows there were when it got its first page
  got,     \* the pages it got
  moves,   \* likes and removals so far
  moved    \* ... of which one since the first page has changed the order

browseVars == <<list, at, weight, offset, gone, now, ask, begin, got, moves, moved>>

-----------------------------------------------------------------------------
Rows == DOMAIN at
Live == Rows \ gone

\* What the query orders by.
Key(x) ==
  CASE ask.sort = "oldest"  -> at[x]
    [] ask.sort = "popular" -> -weight[x]
    [] OTHER                -> -at[x]

\* Row x comes before row y.
Before(x, y) == Key(x) < Key(y)

\* What ORDER BY ... LIMIT n OFFSET k may return of the rows S.
Slices(S, n, k) ==
  LET leads(A, B) == \A x \in A, y \in B : ~Before(y, x)
      size(m) == IF m < 0 THEN 0 ELSE IF m > n THEN n ELSE m IN
  {P \in SUBSET S :
     /\ Cardinality(P) = size(Cardinality(S) - k)
     /\ P = {} \/ \E A \in SUBSET (S \ P) :
          Cardinality(A) = k /\ leads(A, S \ A) /\ leads(P, S \ (A \cup P))}

PageSize == IF ask.size <= 0 \/ ask.size > LargestSize THEN DefaultSize ELSE ask.size
Page     == IF ask.page <= 0 THEN 1 ELSE ask.page

\* Mistake: pages are counted from 0.
SkipsOnePage == Page * PageSize

\* Mistake: the offset is a page and no row.
SkipsRows == Page - 1

Skip == (Page - 1) * PageSize

\* Mistake: a degree is a thousand kilometres.
InBoxSmall(x) == \A i \in 1..2 : offset[x][i] = 0

\* The box of GetNearbyPlaces: as many degrees of longitude as of latitude.
InBox(x) == \A i \in 1..2 : -Radius <= offset[x][i] /\ offset[x][i] <= Radius

\* CalcDistance: over distances this small the Earth is flat.
WithinRadius(x) ==
  LET square(n) == n * n IN
  square(100 * offset[x][1]) + square(CosPercent * offset[x][2]) <= square(100 * Radius)

Began == got # << >>
Ended == Began /\ (list = "nearby" \/ got[Len(got)] = {})

BrowseInit ==
  /\ list \in {"place", "user", "favorites", "nearby"}
  /\ at = << >> /\ weight = << >> /\ offset = << >> /\ gone = {} /\ now = 1
  /\ ask \in [sort : CASE list = "place"  -> {"newest", "oldest", "popular"}
                       [] list = "nearby" -> {"popular"}
                       [] OTHER           -> {"newest"},
              size : IF list = "nearby" THEN {0} ELSE Sizes,
              page : IF list = "nearby" THEN {1} ELSE {0, 1}]
  /\ begin = {} /\ got = << >> /\ moves = 0 /\ moved = FALSE

-----------------------------------------------------------------------------
(* The readers.                                                             *)

\* GetPlacePhotos, GetUserPhotos, GetUserFavorites: one page, and the reader goes
\* on to the next until one is empty.
Read ==
  /\ list # "nearby" /\ ~Ended
  /\ \E P \in Slices(Live, PageSize, Skip) : got' = Append(got, P)
  /\ begin' = IF Began THEN begin ELSE Live
  /\ ask' = [ask EXCEPT !.page = @ + 1]
  /\ UNCHANGED <<list, at, weight, offset, gone, now, moves, moved>>

\* GetNearbyPlaces: the first Limit places of the box, and of them those near.
Nearby ==
  /\ list = "nearby" /\ ~Ended
  /\ \E P \in Slices({x \in Live : InBox(x)}, Limit, 0) :
       got' = <<{x \in P : WithinRadius(x)}>>
  /\ begin' = Live
  /\ UNCHANGED <<list, at, weight, offset, gone, now, ask, moves, moved>>

-----------------------------------------------------------------------------
(* What changes the lists.                                                  *)

\* PublishPhotos, FavoritePhoto, CreatePlace: a row more.
Insert ==
  /\ Len(at) < MaxRows /\ ~Ended
  /\ at' = Append(at, now)
  /\ weight' = Append(weight, 0)
  /\ \E o \in IF list = "nearby" THEN Offsets ELSE {<<0, 0>>} : offset' = Append(offset, o)
  /\ UNCHANGED <<list, gone, now, ask, begin, got, moves, moved>>

\* LikePhoto, or a photo published at a place: a row gains weight.  It is left out
\* where the order does not look at the weight, as the clock is where it does.
Gain ==
  /\ ask.sort = "popular" /\ moves < MaxMoves /\ moves' = moves + 1 /\ ~Ended
  /\ \E x \in Live : weight' = [weight EXCEPT ![x] = @ + 1]
  /\ moved' = (moved \/ Began)
  /\ UNCHANGED <<list, at, offset, gone, now, ask, begin, got>>

\* FavoritePhoto with action "remove"; nothing else takes a row off its list.
Unfavorite ==
  /\ list = "favorites" /\ moves < MaxMoves /\ moves' = moves + 1 /\ ~Ended
  /\ \E x \in Live : gone' = gone \cup {x}
  /\ moved' = (moved \/ Began)
  /\ UNCHANGED <<list, at, weight, offset, now, ask, begin, got>>

Tick ==
  /\ ask.sort # "popular" /\ now < MaxSeconds /\ now' = now + 1 /\ ~Ended
  /\ UNCHANGED <<list, at, weight, offset, gone, ask, begin, got, moves, moved>>

BrowseNext == Read \/ Nearby \/ Insert \/ Gain \/ Unfavorite \/ Tick

BrowseSpec == BrowseInit /\ [][BrowseNext]_browseVars

-----------------------------------------------------------------------------
(* Properties.                                                              *)

Pages == {got[i] : i \in DOMAIN got}
Tied(x) == \E y \in Rows \ {x} : ~Before(x, y) /\ ~Before(y, x)

\* A reader who pages to the end of a list has seen every row that was there from
\* the first page on, whatever was published meanwhile: unless a removal or a
\* like reordered the list under it, or another row has the same rank.
MissedOnlyIfReordered ==
  (Ended /\ list # "nearby" /\ ~moved) =>
    \A x \in begin \ gone : x \in UNION Pages \/ Tied(x)

\* It is shown a row again at most once for each row published since its first
\* page, in front of those it has read; oldest or most popular first, never.
\* (A client that counts its pages from 0 is shown the first page twice.)
RepeatsBoundedByInserts ==
  (list # "nearby" /\ ~moved /\ \A x \in Rows : ~Tied(x)) =>
    LET size  == [i \in DOMAIN got |-> Cardinality(got[i])]
        shown == MapThenSumSet(LAMBDA i : size[i], DOMAIN got)
        again == shown - Cardinality(UNION Pages)
        zero  == IF Began /\ ask.page <= Len(got) THEN Cardinality(got[1]) ELSE 0 IN
    again <= zero + (IF ask.sort = "newest" THEN Cardinality(Rows \ begin) ELSE 0)

\* A place within the radius that GetNearbyPlaces leaves out lies further east or
\* west than the box, which takes a degree of longitude for one of latitude, or
\* Limit places of the box have as many photos or more, near or not.
NearbyMissesExplained ==
  (Ended /\ list = "nearby") =>
    \A x \in begin : (WithinRadius(x) /\ x \notin got[1]) =>
      \/ offset[x][2] \notin (-Radius)..Radius
      \/ Cardinality({y \in begin \ {x} : InBox(y) /\ ~Before(x, y)}) >= Limit

=============================================================================
