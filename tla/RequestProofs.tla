---------------------------- MODULE RequestProofs ----------------------------
(* Theorems about requests: their way through the layers (Pipeline), for    *)
(* any methods, paths, users and tokens; and what the lists they read can   *)
(* miss or repeat (Browse), for any rows, page sizes and changes.           *)
EXTENDS Pipeline, Browse, SumProofs, SequenceTheorems

-----------------------------------------------------------------------------
(* What the routes have in common.                                          *)

\* A route is wrapped in layers and asks for GET or POST, or it is one of the two
\* that are not wrapped.
Good(r) ==
  \/ r.wrap \in {"plain", "auth", "optional"} /\ r.method \in {"GET", "POST"}
  \/ r.wrap = "bare" /\ r.handler \in {"health", "static"}

LEMMA WrappedGood ==
  ASSUME NEW m, NEW path, NEW wrap, NEW h,
         m \in {"GET", "POST"}, wrap \in {"plain", "auth", "optional"}
  PROVE  Good(Route(m, path, wrap, h))
BY DEF Route, Good

LEMMA BareGood ==
  ASSUME NEW m, NEW path, NEW h, h \in {"health", "static"}
  PROVE  Good(Route(m, path, "bare", h))
BY DEF Route, Good

LEMMA FiveGood ==
  ASSUME NEW a, NEW b, NEW c, NEW d, NEW e, Good(a), Good(b), Good(c), Good(d), Good(e)
  PROVE  \A i \in 1..5 : Good(<<a, b, c, d, e>>[i])
OBVIOUS

LEMMA UserRoutesGood == \A i \in 1..8 : Good(UserRoutes[i])
<1>1. /\ Good(UserRoutes[1]) /\ Good(UserRoutes[2]) /\ Good(UserRoutes[3]) /\ Good(UserRoutes[4])
      /\ Good(UserRoutes[5]) /\ Good(UserRoutes[6]) /\ Good(UserRoutes[7]) /\ Good(UserRoutes[8])
  BY WrappedGood DEF UserRoutes
<1>2. QED
  BY <1>1

LEMMA PlaceRoutesGood == \A i \in 1..5 : Good(PlaceRoutes[i])
BY WrappedGood, FiveGood DEF PlaceRoutes

LEMMA PhotoRoutesGood == \A i \in 1..5 : Good(PhotoRoutes[i])
BY WrappedGood, FiveGood DEF PhotoRoutes

LEMMA OtherRoutesGood == \A i \in 1..5 : Good(OtherRoutes[i])
<1>1. Good(OtherRoutes[1]) /\ Good(OtherRoutes[2]) /\ Good(OtherRoutes[3])
  BY WrappedGood DEF OtherRoutes
<1>2. Good(OtherRoutes[4]) /\ Good(OtherRoutes[5])
  BY BareGood DEF OtherRoutes
<1>3. QED
  BY <1>1, <1>2

Listed ==
  {UserRoutes[i] : i \in 1..8} \cup {PlaceRoutes[i] : i \in 1..5}
    \cup {PhotoRoutes[i] : i \in 1..5} \cup {OtherRoutes[i] : i \in 1..5}

\* Sequences of five.
LEMMA FiveListed ==
  ASSUME NEW a, NEW b, NEW c, NEW d, NEW e, NEW S,
         \A i \in 1..5 : <<a, b, c, d, e>>[i] \in S
  PROVE  <<a, b, c, d, e>> \in Seq(S)
OBVIOUS

LEMMA GroupsListed ==
  /\ UserRoutes \in Seq(Listed) /\ PlaceRoutes \in Seq(Listed)
  /\ PhotoRoutes \in Seq(Listed) /\ OtherRoutes \in Seq(Listed)
<1>1. UserRoutes \in Seq(Listed)
  <2>1. \A i \in 1..8 : UserRoutes[i] \in Listed
    BY DEF Listed
  <2>2. QED
    BY <2>1 DEF UserRoutes
<1>2. PlaceRoutes \in Seq(Listed)
  <2>1. \A i \in 1..5 : PlaceRoutes[i] \in Listed
    BY DEF Listed
  <2>2. QED
    BY <2>1, FiveListed DEF PlaceRoutes
<1>3. PhotoRoutes \in Seq(Listed)
  <2>1. \A i \in 1..5 : PhotoRoutes[i] \in Listed
    BY DEF Listed
  <2>2. QED
    BY <2>1, FiveListed DEF PhotoRoutes
<1>4. OtherRoutes \in Seq(Listed)
  <2>1. \A i \in 1..5 : OtherRoutes[i] \in Listed
    BY DEF Listed
  <2>2. QED
    BY <2>1, FiveListed DEF OtherRoutes
<1>5. QED
  BY <1>1, <1>2, <1>3, <1>4

LEMMA RoutesListed == Routes \in Seq(Listed)
BY GroupsListed, ConcatProperties DEF Routes

LEMMA RoutesGood == \A i \in DOMAIN Routes : Good(Routes[i])
<1>1. \A r \in Listed : Good(r)
  BY UserRoutesGood, PlaceRoutesGood, PhotoRoutesGood, OtherRoutesGood DEF Listed
<1>2. QED
  BY <1>1, RoutesListed

-----------------------------------------------------------------------------
(* No route takes a path that a later one spells out.                       *)

\* What can keep route r from the path that route q spells out.
Apart(r, q) ==
  /\ Last(r.path) # "*"
  /\ \/ r.method # "" /\ r.method # q.method
     \/ Len(r.path) # Len(q.path)
     \/ \E j \in 1..Len(r.path) : r.path[j] # ":id" /\ r.path[j] # q.path[j]

LEMMA ApartRefuses ==
  ASSUME NEW r, NEW q, Apart(r, q)
  PROVE  ~Accepts(r, q.method, q.path)
BY DEF Apart, Accepts, Matches

\* No route takes what a later one spells out.
Unshadowed(s) == \A i, k \in 1..Len(s) : i < k => Apart(s[i], s[k])

LEMMA UnshadowedConcat ==
  ASSUME NEW S, NEW s \in Seq(S), NEW t \in Seq(S), Unshadowed(s), Unshadowed(t),
         \A i \in 1..Len(s), k \in 1..Len(t) : Apart(s[i], t[k])
  PROVE  Unshadowed(s \o t)
<1>1. /\ s \o t \in Seq(S) /\ Len(s \o t) = Len(s) + Len(t) /\ Len(s) \in Nat /\ Len(t) \in Nat
      /\ \A i \in 1..(Len(s) + Len(t)) : (s \o t)[i] = IF i <= Len(s) THEN s[i] ELSE t[i - Len(s)]
  BY ConcatProperties
<1> SUFFICES ASSUME NEW i \in 1..(Len(s) + Len(t)), NEW k \in 1..(Len(s) + Len(t)), i < k
             PROVE  Apart((s \o t)[i], (s \o t)[k])
  BY <1>1 DEF Unshadowed
<1>2. CASE k <= Len(s)
  <2>1. i \in 1..Len(s) /\ k \in 1..Len(s) /\ (s \o t)[i] = s[i] /\ (s \o t)[k] = s[k]
    BY <1>1, <1>2
  <2>2. QED
    BY <2>1 DEF Unshadowed
<1>3. CASE i <= Len(s) /\ ~(k <= Len(s))
  <2>1. /\ i \in 1..Len(s) /\ k - Len(s) \in 1..Len(t)
        /\ (s \o t)[i] = s[i] /\ (s \o t)[k] = t[k - Len(s)]
    BY <1>1, <1>3
  <2>2. QED
    BY <2>1
<1>4. CASE ~(i <= Len(s))
  <2>1. /\ i - Len(s) \in 1..Len(t) /\ k - Len(s) \in 1..Len(t) /\ i - Len(s) < k - Len(s)
        /\ (s \o t)[i] = t[i - Len(s)] /\ (s \o t)[k] = t[k - Len(s)]
    BY <1>1, <1>4
  <2>2. QED
    BY <2>1 DEF Unshadowed
<1>5. QED
  BY <1>1, <1>2, <1>3, <1>4

Three(r, m, b, c) ==
  /\ r.method = m /\ Len(r.path) = 3 /\ Last(r.path) = c
  /\ r.path[1] = "api" /\ r.path[2] = b /\ r.path[3] = c

Four(r, m, b, c, d) ==
  /\ r.method = m /\ Len(r.path) = 4 /\ Last(r.path) = d
  /\ r.path[1] = "api" /\ r.path[2] = b /\ r.path[3] = c /\ r.path[4] = d

LEMMA RouteThree ==
  ASSUME NEW m, NEW b, NEW c, NEW w, NEW h
  PROVE  Three(Route(m, <<"api", b, c>>, w, h), m, b, c)
BY DEF Three, Route, Last

LEMMA RouteFour ==
  ASSUME NEW m, NEW b, NEW c, NEW d, NEW w, NEW h
  PROVE  Four(Route(m, <<"api", b, c, d>>, w, h), m, b, c, d)
BY DEF Four, Route, Last

LEMMA UserTable ==
  /\ Three(UserRoutes[1], "POST", "user", "login")
  /\ Three(UserRoutes[2], "GET", "user", "info")
  /\ Three(UserRoutes[3], "POST", "user", "update")
  /\ Three(UserRoutes[4], "GET", "user", "stats")
  /\ Three(UserRoutes[5], "GET", "user", "achievements")
  /\ Three(UserRoutes[6], "GET", "user", "photos")
  /\ Three(UserRoutes[7], "GET", "user", "favorites")
  /\ Three(UserRoutes[8], "GET", "user", "footprints")
BY RouteThree DEF UserRoutes

LEMMA PlaceTable ==
  /\ Three(PlaceRoutes[1], "GET", "places", "nearby")
  /\ Three(PlaceRoutes[2], "GET", "places", "search")
  /\ Three(PlaceRoutes[3], "POST", "places", "create")
  /\ Three(PlaceRoutes[4], "GET", "places", ":id")
  /\ Four(PlaceRoutes[5], "GET", "places", ":id", "photos")
BY RouteThree, RouteFour DEF PlaceRoutes

LEMMA PhotoTable ==
  /\ Three(PhotoRoutes[1], "POST", "photos", "publish")
  /\ Three(PhotoRoutes[2], "GET", "photos", ":id")
  /\ Four(PhotoRoutes[3], "POST", "photos", ":id", "like")
  /\ Four(PhotoRoutes[4], "GET", "photos", ":id", "comments")
  /\ Four(PhotoRoutes[5], "POST", "photos", ":id", "comments")
BY RouteThree, RouteFour DEF PhotoRoutes

Two(r, m, a, b) ==
  /\ r.method = m /\ Len(r.path) = 2 /\ Last(r.path) = b
  /\ r.path[1] = a /\ r.path[2] = b

LEMMA RouteTwo ==
  ASSUME NEW m, NEW a, NEW b, NEW w, NEW h
  PROVE  Two(Route(m, <<a, b>>, w, h), m, a, b)
BY DEF Two, Route, Last

One(r, a) == Len(r.path) = 1 /\ Last(r.path) = a

LEMMA RouteOne ==
  ASSUME NEW m, NEW a, NEW w, NEW h
  PROVE  One(Route(m, <<a>>, w, h), a)
BY DEF One, Route, Last

LEMMA OtherTable ==
  /\ Two(OtherRoutes[1], "POST", "api", "upload")
  /\ Two(OtherRoutes[2], "POST", "api", "favorite")
  /\ Three(OtherRoutes[3], "GET", "brand", "memories")
  /\ One(OtherRoutes[4], "health")
  /\ Two(OtherRoutes[5], "", "static", "*")
BY RouteOne, RouteTwo, RouteThree DEF OtherRoutes

\* Routes that differ in length, in their method or in a segment.
LEMMA LengthApart ==
  ASSUME NEW r, NEW q, Last(r.path) # "*", Len(r.path) # Len(q.path)
  PROVE  Apart(r, q)
BY DEF Apart

LEMMA MethodApart ==
  ASSUME NEW r, NEW q, Last(r.path) # "*", r.method # "", r.method # q.method
  PROVE  Apart(r, q)
BY DEF Apart

LEMMA SegmentApart ==
  ASSUME NEW r, NEW q, Last(r.path) # "*",
         NEW j \in 1..Len(r.path), r.path[j] # ":id", r.path[j] # q.path[j]
  PROVE  Apart(r, q)
BY DEF Apart

LEMMA SecondApart ==
  ASSUME NEW r, NEW q, NEW m, NEW a, NEW b, NEW n, NEW c, NEW d, Two(r, m, a, b),
         Two(q, n, c, d), b # "*", b # ":id" /\ b # d
  PROVE  Apart(r, q)
<1>1. 2 \in 1..Len(r.path)
  BY DEF Two
<1>2. QED
  BY <1>1, SegmentApart DEF Two

LEMMA ThirdApart ==
  ASSUME NEW r, NEW q, NEW m, NEW b, NEW c, NEW n, NEW d, NEW e, Three(r, m, b, c),
         Three(q, n, d, e), c # "*", c # ":id" /\ c # e
  PROVE  Apart(r, q)
<1>1. 3 \in 1..Len(r.path)
  BY DEF Three
<1>2. QED
  BY <1>1, SegmentApart DEF Three

LEMMA UserUnshadowed == Unshadowed(UserRoutes)
<1> DEFINE third == <<"login", "info", "update", "stats", "achievements", "photos", "favorites",
                      "footprints">>
<1>1. Len(UserRoutes) = 8
  BY DEF UserRoutes
<1>2. \A i \in 1..8 : \E m : Three(UserRoutes[i], m, "user", third[i])
  <2>1. /\ third[1] = "login" /\ third[2] = "info" /\ third[3] = "update"
        /\ third[4] = "stats" /\ third[5] = "achievements" /\ third[6] = "photos"
        /\ third[7] = "favorites" /\ third[8] = "footprints"
    OBVIOUS
  <2> HIDE DEF third
  <2>2. QED
    BY <2>1, UserTable
<1>3. \A i, k \in 1..8 : i < k => third[i] # "*" /\ third[i] # ":id" /\ third[i] # third[k]
  OBVIOUS
<1> HIDE DEF third
<1>4. QED
  BY <1>1, <1>2, <1>3, ThirdApart DEF Unshadowed

LEMMA PlaceUnshadowed == Unshadowed(PlaceRoutes)
<1> DEFINE r1 == PlaceRoutes[1] r2 == PlaceRoutes[2] r3 == PlaceRoutes[3]
           r4 == PlaceRoutes[4] r5 == PlaceRoutes[5]
<1>1. Len(PlaceRoutes) = 5
  BY DEF PlaceRoutes
<1>2. /\ Three(r1, "GET", "places", "nearby") /\ Three(r2, "GET", "places", "search")
      /\ Three(r3, "POST", "places", "create") /\ Three(r4, "GET", "places", ":id")
      /\ Four(r5, "GET", "places", ":id", "photos")
  BY PlaceTable
<1> HIDE DEF r1, r2, r3, r4, r5
<1>3. Apart(r1, r2) /\ Apart(r1, r3) /\ Apart(r1, r4)
  BY <1>2, ThirdApart
<1>4. Apart(r2, r3) /\ Apart(r2, r4)
  BY <1>2, ThirdApart
<1>5. Apart(r3, r4)
  BY <1>2, ThirdApart
<1>6. Apart(r1, r5) /\ Apart(r2, r5) /\ Apart(r3, r5) /\ Apart(r4, r5)
  BY <1>2, LengthApart DEF Three, Four
<1>7. QED
  BY <1>1, <1>3, <1>4, <1>5, <1>6 DEF Unshadowed, r1, r2, r3, r4, r5

LEMMA PhotoUnshadowed == Unshadowed(PhotoRoutes)
<1> DEFINE r1 == PhotoRoutes[1] r2 == PhotoRoutes[2] r3 == PhotoRoutes[3]
           r4 == PhotoRoutes[4] r5 == PhotoRoutes[5]
<1>1. Len(PhotoRoutes) = 5
  BY DEF PhotoRoutes
<1>2. /\ Three(r1, "POST", "photos", "publish") /\ Three(r2, "GET", "photos", ":id")
      /\ Four(r3, "POST", "photos", ":id", "like") /\ Four(r4, "GET", "photos", ":id", "comments")
      /\ Four(r5, "POST", "photos", ":id", "comments")
  BY PhotoTable
<1> HIDE DEF r1, r2, r3, r4, r5
<1>3. Apart(r1, r2)
  BY <1>2, ThirdApart
<1>4. \A r \in {r1, r2}, q \in {r3, r4, r5} : Apart(r, q)
  BY <1>2, LengthApart DEF Three, Four
<1>5. Apart(r3, r4) /\ Apart(r4, r5)
  BY <1>2, MethodApart DEF Four
<1>6. Apart(r3, r5)
  <2>1. 4 \in 1..Len(r3.path) /\ r3.path[4] = "like" /\ r5.path[4] = "comments"
        /\ Last(r3.path) = "like"
    BY <1>2 DEF Four
  <2>2. QED
    BY <2>1, SegmentApart
<1>7. QED
  BY <1>1, <1>3, <1>4, <1>5, <1>6 DEF Unshadowed, r1, r2, r3, r4, r5

LEMMA OtherUnshadowed == Unshadowed(OtherRoutes)
<1> DEFINE r1 == OtherRoutes[1] r2 == OtherRoutes[2] r3 == OtherRoutes[3]
           r4 == OtherRoutes[4] r5 == OtherRoutes[5]
<1>1. Len(OtherRoutes) = 5
  BY DEF OtherRoutes
<1>2. /\ Two(r1, "POST", "api", "upload") /\ Two(r2, "POST", "api", "favorite")
      /\ Three(r3, "GET", "brand", "memories")
      /\ One(r4, "health")
      /\ Two(r5, "", "static", "*")
  BY OtherTable
<1> HIDE DEF r1, r2, r3, r4, r5
<1>3. \A r \in {r1, r2}, q \in {r3, r4} : Apart(r, q)
  BY <1>2, LengthApart DEF One, Two, Three
<1>4. Apart(r3, r4) /\ Apart(r3, r5) /\ Apart(r4, r5)
  BY <1>2, LengthApart DEF One, Two, Three
<1>5. Apart(r1, r2) /\ Apart(r1, r5) /\ Apart(r2, r5)
  BY <1>2, SecondApart
<1>6. QED
  BY <1>1, <1>3, <1>4, <1>5 DEF Unshadowed, r1, r2, r3, r4, r5

\* The groups differ in their second segment.
Under(b, r) ==
  Len(r.path) \in {3, 4} /\ Last(r.path) # "*" /\ r.path[2] = b

Outside(b, q) == Len(q.path) \in {1, 2} \/ (Len(q.path) \in {3, 4} /\ q.path[2] # b)

LEMMA UnderApart ==
  ASSUME NEW b, NEW r, NEW q, Under(b, r), Outside(b, q), b # ":id"
  PROVE  Apart(r, q)
<1>1. 2 \in 1..Len(r.path)
  BY DEF Under
<1>2. CASE Len(q.path) \in {1, 2}
  <2> DEFINE n == Len(r.path)
             m == Len(q.path)
  <2>1. Last(r.path) # "*" /\ n \in {3, 4} /\ m \in {1, 2}
    BY <1>2 DEF Under
  <2> HIDE DEF n, m
  <2>2. n # m
    BY <2>1
  <2>3. QED
    BY <2>1, <2>2, LengthApart DEF n, m
<1>3. CASE q.path[2] # b
  BY <1>1, <1>3, SegmentApart DEF Under
<1>4. QED
  BY <1>2, <1>3 DEF Outside

LEMMA ThreeUnder ==
  ASSUME NEW r, NEW m, NEW b, NEW c, Three(r, m, b, c), c # "*"
  PROVE  Under(b, r) /\ \A a : a # b => Outside(a, r)
BY DEF Three, Under, Outside

LEMMA FourUnder ==
  ASSUME NEW r, NEW m, NEW b, NEW c, NEW d, Four(r, m, b, c, d), d # "*"
  PROVE  Under(b, r) /\ \A a : a # b => Outside(a, r)
BY DEF Four, Under, Outside

LEMMA ShortOutside ==
  ASSUME NEW r, NEW b, Len(r.path) \in {1, 2}
  PROVE  Outside(b, r)
BY DEF Outside

\* Two sequences joined have the elements of both.
LEMMA JoinedElements ==
  ASSUME NEW S, NEW s \in Seq(S), NEW t \in Seq(S)
  PROVE  \A i \in 1..Len(s \o t) : \/ \E j \in 1..Len(s) : (s \o t)[i] = s[j]
                                  \/ \E j \in 1..Len(t) : (s \o t)[i] = t[j]
<1>1. /\ Len(s \o t) = Len(s) + Len(t) /\ Len(s) \in Nat /\ Len(t) \in Nat
      /\ \A i \in 1..(Len(s) + Len(t)) : (s \o t)[i] = IF i <= Len(s) THEN s[i] ELSE t[i - Len(s)]
  BY ConcatProperties
<1> SUFFICES ASSUME NEW i \in 1..(Len(s) + Len(t))
             PROVE  \/ \E j \in 1..Len(s) : (s \o t)[i] = s[j]
                    \/ \E j \in 1..Len(t) : (s \o t)[i] = t[j]
  BY <1>1
<1>2. CASE i <= Len(s)
  <2>1. i \in 1..Len(s)
    BY <1>1, <1>2
  <2>2. QED
    BY <1>1, <1>2, <2>1
<1>3. CASE ~(i <= Len(s))
  <2>1. i - Len(s) \in 1..Len(t)
    BY <1>1, <1>3
  <2>2. QED
    BY <1>1, <1>3, <2>1
<1>4. QED
  BY <1>2, <1>3

LEMMA UnshadowedRoutes == Unshadowed(Routes)
<1>1. /\ Len(UserRoutes) = 8 /\ Len(PlaceRoutes) = 5 /\ Len(PhotoRoutes) = 5
      /\ Len(OtherRoutes) = 5
  BY DEF UserRoutes, PlaceRoutes, PhotoRoutes, OtherRoutes
<1>2. \A i \in 1..8 : Under("user", UserRoutes[i])
  BY UserTable, ThreeUnder
<1>3. \A i \in 1..5 : Under("places", PlaceRoutes[i]) /\ Outside("user", PlaceRoutes[i])
  BY PlaceTable, ThreeUnder, FourUnder
<1>4. \A i \in 1..5 : /\ Under("photos", PhotoRoutes[i])
                      /\ Outside("user", PhotoRoutes[i]) /\ Outside("places", PhotoRoutes[i])
  BY PhotoTable, ThreeUnder, FourUnder
<1>5. \A i \in 1..5 : /\ Outside("user", OtherRoutes[i]) /\ Outside("places", OtherRoutes[i])
                      /\ Outside("photos", OtherRoutes[i])
  <2>1. Len(OtherRoutes[1].path) = 2 /\ Len(OtherRoutes[2].path) = 2
    BY OtherTable DEF Two
  <2>2. Len(OtherRoutes[4].path) = 1 /\ Len(OtherRoutes[5].path) = 2
    BY OtherTable DEF One, Two
  <2>3. /\ Outside("user", OtherRoutes[3]) /\ Outside("places", OtherRoutes[3])
        /\ Outside("photos", OtherRoutes[3])
    <3>1. Three(OtherRoutes[3], "GET", "brand", "memories")
      BY OtherTable
    <3>2. \A a : a # "brand" => Outside(a, OtherRoutes[3])
      BY <3>1, ThreeUnder
    <3>3. QED
      BY <3>2
  <2>4. QED
    BY <2>1, <2>2, <2>3, ShortOutside
<1> DEFINE two == UserRoutes \o PlaceRoutes
           three == two \o PhotoRoutes
<1>6. /\ UserRoutes \in Seq(Listed) /\ PlaceRoutes \in Seq(Listed)
      /\ PhotoRoutes \in Seq(Listed) /\ OtherRoutes \in Seq(Listed)
      /\ two \in Seq(Listed) /\ three \in Seq(Listed)
  BY GroupsListed, ConcatProperties
<1>7. /\ \A i \in 1..8, k \in 1..5 : Apart(UserRoutes[i], PlaceRoutes[k])
      /\ \A i \in 1..8, k \in 1..5 : Apart(UserRoutes[i], PhotoRoutes[k])
      /\ \A i \in 1..5, k \in 1..5 : Apart(PlaceRoutes[i], PhotoRoutes[k])
  BY <1>2, <1>3, <1>4, UnderApart
<1>8. /\ \A i \in 1..8, k \in 1..5 : Apart(UserRoutes[i], OtherRoutes[k])
      /\ \A i \in 1..5, k \in 1..5 : Apart(PlaceRoutes[i], OtherRoutes[k])
      /\ \A i \in 1..5, k \in 1..5 : Apart(PhotoRoutes[i], OtherRoutes[k])
  BY <1>2, <1>3, <1>4, <1>5, UnderApart
<1>9. \A i \in 1..Len(two) : \/ \E j \in 1..8 : two[i] = UserRoutes[j]
                             \/ \E j \in 1..5 : two[i] = PlaceRoutes[j]
  <2>1. \A i \in 1..Len(two) : \/ \E j \in 1..Len(UserRoutes) : two[i] = UserRoutes[j]
                               \/ \E j \in 1..Len(PlaceRoutes) : two[i] = PlaceRoutes[j]
    <3> HIDE DEF two
    <3>1. two = UserRoutes \o PlaceRoutes
      BY DEF two
    <3>2. QED
      BY <1>6, <3>1, JoinedElements
  <2>2. QED
    BY <1>1, <2>1
<1>10. \A i \in 1..Len(three) : \/ \E j \in 1..Len(two) : three[i] = two[j]
                                \/ \E j \in 1..5 : three[i] = PhotoRoutes[j]
  <2>1. \A i \in 1..Len(three) : \/ \E j \in 1..Len(two) : three[i] = two[j]
                                 \/ \E j \in 1..Len(PhotoRoutes) : three[i] = PhotoRoutes[j]
    BY <1>6, JoinedElements
  <2>2. QED
    BY <1>1, <2>1
<1>11. Unshadowed(two)
  BY <1>1, <1>6, <1>7, UserUnshadowed, PlaceUnshadowed, UnshadowedConcat
<1> HIDE DEF two
<1>12. \A i \in 1..Len(two), k \in 1..5 : /\ Apart(two[i], PhotoRoutes[k])
                                          /\ Apart(two[i], OtherRoutes[k])
  BY <1>7, <1>8, <1>9
<1>13. Unshadowed(three)
  BY <1>1, <1>6, <1>11, <1>12, PhotoUnshadowed, UnshadowedConcat
<1> HIDE DEF three
<1>14. \A i \in 1..Len(three), k \in 1..5 : Apart(three[i], OtherRoutes[k])
  BY <1>8, <1>10, <1>12
<1>15. Unshadowed(three \o OtherRoutes)
  BY <1>1, <1>6, <1>13, <1>14, OtherUnshadowed, UnshadowedConcat
<1>16. QED
  BY <1>15 DEF two, three, Routes

LEMMA LengthsListed == \A r \in Listed : Len(r.path) \in Nat
<1>1. \A i \in 1..8 : Len(UserRoutes[i].path) \in Nat
  BY UserTable DEF Three
<1>2. \A i \in 1..5 : Len(PlaceRoutes[i].path) \in Nat
  BY PlaceTable DEF Three, Four
<1>3. \A i \in 1..5 : Len(PhotoRoutes[i].path) \in Nat
  BY PhotoTable DEF Three, Four
<1>4. \A i \in 1..5 : Len(OtherRoutes[i].path) \in Nat
  <2>1. /\ Len(OtherRoutes[1].path) = 2 /\ Len(OtherRoutes[2].path) = 2
        /\ Len(OtherRoutes[5].path) = 2
    BY OtherTable DEF Two
  <2>2. Len(OtherRoutes[3].path) = 3 /\ Len(OtherRoutes[4].path) = 1
    BY OtherTable DEF One, Three
  <2>3. QED
    BY <2>1, <2>2
<1>5. QED
  BY <1>1, <1>2, <1>3, <1>4 DEF Listed

LEMMA MatchesItself ==
  ASSUME NEW path, Len(path) \in Nat
  PROVE  Matches(path, path)
<1>1. Len(path) >= Len(path)
  OBVIOUS
<1>2. QED
  BY <1>1 DEF Matches

\* A route accepts the path it spells out, and none before it does.
LEMMA FirstIsItself ==
  ASSUME NEW i \in DOMAIN Routes, NEW k \in DOMAIN Routes,
         Accepts(Routes[i], Routes[k].method, Routes[k].path),
         \A j \in DOMAIN Routes : Accepts(Routes[j], Routes[k].method, Routes[k].path) => i <= j
  PROVE  i = k
<1>1. DOMAIN Routes = 1..Len(Routes) /\ Len(Routes) \in Nat /\ Len(Routes[k].path) \in Nat
  BY RoutesListed, LengthsListed
<1>2. Accepts(Routes[k], Routes[k].method, Routes[k].path)
  BY <1>1, MatchesItself DEF Accepts
<1>3. ~(i < k)
  BY <1>1, UnshadowedRoutes, ApartRefuses DEF Unshadowed
<1>4. QED
  BY <1>1, <1>2, <1>3

-----------------------------------------------------------------------------
(* The way of a request.                                                    *)

\* The route is one of the list, and wrapped in the layers.
Layered == Good(route) /\ route.wrap # "bare" /\ req.method # "OPTIONS"

\* What is so at each layer: nothing is written before the layer that answers,
\* and a panic on its way has written nothing.
Way ==
  /\ pc \in {"idle", "route", "health", "static", "cors", "auth", "handler", "accessLog",
             "recover", "done"}
  /\ IF pc = "idle" THEN req = None ELSE req \in Requests
  /\ pc \in {"idle", "route"} => route = None
  /\ pc \in {"idle", "route", "health", "static", "cors", "auth", "handler"} =>
       answers = << >> /\ line = None /\ ~panicking
  /\ pc \in {"idle", "route", "cors", "auth"} => user = 0
  /\ pc \in {"health", "static"} => route.wrap = "bare" /\ route.handler = pc
  /\ pc \in {"cors", "auth", "handler", "accessLog", "recover"} => Layered
  /\ pc \in {"auth", "handler", "accessLog", "recover"} => headers
  /\ pc = "handler" => /\ route.wrap = "auth" => user \in Users
                       /\ user # 0 => user = req.token
  /\ pc = "accessLog" => ~panicking /\ \E c : answers = <<c>>
  /\ pc = "recover" => IF panicking THEN answers = << >> /\ line = None
                                    ELSE line # None /\ \E c : answers = <<c>>
  /\ pc = "done" => /\ \E c : answers = <<c>>
                    /\ Wrapped => headers /\ (line = None => answers = <<500>>)

LEMMA WayStep == Way /\ [Next]_vars => Way'
<1> SUFFICES ASSUME Way, [Next]_vars
             PROVE  Way'
  OBVIOUS
<1>1. \A c : Append(<< >>, c) = <<c>>
  OBVIOUS
<1>2. CASE UNCHANGED vars
  BY <1>2 DEF vars, Way, Layered, Wrapped
<1>3. CASE Receive
  BY <1>3 DEF Receive, Way
<1>4. CASE ServeHTTP
  <2> DEFINE found == {i \in DOMAIN Routes : Accepts(Routes[i], req.method, req.path)}
             first == CHOOSE i \in found : \A j \in found : i <= j
  <2>1. CASE found = {}
    BY <1>1, <1>4, <2>1 DEF ServeHTTP, Answer, Way, Wrapped
  <2>2. CASE found # {}
    <3>1. first \in found
      <4>1. found \subseteq Nat
        <5>1. DOMAIN Routes \subseteq Nat
          BY RoutesListed
        <5>2. QED
          BY <5>1
      <4>2. \E i \in found : \A j \in found : i <= j
        BY <2>2, <4>1, Least
      <4>3. QED
        BY <4>2
    <3>2. Good(Routes[first]) /\ (Routes[first].method = "" \/ Routes[first].method = req.method)
      BY <3>1, RoutesGood DEF Accepts
    <3>3. /\ route' = Routes[first]
          /\ pc' = IF Routes[first].wrap = "bare" THEN Routes[first].handler ELSE "cors"
          /\ UNCHANGED <<req, user, headers, status, answers, panicking, line>> /\ pc = "route"
      BY <1>4, <2>2 DEF ServeHTTP
    <3> HIDE DEF first, found
    <3>4. CASE Routes[first].wrap = "bare"
      BY <3>2, <3>3, <3>4 DEF Good, Way
    <3>5. CASE Routes[first].wrap # "bare"
      BY <3>2, <3>3, <3>5 DEF Good, Way, Layered
    <3>6. QED
      BY <3>4, <3>5
  <2>3. QED
    BY <2>1, <2>2
<1>5. CASE Health
  BY <1>1, <1>5 DEF Health, Answer, Way, Wrapped
<1>6. CASE Static
  BY <1>1, <1>6 DEF Static, Answer, Way, Wrapped
<1>7. CASE CORSMiddleware
  BY <1>7 DEF CORSMiddleware, Way, Layered
<1>8. CASE AuthMiddleware
  BY <1>1, <1>8, PipelineAssumption DEF AuthMiddleware, ParseToken, Answer, Way, Layered, Good
<1>9. CASE Handler
  BY <1>1, <1>9 DEF Handler, Answer, Way, Layered
<1>10. CASE AccessLogMiddleware
  BY <1>10, PipelineAssumption DEF AccessLogMiddleware, Way, Layered
<1>11. CASE RecoveryMiddleware
  BY <1>1, <1>11 DEF RecoveryMiddleware, Answer, Way, Layered, Wrapped
<1>12. CASE Done
  BY <1>12 DEF Done, Way
<1>13. QED
  BY <1>2, <1>3, <1>4, <1>5, <1>6, <1>7, <1>8, <1>9, <1>10, <1>11, <1>12 DEF Next

\* What is so at each layer is so in every reachable state.
LEMMA WayHolds == Spec => []Way
<1>1. Init => Way
  BY DEF Init, Way
<1>2. QED
  BY <1>1, WayStep, PTL DEF Spec

\* Every way through the layers, refusals and panics included, writes one answer.
THEOREM OneAnswer == Spec => []AnsweredOnce
<1>1. Way => AnsweredOnce
  <2>1. Way => /\ answers = << >> \/ \E c : answers = <<c>>
               /\ pc = "done" => \E c : answers = <<c>>
    BY DEF Way
  <2>2. Len(<< >>) = 0 /\ \A c : Len(<<c>>) = 1
    OBVIOUS
  <2>3. QED
    <3> SUFFICES ASSUME Way
                 PROVE  Len(answers) <= 1 /\ (pc = "done" => Len(answers) = 1)
      BY DEF AnsweredOnce
    <3>1. CASE answers = << >>
      <4>1. \A c : <<c>> # << >>
        OBVIOUS
      <4>2. QED
        BY <2>1, <2>2, <3>1, <4>1
    <3>2. ASSUME NEW c, answers = <<c>>
          PROVE  Len(answers) <= 1 /\ (pc = "done" => Len(answers) = 1)
      BY <2>2, <3>2
    <3>3. QED
      BY <2>1, <3>1, <3>2
<1>2. QED
  BY <1>1, WayHolds, PTL

\* A handler behind the strict middleware runs for a user only, and no handler sees
\* a user other than the one the token of this request was signed for.
THEOREM UserIsTheTokens == Spec => []HandlersSeeTheTokensUser
<1>1. Way => HandlersSeeTheTokensUser
  BY DEF Way, HandlersSeeTheTokensUser
<1>2. QED
  BY <1>1, WayHolds, PTL

\* Every answer of an API handler, a refusal or one after a panic included, can be
\* read by a page from another origin.
THEOREM AllAnswersCarryCORS == Spec => []AnswersCarryCORS
<1>1. Way => AnswersCarryCORS
  BY DEF Way, Wrapped, AnswersCarryCORS
<1>2. QED
  BY <1>1, WayHolds, PTL

\* A request to an API handler leaves a line in the access log unless its handler
\* panicked.
THEOREM TheRestIsLogged == Spec => []OnlyPanicsAreUnlogged
<1>1. Way => OnlyPanicsAreUnlogged
  BY DEF Way, OnlyPanicsAreUnlogged
<1>2. QED
  BY <1>1, WayHolds, PTL

\* The route of a request is the first that takes it.
OnFirstRoute ==
  \E i \in DOMAIN Routes :
    /\ route = Routes[i] /\ Accepts(Routes[i], req.method, req.path)
    /\ \A j \in DOMAIN Routes : Accepts(Routes[j], req.method, req.path) => i <= j

Routed ==
  /\ route # None => OnFirstRoute
  /\ pc \in {"health", "static", "cors", "auth", "handler", "accessLog", "recover"} => OnFirstRoute

LEMMA RoutedStep == Way /\ Routed /\ [Next]_vars => Routed'
<1> SUFFICES ASSUME Way, Routed, [Next]_vars
             PROVE  Routed'
  OBVIOUS
<1>1. CASE Receive
  BY <1>1 DEF Receive, Way, Routed
<1>2. CASE ServeHTTP
  <2> DEFINE found == {i \in DOMAIN Routes : Accepts(Routes[i], req.method, req.path)}
             first == CHOOSE i \in found : \A j \in found : i <= j
  <2>1. CASE found = {}
    BY <1>2, <2>1 DEF ServeHTTP, Routed, Way
  <2>2. CASE found # {}
    <3>1. \E i \in found : \A j \in found : i <= j
      <4>1. DOMAIN Routes \subseteq Nat
        BY RoutesListed
      <4>2. found \subseteq Nat
        BY <4>1
      <4>3. QED
        BY <2>2, <4>2, Least
    <3>2. first \in found /\ \A j \in found : first <= j
      BY <3>1
    <3>3. route' = Routes[first] /\ req' = req
      BY <1>2, <2>2 DEF ServeHTTP
    <3> HIDE DEF first
    <3>4. QED
      BY <3>2, <3>3 DEF Routed, OnFirstRoute
  <2>3. QED
    BY <2>1, <2>2
<1>3. CASE Done
  BY <1>3 DEF Done, Routed
<1>4. CASE UNCHANGED vars
  BY <1>4 DEF vars, Routed, OnFirstRoute
<1>5. CASE Health \/ Static \/ CORSMiddleware \/ AuthMiddleware \/ Handler \/ AccessLogMiddleware
           \/ RecoveryMiddleware
  <2>1. UNCHANGED <<req, route>>
    BY <1>5 DEF Health, Static, CORSMiddleware, AuthMiddleware, Handler, AccessLogMiddleware,
       RecoveryMiddleware
  <2>2. pc \in {"health", "static", "cors", "auth", "handler", "accessLog", "recover"}
    BY <1>5 DEF Health, Static, CORSMiddleware, AuthMiddleware, Handler, AccessLogMiddleware,
       RecoveryMiddleware
  <2>3. QED
    BY <2>1, <2>2 DEF Routed, OnFirstRoute
<1>6. QED
  BY <1>1, <1>2, <1>3, <1>4, <1>5 DEF Next

\* A path that some route spells out goes to that route.
THEOREM LiteralsWin == Spec => []SpelledOutWins
<1>1. Init => Routed
  BY DEF Init, Routed
<1>2. Routed => SpelledOutWins
  <2> SUFFICES ASSUME Routed, route # None, NEW k \in DOMAIN Routes,
                      Routes[k].path = req.path, Routes[k].method = req.method
               PROVE  route = Routes[k]
    BY DEF SpelledOutWins
  <2>1. PICK i \in DOMAIN Routes :
          /\ route = Routes[i] /\ Accepts(Routes[i], req.method, req.path)
          /\ \A j \in DOMAIN Routes : Accepts(Routes[j], req.method, req.path) => i <= j
    BY DEF Routed, OnFirstRoute
  <2>2. i = k
    BY <2>1, FirstIsItself
  <2>3. QED
    BY <2>1, <2>2
<1>3. QED
  BY <1>1, <1>2, WayHolds, RoutedStep, PTL DEF Spec

-----------------------------------------------------------------------------
(* The layers against the abstract specification.                           *)

\* A handler that has been called, whether or not it panicked, was not to be kept
\* from the request.
Admitted ==
  (pc = "handler" \/ (pc = "recover" /\ panicking)) =>
    ~(route.wrap = "auth" /\ ParseToken(req.token) = 0)

LEMMA AdmittedStep == Way /\ Admitted /\ [Next]_vars => Admitted'
<1> SUFFICES ASSUME Way, Admitted, [Next]_vars
             PROVE  Admitted'
  OBVIOUS
<1>1. CASE UNCHANGED vars
  BY <1>1 DEF vars, Admitted
<1>2. CASE Receive \/ Health \/ Static \/ Done \/ RecoveryMiddleware
  BY <1>2 DEF Receive, Health, Static, Done, RecoveryMiddleware, Admitted
<1>3. CASE ServeHTTP
  BY <1>3, WayStep DEF ServeHTTP, Way, Admitted
<1>4. CASE CORSMiddleware
  BY <1>4 DEF CORSMiddleware, Way, Admitted
<1>5. CASE AuthMiddleware
  BY <1>5 DEF AuthMiddleware, Way, Admitted
<1>6. CASE Handler
  BY <1>6 DEF Handler, Way, Admitted
<1>7. CASE AccessLogMiddleware
  BY <1>7 DEF AccessLogMiddleware, Way, Admitted
<1>8. QED
  BY <1>1, <1>2, <1>3, <1>4, <1>5, <1>6, <1>7 DEF Next

\* The codes of its route are those a request may be answered with.
LEMMA CodesAllowed ==
  ASSUME OnFirstRoute
  PROVE  CodesOf(route, req) \subseteq Outcomes(req)
<1>1. PICK i \in DOMAIN Routes :
        /\ route = Routes[i] /\ Accepts(Routes[i], req.method, req.path)
        /\ \A j \in DOMAIN Routes : Accepts(Routes[j], req.method, req.path) => i <= j
  BY DEF OnFirstRoute
<1>2. DOMAIN Routes = 1..Len(Routes) /\ Len(Routes) \in Nat
  BY RoutesListed
<1>3. \A k \in 1..(i - 1) : ~Accepts(Routes[k], req.method, req.path)
  BY <1>1, <1>2
<1>4. QED
  BY <1>1, <1>3 DEF Outcomes

LEMMA ClientStep ==
  Way /\ Routed /\ Admitted /\ [Next]_vars => [Client!Next]_(Client!vars)
<1> SUFFICES ASSUME Way, Routed, Admitted, [Next]_vars
             PROVE  [Client!Next]_(Client!vars)
  OBVIOUS
<1>1. \A c : Append(<< >>, c) = <<c>> /\ <<c>> # << >>
  OBVIOUS
<1>2. ASSUME UNCHANGED <<req, answers>>
      PROVE  [Client!Next]_(Client!vars)
  BY <1>2 DEF Client!vars
<1>3. ASSUME NEW code \in Outcomes(req), pc # "idle", answers = << >>, Answer(code), req' = req
      PROVE  [Client!Next]_(Client!vars)
  <2>1. Client!Reply
    BY <1>1, <1>3 DEF Way, Answer, Client!Reply
  <2>2. QED
    BY <2>1 DEF Client!Next
<1>4. ASSUME OnFirstRoute, NEW code \in CodesOf(route, req), pc # "idle", answers = << >>,
             Answer(code), req' = req
      PROVE  [Client!Next]_(Client!vars)
  BY <1>3, <1>4, CodesAllowed
<1>5. CASE UNCHANGED vars
  BY <1>2, <1>5 DEF vars
<1>6. CASE Receive
  <2>1. Client!Ask
    BY <1>6 DEF Receive, Way, Client!Ask
  <2>2. QED
    BY <2>1 DEF Client!Next
<1>7. CASE ServeHTTP
  <2> DEFINE found == {i \in DOMAIN Routes : Accepts(Routes[i], req.method, req.path)}
  <2>1. CASE found = {}
    <3>1. Answer(404) /\ req' = req /\ answers = << >> /\ pc # "idle"
      BY <1>7, <2>1 DEF ServeHTTP, Way
    <3>2. 404 \in Outcomes(req)
      BY <2>1 DEF Outcomes
    <3>3. QED
      BY <1>3, <3>1, <3>2
  <2>2. CASE found # {}
    BY <1>2, <1>7, <2>2 DEF ServeHTTP
  <2>3. QED
    BY <2>1, <2>2
<1>8. CASE Health
  <2>1. OnFirstRoute /\ 0 \in CodesOf(route, req)
    BY <1>8 DEF Health, Way, Routed, CodesOf
  <2>2. Answer(0) /\ req' = req /\ answers = << >> /\ pc # "idle"
    BY <1>8 DEF Health, Way
  <2>3. QED
    BY <1>4, <2>1, <2>2
<1>9. CASE Static
  <2>1. OnFirstRoute /\ FileCodes \subseteq CodesOf(route, req)
    BY <1>9 DEF Static, Way, Routed, CodesOf
  <2>2. PICK code \in FileCodes : Answer(code)
    BY <1>9 DEF Static
  <2>3. req' = req /\ answers = << >> /\ pc # "idle"
    BY <1>9 DEF Static, Way
  <2>4. QED
    BY <1>4, <2>1, <2>2, <2>3
<1>10. CASE CORSMiddleware
  BY <1>2, <1>10 DEF CORSMiddleware
<1>11. CASE AuthMiddleware
  <2>1. CASE route.wrap = "auth" /\ ParseToken(req.token) = 0
    <3>1. OnFirstRoute /\ 401 \in CodesOf(route, req)
      BY <1>11, <2>1 DEF AuthMiddleware, Way, Layered, Routed, CodesOf
    <3>2. Answer(401) /\ req' = req /\ answers = << >> /\ pc # "idle"
      BY <1>11, <2>1 DEF AuthMiddleware, Way
    <3>3. QED
      BY <1>4, <3>1, <3>2
  <2>2. CASE ~(route.wrap = "auth" /\ ParseToken(req.token) = 0)
    BY <1>2, <1>11, <2>2 DEF AuthMiddleware
  <2>3. QED
    BY <2>1, <2>2
<1>12. CASE Handler
  <2>1. OnFirstRoute /\ HandlerCodes \subseteq CodesOf(route, req)
    BY <1>12 DEF Handler, Way, Layered, Routed, Admitted, CodesOf
  <2>2. req' = req /\ answers = << >> /\ pc # "idle"
    BY <1>12 DEF Handler, Way
  <2>3. (\E code \in HandlerCodes : Answer(code)) \/ answers' = answers
    BY <1>12, PipelineAssumption DEF Handler, Way
  <2>4. QED
    BY <1>2, <1>4, <2>1, <2>2, <2>3
<1>13. CASE AccessLogMiddleware
  BY <1>2, <1>13 DEF AccessLogMiddleware
<1>14. CASE RecoveryMiddleware
  <2>1. CASE panicking
    <3>1. OnFirstRoute /\ 500 \in CodesOf(route, req)
      BY <1>14, <2>1, PipelineAssumption DEF RecoveryMiddleware, Way, Layered, Routed, Admitted, CodesOf
    <3>2. Answer(500) /\ req' = req /\ answers = << >> /\ pc # "idle"
      BY <1>14, <2>1 DEF RecoveryMiddleware, Way
    <3>3. QED
      BY <1>4, <3>1, <3>2
  <2>2. CASE ~panicking
    BY <1>2, <1>14, <2>2 DEF RecoveryMiddleware
  <2>3. QED
    BY <2>1, <2>2
<1>15. CASE Done
  <2>1. \E c : answers = <<c>>
    BY <1>15 DEF Done, Way
  <2>2. Client!Forget
    BY <1>1, <1>15, <2>1 DEF Done, Client!Forget
  <2>3. QED
    BY <2>2 DEF Client!Next
<1>16. QED
  BY <1>5, <1>6, <1>7, <1>8, <1>9, <1>10, <1>11, <1>12, <1>13, <1>14, <1>15 DEF Next

\* Routing, CORS, access log, authentication, handler and recovery together are one
\* answer, with a code that stands to the request.
THEOREM LayersImplementExchange == Spec => ImplementsExchange
<1>1. Init => Client!Init
  BY DEF Init, Client!Init
<1>2. Init => Routed /\ Admitted
  BY DEF Init, Routed, Admitted
<1>3. QED
  BY <1>1, <1>2, WayHolds, RoutedStep, AdmittedStep, ClientStep, PTL
     DEF Spec, ImplementsExchange, Client!Spec

-----------------------------------------------------------------------------
(* The rows of a list and their ranks.                                      *)

\* What the model's variables are, and what is so of the rows: none is from the
\* future, and the readers' pages are counted.
BrowseShape ==
  /\ list \in {"place", "user", "favorites", "nearby"}
  /\ at \in Seq(Nat) /\ weight \in Seq(Nat) /\ offset \in Seq(Int \X Int)
  /\ Len(weight) = Len(at) /\ Len(offset) = Len(at)
  /\ gone \subseteq Rows /\ begin \subseteq Rows
  /\ now \in Nat /\ \A x \in Rows : at[x] <= now
  /\ ask \in [sort : {"newest", "oldest", "popular"}, size : Int, page : Nat]
  /\ list # "nearby" => ask.page \in {Len(got), Len(got) + 1}
  /\ got \in Seq(SUBSET Rows)
  /\ moves \in Nat /\ moved \in BOOLEAN

Seen     == UNION Pages
Ahead(x) == {y \in Live : Before(y, x)}
Rank(x)  == Cardinality(Ahead(x))

LEMMA KeyType ==
  ASSUME BrowseShape, NEW x \in Rows
  PROVE  Key(x) \in Int
<1>1. at[x] \in Int /\ weight[x] \in Int
  BY DEF BrowseShape, Rows
<1>2. -at[x] \in Int /\ -weight[x] \in Int
  BY <1>1
<1>3. QED
  BY <1>1, <1>2 DEF Key

LEMMA LiveFinite ==
  ASSUME BrowseShape
  PROVE  /\ IsFiniteSet(Rows) /\ IsFiniteSet(Live) /\ Live \subseteq Rows
         /\ \A x : Ahead(x) \subseteq Live /\ IsFiniteSet(Ahead(x)) /\ Rank(x) \in Nat
<1>1. Rows = 1..Len(at) /\ Len(at) \in Nat
  BY DEF BrowseShape, Rows
<1>2. IsFiniteSet(Rows)
  BY <1>1, FS_Interval
<1>3. IsFiniteSet(Live) /\ Live \subseteq Rows
  BY <1>2, FS_Subset DEF Live
<1>4. ASSUME NEW x PROVE Ahead(x) \subseteq Live /\ IsFiniteSet(Ahead(x)) /\ Rank(x) \in Nat
  BY <1>3, FS_Subset, FS_CardinalityType DEF Ahead, Rank
<1>5. QED
  BY <1>2, <1>3, <1>4

\* A set that lacks an element of another is smaller.
LEMMA Fewer ==
  ASSUME NEW S, IsFiniteSet(S), NEW x \in S, NEW T, T \subseteq S \ {x}
  PROVE  /\ IsFiniteSet(T) /\ Cardinality(T) \in Nat /\ Cardinality(S) \in Nat
         /\ Cardinality(T) <= Cardinality(S) - 1
<1>1. IsFiniteSet(S \ {x}) /\ Cardinality(S \ {x}) = Cardinality(S) - 1
  BY FS_RemoveElement
<1>2. IsFiniteSet(T) /\ Cardinality(T) <= Cardinality(S \ {x})
  BY <1>1, FS_Subset
<1>3. QED
  BY <1>1, <1>2, FS_CardinalityType

\* The pages a client may ask for are at least a row long.
LEMMA SizeType ==
  ASSUME BrowseShape
  PROVE  PageSize \in Nat \ {0} /\ Page \in Nat \ {0} /\ Skip \in Nat
<1>1. PageSize \in Nat \ {0} /\ Page \in Nat \ {0}
  BY BrowseAssumption DEF BrowseShape, PageSize, Page
<1>2. Page - 1 \in Nat
  BY <1>1
<1>3. QED
  BY <1>1, <1>2 DEF Skip

\* A row whose rank no other has is on the page from k on exactly if k rows are
\* ahead of it, and fewer than k and a page.
LEMMA SliceByRank ==
  ASSUME BrowseShape, NEW n \in Nat \ {0}, NEW k \in Nat, NEW P \in Slices(Live, n, k),
         NEW x \in Live, ~Tied(x)
  PROVE  x \in P <=> k <= Rank(x) /\ Rank(x) < k + n
<1> USE LiveFinite
<1>1. P \in SUBSET Live /\ IsFiniteSet(P) /\ Cardinality(P) \in Nat /\ Cardinality(Live) \in Nat
  BY FS_Subset, FS_CardinalityType DEF Slices
<1>2. Cardinality(P) = LET m == Cardinality(Live) - k IN IF m < 0 THEN 0 ELSE IF m > n THEN n ELSE m
  BY DEF Slices
<1>3. /\ ~Before(x, x) /\ x \notin Ahead(x)
      /\ \A y \in Live \ {x} : Before(x, y) <=> ~Before(y, x)
  BY KeyType DEF Tied, Before, Ahead
<1>4. Rank(x) < Cardinality(Live)
  <2>1. Ahead(x) \subseteq Live \ {x}
    BY <1>3
  <2>2. QED
    BY <1>1, <2>1, Fewer DEF Rank
<1>5. CASE P = {}
  <2>1. Cardinality(P) = 0
    BY <1>5, FS_EmptySet
  <2>2. Cardinality(Live) <= k
    BY <1>1, <1>2, <2>1
  <2>3. QED
    BY <1>1, <1>4, <1>5, <2>2
<1>6. ASSUME NEW A \in SUBSET (Live \ P), Cardinality(A) = k,
             \A y \in A, z \in Live \ A : ~Before(z, y),
             \A y \in P, z \in Live \ (A \cup P) : ~Before(z, y)
      PROVE  x \in P <=> k <= Rank(x) /\ Rank(x) < k + n
  <2>1. /\ IsFiniteSet(A) /\ IsFiniteSet(A \cup P) /\ Cardinality(A \cup P) = k + Cardinality(P)
        /\ A \cup P \subseteq Live
    <3>1. IsFiniteSet(A) /\ IsFiniteSet(A \cup P) /\ A \cap P = {} /\ A \cup P \subseteq Live
      BY <1>1, <1>6, FS_Subset
    <3>2. Cardinality(A \cup P) = Cardinality(A) + Cardinality(P) - Cardinality(A \cap P)
      BY <1>1, <3>1, FS_Union
    <3>3. QED
      BY <1>1, <1>6, <3>1, <3>2, FS_EmptySet
  <2>2. ASSUME x \in P
        PROVE  k <= Rank(x) /\ Rank(x) < k + n
    <3>1. A \subseteq Ahead(x)
      BY <1>3, <1>6, <2>2 DEF Ahead
    <3>2. Ahead(x) \subseteq (A \cup P) \ {x}
      BY <1>3, <1>6, <2>2 DEF Ahead
    <3>3. k <= Rank(x)
      BY <1>6, <3>1, FS_Subset DEF Rank
    <3>4. Rank(x) <= Cardinality(A \cup P) - 1
      BY <2>1, <2>2, <3>2, Fewer DEF Rank
    <3>5. Cardinality(P) <= n
      BY <1>1, <1>2
    <3>6. QED
      BY <1>1, <2>1, <3>3, <3>4, <3>5
  <2>3. ASSUME x \notin P, k <= Rank(x)
        PROVE  ~(Rank(x) < k + n)
    <3>1. x \notin A
      <4> SUFFICES ASSUME x \in A PROVE FALSE
        OBVIOUS
      <4>1. Ahead(x) \subseteq A \ {x}
        BY <1>3, <1>6 DEF Ahead
      <4>2. Rank(x) <= k - 1
        BY <1>6, <2>1, <4>1, Fewer DEF Rank
      <4>3. QED
        BY <2>3, <4>2
    <3>2. A \cup P \subseteq Ahead(x)
      BY <1>1, <1>3, <1>6, <2>3, <3>1 DEF Ahead
    <3>3. k + Cardinality(P) <= Rank(x)
      BY <2>1, <3>2, FS_Subset DEF Rank
    <3>4. Cardinality(P) = n
      BY <1>1, <1>2, <1>4, <3>3
    <3>5. QED
      BY <1>1, <3>3, <3>4
  <2>4. QED
    BY <2>2, <2>3
<1>7. QED
  BY <1>5, <1>6 DEF Slices

LEMMA BrowseInitShape == BrowseInit => BrowseShape
<1> SUFFICES ASSUME BrowseInit PROVE BrowseShape
  OBVIOUS
<1>1. /\ list \in {"place", "user", "favorites", "nearby"} /\ at = << >> /\ weight = << >>
      /\ offset = << >> /\ gone = {} /\ now = 1 /\ begin = {} /\ got = << >> /\ moves = 0
      /\ moved = FALSE
  BY DEF BrowseInit
<1>2. ask \in [sort : {"newest", "oldest", "popular"}, size : Int, page : {0, 1}]
  BY BrowseAssumption DEF BrowseInit
<1>3. /\ Len(<< >>) = 0 /\ DOMAIN << >> = {}
      /\ << >> \in Seq(Nat) /\ << >> \in Seq(Int \X Int) /\ << >> \in Seq(SUBSET {})
  OBVIOUS
<1>4. Rows = {}
  BY <1>1, <1>3 DEF Rows
<1>5. /\ ask \in [sort : {"newest", "oldest", "popular"}, size : Int, page : Nat]
      /\ ask.page \in {Len(got), Len(got) + 1}
  BY <1>1, <1>2, <1>3
<1>6. /\ at \in Seq(Nat) /\ weight \in Seq(Nat) /\ offset \in Seq(Int \X Int)
      /\ Len(weight) = Len(at) /\ Len(offset) = Len(at) /\ got \in Seq(SUBSET Rows)
  BY <1>1, <1>3, <1>4
<1>7. QED
  BY <1>1, <1>4, <1>5, <1>6 DEF BrowseShape

\* A row more.
LEMMA RowAdded ==
  ASSUME BrowseShape, Insert
  PROVE  /\ Len(at) + 1 \notin Rows /\ Rows' = Rows \cup {Len(at) + 1}
         /\ Live' = Live \cup {Len(at) + 1}
         /\ \A x \in Rows : at'[x] = at[x] /\ weight'[x] = weight[x] /\ Key(x)' = Key(x)
         /\ at'[Len(at) + 1] = now /\ weight'[Len(at) + 1] = 0
<1>1. /\ at' = Append(at, now) /\ weight' = Append(weight, 0) /\ gone' = gone /\ ask' = ask
      /\ at \in Seq(Nat) /\ weight \in Seq(Nat) /\ Len(weight) = Len(at) /\ now \in Nat
      /\ gone \subseteq Rows
  BY DEF Insert, BrowseShape
<1>2. Rows = 1..Len(at) /\ Rows' = 1..(Len(at) + 1) /\ Len(at) \in Nat
  BY <1>1 DEF Rows
<1>3. \A x \in Rows : at'[x] = at[x] /\ weight'[x] = weight[x]
  BY <1>1, <1>2
<1>4. QED
  BY <1>1, <1>2, <1>3 DEF Key, Live

LEMMA BrowseShapeStep == BrowseShape /\ [BrowseNext]_browseVars => BrowseShape'
<1> SUFFICES ASSUME BrowseShape, [BrowseNext]_browseVars PROVE BrowseShape'
  OBVIOUS
<1> USE DEF BrowseShape
<1>1. CASE UNCHANGED browseVars
  BY <1>1 DEF browseVars, Rows
<1>2. CASE Read
  <2>1. PICK P \in Slices(Live, PageSize, Skip) : got' = Append(got, P)
    BY <1>2 DEF Read
  <2>2. P \in SUBSET Rows
    BY <2>1 DEF Slices, Live
  <2>3. got' \in Seq(SUBSET Rows) /\ Len(got') = Len(got) + 1 /\ Len(got) \in Nat
    BY <2>1, <2>2
  <2>4. /\ ask' \in [sort : {"newest", "oldest", "popular"}, size : Int, page : Nat]
        /\ ask'.page = ask.page + 1
    <3>1. ask' = [ask EXCEPT !.page = ask.page + 1]
      BY <1>2 DEF Read
    <3>2. ask \in [sort : {"newest", "oldest", "popular"}, size : Int, page : Nat]
      OBVIOUS
    <3>3. ask.page + 1 \in Nat
      BY <3>2
    <3> HIDE DEF BrowseShape
    <3>4. QED
      BY <3>1, <3>2, <3>3
  <2>5. /\ Rows' = Rows /\ begin' \subseteq Rows
        /\ UNCHANGED <<list, at, weight, offset, gone, now, moves, moved>>
    BY <1>2 DEF Read, Rows, Live
  <2>6. list # "nearby" => ask'.page \in {Len(got'), Len(got') + 1}
    BY <2>3, <2>4
  <2>7. QED
    BY <2>3, <2>4, <2>5, <2>6
<1>3. CASE Nearby
  <2>1. PICK P \in SUBSET Rows : got' = <<P>>
    BY <1>3 DEF Nearby, Slices, Live
  <2>2. /\ Rows' = Rows /\ begin' \subseteq Rows /\ list = "nearby"
        /\ UNCHANGED <<list, at, weight, offset, gone, now, ask, moves, moved>>
    BY <1>3 DEF Nearby, Rows, Live
  <2>3. QED
    BY <2>1, <2>2
<1>4. CASE Insert
  <2>1. \E o \in Int \X Int : offset' = Append(offset, o)
    BY <1>4, BrowseAssumption DEF Insert
  <2>2. /\ at' \in Seq(Nat) /\ weight' \in Seq(Nat) /\ offset' \in Seq(Int \X Int)
        /\ Len(weight') = Len(at') /\ Len(offset') = Len(at')
    BY <1>4, <2>1 DEF Insert
  <2>3. /\ gone \subseteq Rows' /\ begin \subseteq Rows' /\ \A x \in Rows' : at'[x] <= now
    <3>1. /\ at' = Append(at, now) /\ Rows' = Rows \cup {Len(at) + 1}
          /\ \A x \in Rows : at'[x] = at[x]
          /\ at'[Len(at) + 1] = now
      BY <1>4, RowAdded DEF Insert
    <3>2. now <= now
      OBVIOUS
    <3>3. \A x \in Rows' : at'[x] <= now
      BY <3>1, <3>2
    <3>4. QED
      BY <3>1, <3>3
  <2>4. got \in Seq(SUBSET Rows')
    BY <1>4, RowAdded
  <2>5. QED
    BY <1>4, <2>2, <2>3, <2>4 DEF Insert
<1>5. CASE Gain
  <2>1. PICK x \in Live : weight' = [weight EXCEPT ![x] = @ + 1]
    BY <1>5 DEF Gain
  <2>2. weight' \in Seq(Nat) /\ Len(weight') = Len(weight)
    BY <2>1 DEF Live, Rows
  <2>3. /\ Rows' = Rows /\ moves' \in Nat /\ moved' \in BOOLEAN
        /\ UNCHANGED <<list, at, offset, gone, now, ask, begin, got>>
    BY <1>5 DEF Gain, Rows, Began
  <2>4. QED
    BY <2>2, <2>3
<1>6. CASE Unfavorite
  <2>1. PICK x \in Live : gone' = gone \cup {x}
    BY <1>6 DEF Unfavorite
  <2>2. gone' \subseteq Rows
    BY <2>1 DEF Live
  <2>3. /\ Rows' = Rows /\ moves' = moves + 1 /\ moved' \in BOOLEAN
        /\ UNCHANGED <<list, at, weight, offset, now, ask, begin, got>>
    BY <1>6 DEF Unfavorite, Rows, Began
  <2>4. QED
    BY <2>2, <2>3
<1>7. CASE Tick
  BY <1>7 DEF Tick, Rows
<1>8. QED
  BY <1>1, <1>2, <1>3, <1>4, <1>5, <1>6, <1>7 DEF BrowseNext

THEOREM BrowseShaped == BrowseSpec => []BrowseShape
BY BrowseInitShape, BrowseShapeStep, PTL DEF BrowseSpec

-----------------------------------------------------------------------------
(* What a reader who pages to the end has missed.                           *)

\* A row that no other ties with has fewer rows ahead of it than there are.
LEMMA RankInRange ==
  ASSUME BrowseShape, NEW x \in Live
  PROVE  Rank(x) < Cardinality(Live)
<1>1. Ahead(x) \subseteq Live \ {x}
  BY KeyType, LiveFinite DEF Ahead, Before
<1>2. QED
  BY <1>1, LiveFinite, Fewer DEF Rank

\* An empty page is past the last row.
LEMMA EmptySlice ==
  ASSUME BrowseShape, NEW n \in Nat \ {0}, NEW k \in Nat, {} \in Slices(Live, n, k),
         NEW x \in Live
  PROVE  Rank(x) < k
<1>1. Cardinality(Live) \in Nat /\ Rank(x) \in Nat
  BY LiveFinite, FS_CardinalityType
<1>2. Cardinality({}) = 0
  BY FS_EmptySet
<1>3. 0 = LET m == Cardinality(Live) - k IN IF m < 0 THEN 0 ELSE IF m > n THEN n ELSE m
  BY <1>2 DEF Slices
<1>4. Cardinality(Live) <= k
  BY <1>1, <1>3
<1>5. QED
  BY <1>1, <1>4, RankInRange

\* A page is read: the next begins where it ended, but for page 0, which is the
\* first once more.
LEMMA PageRead ==
  ASSUME BrowseShape, Read
  PROVE  /\ Began' /\ begin' = (IF Began THEN begin ELSE Live)
         /\ ~Began => Skip = 0 /\ Len(got) = 0 /\ Seen = {}
         /\ ask.page = 0 => Skip' = 0
         /\ ask.page # 0 => Skip' = Skip + PageSize
         /\ Began => ask.page # 0
         /\ Rows' = Rows /\ Live' = Live /\ UNCHANGED <<list, moved, gone>>
         /\ ask'.page = ask.page + 1 /\ ask'.sort = ask.sort /\ Len(got') = Len(got) + 1
         /\ Began => got'[1] = got[1]
         /\ \A x : Key(x)' = Key(x) /\ Rank(x)' = Rank(x) /\ (Tied(x)' <=> Tied(x))
         /\ \E P \in Slices(Live, PageSize, Skip) :
              got' = Append(got, P) /\ Seen' = Seen \cup P /\ (P # {} => ~Ended')
<1>1. /\ ask \in [sort : {"newest", "oldest", "popular"}, size : Int, page : Nat]
      /\ ask.page \in {Len(got), Len(got) + 1} /\ got \in Seq(SUBSET Rows)
      /\ list # "nearby"
  BY DEF BrowseShape, Read
<1>2. PICK P \in Slices(Live, PageSize, Skip) : got' = Append(got, P)
  BY DEF Read
<1>3. /\ ask' = [ask EXCEPT !.page = @ + 1] /\ begin' = (IF Began THEN begin ELSE Live)
      /\ UNCHANGED <<list, at, weight, offset, gone, now, moves, moved>>
  BY DEF Read
<1>4. /\ ask'.page = ask.page + 1 /\ ask'.size = ask.size /\ ask'.sort = ask.sort
      /\ ask.page \in Nat /\ Len(got) \in Nat
  BY <1>1, <1>3
<1>5. P \in SUBSET Rows
  BY <1>2 DEF Slices, Live
<1>6. /\ Len(got') = Len(got) + 1 /\ got'[Len(got')] = P /\ DOMAIN got' = 1..(Len(got) + 1)
      /\ DOMAIN got = 1..Len(got) /\ \A i \in DOMAIN got : got'[i] = got[i]
      /\ got'[Len(got) + 1] = P /\ got' # << >>
  BY <1>1, <1>2, <1>5
<1>7. Began' /\ (P # {} => ~Ended')
  BY <1>1, <1>3, <1>6 DEF Began, Ended
<1>8. Rows' = Rows /\ Live' = Live
  BY <1>3 DEF Rows, Live
<1>9. \A x : Key(x)' = Key(x)
  BY <1>3, <1>4 DEF Key
<1>10. \A x : Rank(x)' = Rank(x) /\ (Tied(x)' <=> Tied(x))
  BY <1>8, <1>9 DEF Rank, Ahead, Tied, Before
<1>11. Seen' = Seen \cup P
  <2>1. Pages' = Pages \cup {P}
    <3>1. DOMAIN got' = DOMAIN got \cup {Len(got) + 1}
      BY <1>4, <1>6
    <3>2. QED
      BY <1>6, <3>1 DEF Pages
  <2>2. QED
    BY <2>1 DEF Seen
<1>12. PageSize \in Nat /\ PageSize' = PageSize
  BY <1>4, SizeType DEF PageSize
<1>13. Page' = ask.page + 1
  BY <1>4 DEF Page
<1>14. ask.page # 0 => Page = ask.page
  BY <1>4 DEF Page
<1>15. ask.page = 0 => Skip' = 0
  <2>1. (0 + 1 - 1) * PageSize = 0
    BY <1>12
  <2>2. QED
    BY <1>12, <1>13, <2>1 DEF Skip
<1>16. ask.page # 0 => Skip' = Skip + PageSize
  <2>1. \A p, n \in Nat : (p + 1 - 1) * n = (p - 1) * n + n
    OBVIOUS
  <2>2. QED
    BY <1>4, <1>12, <1>13, <1>14, <2>1 DEF Skip
<1>17. ~Began => Skip = 0 /\ Len(got) = 0 /\ Seen = {}
  <2> SUFFICES ASSUME ~Began
               PROVE  Skip = 0 /\ Len(got) = 0 /\ Seen = {}
    OBVIOUS
  <2>1. got = << >> /\ Len(got) = 0 /\ DOMAIN got = {}
    BY DEF Began
  <2>2. Page = 1
    BY <1>1, <2>1 DEF Page
  <2>3. (1 - 1) * PageSize = 0
    BY <1>12
  <2>4. QED
    BY <2>1, <2>2, <2>3 DEF Skip, Seen, Pages
<1>18. Began => ask.page # 0
  BY <1>1 DEF Began
<1>19. Began => got'[1] = got[1]
  <2>1. Began => 1 \in DOMAIN got
    BY <1>1 DEF Began
  <2>2. QED
    BY <1>6, <2>1
<1>20. QED
  BY <1>1, <1>2, <1>3, <1>4, <1>6, <1>7, <1>8, <1>9, <1>10, <1>11, <1>15, <1>16, <1>17,
     <1>18, <1>19

\* A row more leaves no row with fewer ahead of it, and none untied that was tied.
LEMMA RanksGrow ==
  ASSUME BrowseShape, Insert, NEW x \in Rows
  PROVE  (Tied(x) => Tied(x)') /\ Rank(x)' \in Nat /\ Rank(x) <= Rank(x)'
<1>1. Tied(x) => Tied(x)'
  BY RowAdded DEF Tied, Before
<1>2. Ahead(x) \subseteq Ahead(x)' /\ Ahead(x)' \subseteq Live \cup {Len(at) + 1}
  BY RowAdded, LiveFinite DEF Ahead, Before
<1>3. IsFiniteSet(Live \cup {Len(at) + 1})
  BY LiveFinite, FS_AddElement
<1>4. QED
  BY <1>1, <1>2, <1>3, FS_Subset, FS_CardinalityType DEF Rank

\* Nobody has moved a row since the reader began.
Paging == list # "nearby" /\ ~moved /\ Began

\* What a reader has not seen yet is on a page to come: it has as many rows ahead
\* of it as the reader has passed.
NoneSkipped ==
  Paging => \A x \in begin \ gone :
              x \in Seen \/ Tied(x) \/ (~Ended /\ Rank(x) >= Skip)

LEMMA NoneSkippedStep ==
  BrowseShape /\ NoneSkipped /\ [BrowseNext]_browseVars => NoneSkipped'
<1> SUFFICES ASSUME BrowseShape, NoneSkipped, [BrowseNext]_browseVars PROVE NoneSkipped'
  OBVIOUS
<1>1. CASE UNCHANGED browseVars
  BY <1>1 DEF browseVars, NoneSkipped, Paging, Began, Ended, Seen, Pages, Tied, Before, Key,
              Rank, Ahead, Live, Rows, Skip, Page, PageSize
<1>2. CASE Read
  <2>1. PICK P \in Slices(Live, PageSize, Skip) :
               got' = Append(got, P) /\ Seen' = Seen \cup P /\ (P # {} => ~Ended')
    BY <1>2, PageRead
  <2> SUFFICES ASSUME Paging', NEW x \in begin' \ gone', x \notin Seen', ~Tied(x)'
               PROVE  ~Ended' /\ Rank(x)' >= Skip'
    BY DEF NoneSkipped
  <2>2. ~Tied(x) /\ x \notin Seen /\ x \notin P /\ x \in Live /\ Rank(x) \in Nat
    BY <1>2, <2>1, PageRead, LiveFinite DEF BrowseShape, Live
  <2>3. Rank(x) >= Skip
    <3>1. CASE Began
      BY <1>2, <2>2, <3>1, PageRead DEF NoneSkipped, Paging
    <3>2. CASE ~Began
      BY <1>2, <2>2, <3>2, PageRead
    <3>3. QED
      BY <3>1, <3>2
  <2>4. P # {}
    <3>1. PageSize \in Nat \ {0} /\ Skip \in Nat
      BY SizeType
    <3>2. {} \in Slices(Live, PageSize, Skip) => Rank(x) < Skip
      BY <2>2, <3>1, EmptySlice
    <3>3. QED
      BY <2>2, <2>3, <3>1, <3>2
  <2>5. Rank(x) >= Skip + PageSize
    BY <2>2, <2>3, SizeType, SliceByRank
  <2>6. Rank(x) >= Skip'
    BY <1>2, <2>2, <2>5, PageRead, SizeType
  <2>7. QED
    BY <1>2, <2>1, <2>4, <2>6, PageRead
<1>3. CASE Nearby
  BY <1>3 DEF Nearby, NoneSkipped, Paging
<1>4. CASE Insert
  <2> SUFFICES ASSUME Paging', NEW x \in begin' \ gone', x \notin Seen', ~Tied(x)'
               PROVE  ~Ended' /\ Rank(x)' >= Skip'
    BY DEF NoneSkipped
  <2>1. /\ UNCHANGED <<list, gone, ask, begin, got, moved>> /\ ~Ended
    BY <1>4 DEF Insert
  <2>2. /\ Seen' = Seen /\ Skip' = Skip /\ Paging /\ ~Ended' /\ x \in Rows
    BY <2>1 DEF Seen, Pages, Skip, Page, PageSize, Paging, Began, Ended, BrowseShape
  <2>3. Rank(x) >= Skip
    BY <1>4, <2>1, <2>2, RanksGrow DEF NoneSkipped
  <2>4. QED
    BY <1>4, <2>2, <2>3, RanksGrow, LiveFinite, SizeType
<1>5. CASE Gain
  BY <1>5 DEF Gain, NoneSkipped, Paging, Began
<1>6. CASE Unfavorite
  BY <1>6 DEF Unfavorite, NoneSkipped, Paging, Began
<1>7. CASE Tick
  BY <1>7 DEF Tick, NoneSkipped, Paging, Began, Ended, Seen, Pages, Tied, Before, Key,
              Rank, Ahead, Live, Rows, Skip, Page, PageSize
<1>8. QED
  BY <1>1, <1>2, <1>3, <1>4, <1>5, <1>6, <1>7 DEF BrowseNext

\* A reader who pages to the end of a list misses no row that was there from its
\* first page on, unless the row has the rank of another, or a removal or a like
\* has reordered the list.
THEOREM NothingMissed == BrowseSpec => []MissedOnlyIfReordered
<1>1. BrowseInit => NoneSkipped
  BY DEF BrowseInit, NoneSkipped, Paging, Began
<1>2. NoneSkipped => MissedOnlyIfReordered
  BY DEF NoneSkipped, Paging, Ended, Seen, MissedOnlyIfReordered
<1>3. QED
  BY <1>1, <1>2, BrowseInitShape, BrowseShapeStep, NoneSkippedStep, PTL DEF BrowseSpec

-----------------------------------------------------------------------------
(* What a reader is shown twice.                                            *)

Lengths(pages) == [i \in DOMAIN pages |-> Cardinality(pages[i])]
Shown(pages)   == Sum(Lengths(pages), DOMAIN pages)

\* A page more shows as many rows more as it has.
LEMMA ShownAdds ==
  ASSUME NEW R, IsFiniteSet(R), NEW pages \in Seq(SUBSET R), NEW P \in SUBSET R
  PROVE  /\ Shown(pages) \in Nat /\ Cardinality(P) \in Nat
         /\ Shown(Append(pages, P)) = Shown(pages) + Cardinality(P)
<1> DEFINE n == Len(pages)
           more == Append(pages, P)
<1>1. /\ n \in Nat /\ DOMAIN pages = 1..n /\ DOMAIN more = (1..n) \cup {n + 1}
      /\ n + 1 \notin 1..n /\ more[n + 1] = P /\ \A i \in 1..n : more[i] = pages[i]
  OBVIOUS
<1>2. IsFiniteSet(1..n)
  BY <1>1, FS_Interval
<1>3. \A Q \in SUBSET R : Cardinality(Q) \in Nat
  BY FS_Subset, FS_CardinalityType
<1>4. /\ \A i \in 1..n : Lengths(more)[i] = Lengths(pages)[i] /\ Lengths(pages)[i] \in Nat
      /\ Lengths(more)[n + 1] = Cardinality(P)
  BY <1>1, <1>3 DEF Lengths
<1>5. Sum(Lengths(more), 1..n) = Sum(Lengths(pages), 1..n)
  BY <1>2, <1>4, SumSame
<1>6. \A i \in (1..n) \cup {n + 1} : Lengths(more)[i] \in Nat
  BY <1>3, <1>4
<1>7. Sum(Lengths(more), (1..n) \cup {n + 1}) = Sum(Lengths(more), 1..n) + Lengths(more)[n + 1]
  BY <1>1, <1>2, <1>6, SumAdds
<1>8. Sum(Lengths(pages), 1..n) \in Nat
  BY <1>2, <1>4, SumType
<1>9. QED
  BY <1>1, <1>3, <1>4, <1>5, <1>7, <1>8 DEF Shown

Untied == \A x \in Rows : ~Tied(x)

\* What the reader has seen and is going to be shown again, the rows of the page
\* that a client counting from 0 gets twice, and those published meanwhile.
Again == {x \in Seen : Rank(x) >= Skip}
Zero  == IF ask.page <= Len(got) THEN Cardinality(got[1]) ELSE 0
Fresh == IF ask.sort = "newest" THEN Cardinality(Rows \ begin) ELSE 0

RepeatsCounted ==
  Paging => /\ Seen \subseteq Live
            /\ Untied => Shown(got) + Cardinality(Again) <= Cardinality(Seen) + Zero + Fresh

LEMMA CountsType ==
  ASSUME BrowseShape
  PROVE  /\ Seen \subseteq Rows /\ IsFiniteSet(Seen) /\ Cardinality(Seen) \in Nat
         /\ IsFiniteSet(Again) /\ Cardinality(Again) \in Nat
         /\ Began => Zero \in Nat
         /\ Fresh \in Nat /\ Shown(got) \in Nat
<1>1. got \in Seq(SUBSET Rows) /\ IsFiniteSet(Rows)
  BY LiveFinite DEF BrowseShape
<1>2. Seen \subseteq Rows
  BY <1>1 DEF Seen, Pages
<1>3. Again \subseteq Rows /\ Rows \ begin \subseteq Rows
  BY <1>2 DEF Again
<1>4. Began => got[1] \subseteq Rows
  BY <1>1 DEF Began
<1>5. \A Q \in SUBSET Rows : IsFiniteSet(Q) /\ Cardinality(Q) \in Nat
  BY <1>1, FS_Subset, FS_CardinalityType
<1>6. Shown(got) \in Nat
  BY <1>1, ShownAdds
<1>7. QED
  BY <1>2, <1>3, <1>4, <1>5, <1>6 DEF Zero, Fresh

\* Without ties, no two rows have the same rank.
LEMMA RanksDiffer ==
  ASSUME BrowseShape, Untied, NEW x \in Live, NEW y \in Live, Rank(x) = Rank(y)
  PROVE  x = y
<1>1. ASSUME NEW v \in Live, NEW w \in Live, Before(v, w)
      PROVE  Rank(v) < Rank(w)
  <2>1. /\ v \in Ahead(w) /\ Ahead(v) \subseteq Ahead(w) \ {v}
    BY <1>1, KeyType, LiveFinite DEF Ahead, Before
  <2>2. QED
    BY <2>1, LiveFinite, Fewer DEF Rank
<1>2. x # y => Before(x, y) \/ Before(y, x)
  BY LiveFinite DEF Untied, Tied
<1>3. QED
  BY <1>1, <1>2, LiveFinite

\* A row more goes in front of all others if the newest come first, else behind
\* them.
LEMMA RanksShift ==
  ASSUME BrowseShape, Insert, Untied'
  PROVE  /\ Untied
         /\ \A x \in Rows :
              Rank(x)' = IF ask.sort = "newest" THEN Rank(x) + 1 ELSE Rank(x)
<1>1. PICK new :
        /\ new \notin Rows /\ Rows' = Rows \cup {new} /\ Live' = Live \cup {new}
        /\ \A x \in Rows : Key(x)' = Key(x)
        /\ at'[new] = now /\ weight'[new] = 0
  BY RowAdded
<1>2. Untied
  BY <1>1 DEF Untied, Tied, Before
<1>3. /\ ask' = ask /\ ask.sort \in {"newest", "oldest", "popular"}
      /\ now \in Nat /\ \A x \in Rows : at[x] \in Nat /\ weight[x] \in Nat /\ at[x] <= now
  <2>1. ask' = ask /\ ask.sort \in {"newest", "oldest", "popular"} /\ now \in Nat
    BY DEF Insert, BrowseShape
  <2>2. /\ at \in Seq(Nat) /\ weight \in Seq(Nat) /\ Len(weight) = Len(at)
        /\ \A x \in Rows : at[x] <= now
    BY DEF BrowseShape
  <2>3. \A x \in Rows : at[x] \in Nat /\ weight[x] \in Nat
    BY <2>2 DEF Rows
  <2>4. QED
    BY <2>1, <2>2, <2>3
<1>4. ASSUME NEW x \in Rows
      PROVE  Before(new, x)' <=> ask.sort = "newest"
  <2>1. ~Tied(x)' /\ new # x
    BY <1>1 DEF Untied
  <2>2. Key(new)' # Key(x)'
    <3>1. Before(x, new)' \/ Before(new, x)'
      BY <1>1, <2>1 DEF Tied
    <3>2. Key(x) \in Int
      BY KeyType
    <3>3. QED
      BY <1>1, <3>1, <3>2 DEF Before
  <2>3. CASE ask.sort = "newest"
    <3>1. Key(x) = -at[x] /\ Key(new)' = -now
      BY <1>1, <1>3, <2>3 DEF Key
    <3>2. QED
      BY <1>1, <1>3, <2>2, <2>3, <3>1 DEF Before
  <2>4. CASE ask.sort = "oldest"
    <3>1. Key(x) = at[x] /\ Key(new)' = now
      BY <1>1, <1>3, <2>4 DEF Key
    <3>2. QED
      BY <1>1, <1>3, <2>2, <2>4, <3>1 DEF Before
  <2>5. CASE ask.sort = "popular"
    <3>1. Key(x) = -weight[x] /\ Key(new)' = -0
      BY <1>1, <1>3, <2>5 DEF Key
    <3>2. QED
      BY <1>1, <1>3, <2>2, <2>5, <3>1 DEF Before
  <2>6. QED
    BY <1>3, <2>3, <2>4, <2>5
<1>5. ASSUME NEW x \in Rows
      PROVE  Rank(x)' = IF ask.sort = "newest" THEN Rank(x) + 1 ELSE Rank(x)
  <2>1. Ahead(x)' = IF ask.sort = "newest" THEN Ahead(x) \cup {new} ELSE Ahead(x)
    <3>1. \A y \in Live : Before(y, x)' <=> Before(y, x)
      BY <1>1, LiveFinite DEF Before
    <3>2. QED
      BY <1>1, <1>4, <3>1 DEF Ahead
  <2>2. new \notin Ahead(x)
    BY <1>1, LiveFinite
  <2>3. Cardinality(Ahead(x) \cup {new}) = Rank(x) + 1
    BY <2>2, LiveFinite, FS_AddElement DEF Rank
  <2>4. QED
    BY <2>1, <2>3 DEF Rank
<1>6. QED
  BY <1>2, <1>5

LEMMA RepeatsCountedInsert ==
  BrowseShape /\ RepeatsCounted /\ Insert => RepeatsCounted'
<1> SUFFICES ASSUME BrowseShape, RepeatsCounted, Insert, Paging'
             PROVE  /\ Seen' \subseteq Live'
                    /\ Untied' => Shown(got)' + Cardinality(Again)'
                                    <= Cardinality(Seen)' + Zero' + Fresh'
  BY DEF RepeatsCounted
<1>1. UNCHANGED <<list, gone, ask, begin, got, moved>>
  BY DEF Insert
<1>2. /\ Paging /\ Seen' = Seen /\ Skip' = Skip /\ Shown(got)' = Shown(got) /\ Zero' = Zero
      /\ Began
  BY <1>1 DEF Seen, Pages, Skip, Page, PageSize, Paging, Began, Zero
<1>3. Seen \subseteq Live /\ Live \subseteq Rows /\ Live \subseteq Live'
  BY <1>2, RowAdded, LiveFinite DEF RepeatsCounted
<1>4. ASSUME Untied'
      PROVE  Shown(got) + Cardinality(Again') <= Cardinality(Seen) + Zero + Fresh'
  <2>1. /\ Untied
        /\ \A x \in Rows : Rank(x)' = IF ask.sort = "newest" THEN Rank(x) + 1 ELSE Rank(x)
    BY <1>4, RanksShift
  <2>2. Shown(got) + Cardinality(Again) <= Cardinality(Seen) + Zero + Fresh
    BY <1>2, <2>1 DEF RepeatsCounted
  <2>3. CASE ask.sort # "newest"
    <3>1. Again' = Again
      BY <1>2, <1>3, <2>1, <2>3 DEF Again
    <3>2. Fresh' = Fresh
      BY <1>1, <2>3 DEF Fresh
    <3>3. QED
      BY <2>2, <3>1, <3>2
  <2>4. CASE ask.sort = "newest"
    <3> DEFINE passed == {x \in Seen : Rank(x) + 1 = Skip}
    <3>1. Again' = Again \cup passed
      <4>1. Again' = {x \in Seen : Rank(x) + 1 >= Skip}
        BY <1>2, <1>3, <2>1, <2>4 DEF Again
      <4>2. \A x : Rank(x) \in Nat
        BY LiveFinite
      <4>3. Skip \in Nat
        BY SizeType
      <4>4. \A x : Rank(x) + 1 >= Skip <=> Rank(x) >= Skip \/ Rank(x) + 1 = Skip
        BY <4>2, <4>3
      <4>5. QED
        BY <4>1, <4>4 DEF Again
    <3>2. Cardinality(Again') \in Nat /\ Cardinality(Again') <= Cardinality(Again) + 1
      <4> DEFINE n == Cardinality(Again)
      <4>0. IsFiniteSet(Again) /\ n \in Nat /\ n <= n + 1 /\ n + 1 <= n + 1
        BY CountsType
      <4>1. CASE passed = {}
        BY <3>1, <4>0, <4>1
      <4>2. ASSUME NEW x \in passed
            PROVE  Cardinality(Again') \in Nat /\ Cardinality(Again') <= Cardinality(Again) + 1
        <5>1. \A y \in passed : y = x
          <6>1. ASSUME NEW y \in passed
                PROVE  y = x
            <7>1. x \in Live /\ y \in Live /\ Rank(x) = Rank(y)
              BY <1>3, SizeType, LiveFinite
            <7>2. QED
              BY <2>1, <7>1, RanksDiffer
          <6>2. QED
            BY <6>1
        <5>2. Again' = Again \cup {x}
          BY <3>1, <5>1
        <5>3. Cardinality(Again \cup {x}) = IF x \in Again THEN n ELSE n + 1
          BY <4>0, FS_AddElement
        <5> HIDE DEF n
        <5>4. n + 1 \in Nat /\ n \in Nat
          BY <4>0
        <5>5. QED
          BY <4>0, <5>2, <5>3, <5>4 DEF n
      <4>3. QED
        BY <4>1, <4>2
    <3>3. Fresh' = Fresh + 1
      <4>1. PICK new : new \notin Rows /\ Rows' = Rows \cup {new}
        BY RowAdded
      <4>2. new \notin begin /\ (Rows \cup {new}) \ begin = (Rows \ begin) \cup {new}
        BY <4>1 DEF BrowseShape
      <4>3. Cardinality((Rows \ begin) \cup {new}) = Cardinality(Rows \ begin) + 1
        <5>1. IsFiniteSet(Rows \ begin) /\ new \notin Rows \ begin
          BY <4>1, LiveFinite, FS_Subset
        <5>2. QED
          BY <5>1, FS_AddElement
      <4>4. QED
        BY <1>1, <2>4, <4>1, <4>2, <4>3 DEF Fresh
    <3>4. QED
      BY <1>2, <2>2, <3>2, <3>3, CountsType
  <2>5. QED
    BY <2>3, <2>4
<1>5. QED
  BY <1>2, <1>3, <1>4

LEMMA RepeatsCountedRead ==
  BrowseShape /\ RepeatsCounted /\ Read => RepeatsCounted'
<1> SUFFICES ASSUME BrowseShape, RepeatsCounted, Read, Paging'
             PROVE  /\ Seen' \subseteq Live'
                    /\ Untied' => Shown(got)' + Cardinality(Again)'
                                    <= Cardinality(Seen)' + Zero' + Fresh'
  BY DEF RepeatsCounted
<1>1. PICK P \in Slices(Live, PageSize, Skip) : got' = Append(got, P) /\ Seen' = Seen \cup P
  BY PageRead
<1>2. /\ Began => Paging
      /\ Rows' = Rows /\ Live' = Live /\ Live \subseteq Rows
      /\ begin' = (IF Began THEN begin ELSE Live)
      /\ ask'.page = ask.page + 1 /\ ask'.sort = ask.sort /\ Len(got') = Len(got) + 1
      /\ \A x : Rank(x)' = Rank(x) /\ Rank(x) \in Nat
      /\ Untied' => Untied
  BY PageRead, LiveFinite DEF Paging, Untied
<1>3. /\ P \subseteq Live /\ IsFiniteSet(P) /\ Cardinality(P) \in Nat /\ IsFiniteSet(Rows)
      /\ Shown(got') = Shown(got) + Cardinality(P)
  <2>1. P \subseteq Live /\ P \subseteq Rows /\ IsFiniteSet(Rows) /\ got \in Seq(SUBSET Rows)
    BY <1>1, <1>2, LiveFinite DEF Slices, BrowseShape
  <2>2. QED
    BY <1>1, <2>1, FS_Subset, FS_CardinalityType, ShownAdds
<1>4. Seen \subseteq Live
  BY <1>2, PageRead DEF RepeatsCounted
<1>5. Seen' \subseteq Live'
  BY <1>1, <1>2, <1>3, <1>4
<1>6. /\ Skip \in Nat /\ PageSize \in Nat \ {0} /\ ask.page \in Nat /\ Len(got) \in Nat
  BY SizeType DEF BrowseShape
<1>7. ASSUME Untied
      PROVE  Shown(got') + Cardinality(Again') <= Cardinality(Seen') + Zero' + Fresh'
  <2>1. \A x \in Live : x \in P <=> Skip <= Rank(x) /\ Rank(x) < Skip + PageSize
    BY <1>2, <1>6, <1>7, SliceByRank DEF Untied
  <2>2. Again' = {x \in Seen \cup P : Rank(x) >= Skip'}
    BY <1>1, <1>2 DEF Again
  <2>3. CASE ask.page # 0 /\ Began
    <3>1. /\ Skip' = Skip + PageSize /\ Fresh' = Fresh /\ Zero' = Zero
      <4>1. Skip' = Skip + PageSize /\ got'[1] = got[1] /\ begin' = begin
        BY <2>3, PageRead
      <4>2. ask'.page <= Len(got') <=> ask.page <= Len(got)
        BY <1>2, <1>6
      <4>3. QED
        BY <1>2, <4>1, <4>2 DEF Zero, Fresh
    <3>2. \A x : Rank(x) >= Skip <=> Rank(x) >= Skip' \/ (Skip <= Rank(x) /\ Rank(x) < Skip')
      BY <1>2, <1>6, <3>1
    <3>3. Again = Again' \cup (Seen \cap P) /\ Again' \cap (Seen \cap P) = {}
      <4>1. \A x \in P : ~(Rank(x) >= Skip')
        BY <1>2, <1>3, <1>6, <2>1, <3>1
      <4>2. \A x \in Seen : x \in P <=> Skip <= Rank(x) /\ Rank(x) < Skip'
        BY <1>4, <2>1, <3>1
      <4>3. QED
        BY <2>2, <3>2, <4>1, <4>2 DEF Again
    <3>4. IsFiniteSet(Seen) /\ IsFiniteSet(Seen \cap P) /\ IsFiniteSet(Again')
      <4>1. IsFiniteSet(Seen) /\ IsFiniteSet(Again)
        BY CountsType
      <4>2. Seen \cap P \subseteq Seen /\ Again' \subseteq Again
        BY <3>3
      <4>3. QED
        BY <4>1, <4>2, FS_Subset
    <3>5. Cardinality(Again) = Cardinality(Again') + Cardinality(Seen \cap P)
      <4>1. Cardinality(Again' \cap (Seen \cap P)) = 0
        BY <3>3, FS_EmptySet
      <4>2. /\ Cardinality(Again') \in Nat /\ Cardinality(Seen \cap P) \in Nat
        BY <3>4, FS_CardinalityType
      <4>3. Cardinality(Again)
              = Cardinality(Again') + Cardinality(Seen \cap P)
                  - Cardinality(Again' \cap (Seen \cap P))
        BY <3>3, <3>4, FS_Union
      <4>4. QED
        BY <4>1, <4>2, <4>3
    <3>6. Cardinality(Seen') = Cardinality(Seen) + Cardinality(P) - Cardinality(Seen \cap P)
      BY <1>1, <1>3, <3>4, FS_Union
    <3>7. Shown(got) + Cardinality(Again) <= Cardinality(Seen) + Zero + Fresh
      BY <1>2, <1>7, <2>3 DEF RepeatsCounted
    <3>8. Cardinality(Again') \in Nat /\ Cardinality(Seen \cap P) \in Nat /\ Zero \in Nat
      BY <2>3, <3>4, FS_CardinalityType, CountsType
    <3>9. QED
      BY <1>3, <3>1, <3>5, <3>6, <3>7, <3>8, CountsType
  <2>4. CASE ~Began
    <3>1. /\ Skip = 0 /\ Len(got) = 0 /\ Seen = {} /\ got = << >>
      BY <2>4, PageRead DEF Began
    <3>2. Shown(got) = 0
      <4>1. DOMAIN got = {}
        BY <3>1
      <4>2. QED
        BY <4>1, SumEmpty DEF Shown
    <3>3. Seen' = P /\ got'[1] = P /\ Shown(got') = Cardinality(P)
      BY <1>1, <1>3, <3>1, <3>2
    <3>4. Fresh' \in Nat
      <4>1. Rows' \ begin' \subseteq Rows
        BY <1>2
      <4>2. QED
        BY <1>3, <4>1, FS_Subset, FS_CardinalityType DEF Fresh
    <3>5. CASE ask.page = 0
      <4>1. Zero' = Cardinality(P)
        BY <1>2, <3>1, <3>3, <3>5 DEF Zero
      <4>2. Again' \subseteq P
        BY <2>2, <3>1
      <4>3. Cardinality(Again') \in Nat /\ Cardinality(Again') <= Cardinality(P)
        BY <1>3, <4>2, FS_Subset, FS_CardinalityType
      <4>4. QED
        BY <1>3, <3>3, <3>4, <4>1, <4>3
    <3>6. CASE ask.page # 0
      <4>1. Skip' = Skip + PageSize
        BY <3>6, PageRead
      <4>2. Again' = {}
        BY <1>2, <1>3, <1>6, <2>1, <2>2, <3>1, <4>1
      <4>3. Zero' \in Nat
        BY <1>3, <3>3 DEF Zero
      <4>4. Cardinality(Again') = 0
        BY <4>2, FS_EmptySet
      <4>5. QED
        BY <1>3, <3>3, <3>4, <4>3, <4>4
    <3>7. QED
      BY <3>5, <3>6
  <2>5. QED
    BY <2>3, <2>4, PageRead
<1>8. QED
  BY <1>2, <1>5, <1>7

LEMMA RepeatsCountedStep ==
  BrowseShape /\ RepeatsCounted /\ [BrowseNext]_browseVars => RepeatsCounted'
<1> SUFFICES ASSUME BrowseShape, RepeatsCounted, [BrowseNext]_browseVars
             PROVE  RepeatsCounted'
  OBVIOUS
<1>1. ASSUME UNCHANGED <<list, at, weight, gone, ask, begin, got, moved>>
      PROVE  RepeatsCounted'
  BY <1>1 DEF RepeatsCounted, Paging, Began, Seen, Pages, Untied, Tied, Before, Key, Rank,
              Ahead, Live, Rows, Skip, Page, PageSize, Again, Zero, Fresh
<1>2. CASE UNCHANGED browseVars
  BY <1>1, <1>2 DEF browseVars
<1>3. CASE Read
  BY <1>3, RepeatsCountedRead
<1>4. CASE Nearby
  BY <1>4 DEF Nearby, RepeatsCounted, Paging
<1>5. CASE Insert
  BY <1>5, RepeatsCountedInsert
<1>6. CASE Gain
  BY <1>6 DEF Gain, RepeatsCounted, Paging, Began
<1>7. CASE Unfavorite
  BY <1>7 DEF Unfavorite, RepeatsCounted, Paging, Began
<1>8. CASE Tick
  BY <1>1, <1>8 DEF Tick
<1>9. QED
  BY <1>2, <1>3, <1>4, <1>5, <1>6, <1>7, <1>8 DEF BrowseNext

\* A reader is shown a row again at most once for each row published since its
\* first page, if the newest come first, and never otherwise; but a client that
\* counts its pages from 0 is shown the first page twice.
THEOREM RepeatsBounded == BrowseSpec => []RepeatsBoundedByInserts
<1>1. BrowseInit => RepeatsCounted
  BY DEF BrowseInit, RepeatsCounted, Paging, Began
<1>2. BrowseShape /\ RepeatsCounted => RepeatsBoundedByInserts
  <2> SUFFICES ASSUME BrowseShape, RepeatsCounted, list # "nearby", ~moved, Untied
               PROVE  Shown(got) - Cardinality(Seen)
                        <= (IF Began /\ ask.page <= Len(got) THEN Cardinality(got[1]) ELSE 0)
                             + Fresh
    BY DEF RepeatsBoundedByInserts, Untied, Shown, Lengths, Sum, Seen, Fresh
  <2>1. /\ Cardinality(Again) \in Nat /\ Cardinality(Seen) \in Nat /\ Fresh \in Nat
        /\ Shown(got) \in Nat /\ (Began => Zero \in Nat)
    BY CountsType
  <2>2. CASE Began
    <3>1. Shown(got) + Cardinality(Again) <= Cardinality(Seen) + Zero + Fresh
      BY <2>2 DEF RepeatsCounted, Paging
    <3>2. (IF Began /\ ask.page <= Len(got) THEN Cardinality(got[1]) ELSE 0) = Zero
      BY <2>2 DEF Zero
    <3>3. QED
      BY <2>1, <2>2, <3>1, <3>2
  <2>3. CASE ~Began
    <3>1. DOMAIN got = {}
      BY <2>3 DEF Began
    <3>2. Shown(got) = 0
      BY <3>1, SumEmpty DEF Shown
    <3>3. QED
      BY <2>1, <2>3, <3>2
  <2>4. QED
    BY <2>2, <2>3
<1>3. QED
  BY <1>1, <1>2, BrowseInitShape, BrowseShapeStep, RepeatsCountedStep, PTL DEF BrowseSpec

-----------------------------------------------------------------------------
(* What a nearby request leaves out.                                        *)

LEMMA SquareAtMost ==
  ASSUME NEW a \in Int, NEW b \in Int, NEW r \in Nat, a * a + b * b <= r * r
  PROVE  -r <= a /\ a <= r
<1>1. b * b >= 0
  OBVIOUS
<1>2. a * a <= r * r
  BY <1>1
<1>3. ASSUME NEW c \in Nat, c * c <= r * r
      PROVE  c <= r
  <2> SUFFICES ASSUME c > r
               PROVE  FALSE
    OBVIOUS
  <2>1. c * c > r * r
    <3>1. c * c >= c * r + c
      BY SMT
    <3>2. c * r >= r * r
      BY SMT
    <3>3. QED
      BY <3>1, <3>2
  <2>2. QED
    BY <1>3, <2>1
<1>4. CASE a >= 0
  BY <1>2, <1>3, <1>4
<1>5. CASE a < 0
  <2>1. -a \in Nat /\ (-a) * (-a) = a * a
    BY <1>5
  <2>2. -a <= r
    BY <1>2, <1>3, <2>1
  <2>3. QED
    BY <1>5, <2>2
<1>6. QED
  BY <1>4, <1>5

\* A place within the radius is no further north or south than the box.
LEMMA RadiusInBox ==
  ASSUME BrowseShape, NEW x \in Rows, WithinRadius(x), offset[x][2] \in (-Radius)..Radius
  PROVE  InBox(x)
<1>1. offset[x][1] \in Int /\ offset[x][2] \in Int
  <2>1. offset[x] \in Int \X Int
    BY DEF BrowseShape, Rows
  <2>2. QED
    BY <2>1
<1>2. Radius \in Nat /\ CosPercent \in Int
  BY BrowseAssumption
<1> DEFINE a == 100 * offset[x][1]
           b == CosPercent * offset[x][2]
           r == 100 * Radius
<1>3. a \in Int /\ b \in Int /\ r \in Nat
  BY <1>1, <1>2
<1>4. a * a + b * b <= r * r
  BY DEF WithinRadius
<1>5. -r <= a /\ a <= r
  BY <1>3, <1>4, SquareAtMost
<1>6. -Radius <= offset[x][1] /\ offset[x][1] <= Radius
  BY <1>1, <1>2, <1>5
<1>7. -Radius <= offset[x][2] /\ offset[x][2] <= Radius
  BY <1>1, <1>2
<1>8. QED
  BY <1>6, <1>7 DEF InBox

LEMMA NearbyStep ==
  BrowseShape /\ Nearby => NearbyMissesExplained'
<1> SUFFICES ASSUME BrowseShape, Nearby, NEW x \in begin', WithinRadius(x)', x \notin got'[1],
                    offset'[x][2] \in (-Radius)..Radius
             PROVE  Cardinality({y \in begin' \ {x} : InBox(y)' /\ ~Before(x, y)'}) >= Limit
  BY DEF NearbyMissesExplained
<1> DEFINE S == {y \in Live : InBox(y)}
<1>1. UNCHANGED <<list, at, weight, offset, gone, now, ask, moves, moved>> /\ begin' = Live
  BY DEF Nearby
<1>2. PICK P \in Slices(S, Limit, 0) : got' = <<{y \in P : WithinRadius(y)}>>
  BY DEF Nearby
<1>3. WithinRadius(x) /\ x \in Live /\ x \in Rows
  BY <1>1, LiveFinite DEF WithinRadius
<1>4. x \in S \ P
  <2>1. InBox(x)
    BY <1>1, <1>3, RadiusInBox
  <2>2. got'[1] = {y \in P : WithinRadius(y)}
    BY <1>2
  <2>3. QED
    BY <1>3, <2>1, <2>2
<1>5. /\ P \subseteq S /\ IsFiniteSet(S) /\ IsFiniteSet(P) /\ IsFiniteSet(Live)
      /\ Cardinality(P) \in Nat /\ Cardinality(S) \in Nat
  <2>1. P \subseteq S /\ S \subseteq Live
    BY <1>2 DEF Slices
  <2>2. QED
    BY <2>1, LiveFinite, FS_Subset, FS_CardinalityType
<1>6. Limit \in Nat \ {0}
  BY BrowseAssumption
<1>7. Cardinality(P) = Limit
  <2>1. Cardinality(P) # Cardinality(S)
    BY <1>4, <1>5, FS_Subset
  <2>2. Cardinality(P) = LET m == Cardinality(S) - 0
                         IN IF m < 0 THEN 0 ELSE IF m > Limit THEN Limit ELSE m
    BY <1>2 DEF Slices
  <2>3. QED
    BY <1>5, <1>6, <2>1, <2>2
<1>8. \A y \in P : ~Before(x, y)
  <2>1. P # {}
    BY <1>6, <1>7, FS_EmptySet
  <2>2. PICK A \in SUBSET (S \ P) :
          Cardinality(A) = 0 /\ \A y \in P, z \in S \ (A \cup P) : ~Before(z, y)
    BY <1>2, <2>1 DEF Slices
  <2>3. A = {}
    BY <1>5, <2>2, FS_Subset, FS_EmptySet
  <2>4. QED
    BY <1>4, <2>2, <2>3
<1>9. P \subseteq {y \in begin' \ {x} : InBox(y)' /\ ~Before(x, y)'}
  <2>1. \A y \in P : y \in Live /\ y # x /\ InBox(y)
    BY <1>4, <1>5
  <2>2. \A y : (InBox(y)' <=> InBox(y)) /\ (Before(x, y)' <=> Before(x, y))
    BY <1>1 DEF InBox, Before, Key
  <2>3. QED
    BY <1>1, <1>8, <2>1, <2>2
<1>10. IsFiniteSet({y \in begin' \ {x} : InBox(y)' /\ ~Before(x, y)'})
  BY <1>1, <1>5, FS_Subset
<1>11. QED
  BY <1>6, <1>7, <1>9, <1>10, FS_Subset, FS_CardinalityType

LEMMA NearbyExplainedStep ==
  /\ BrowseShape /\ NearbyMissesExplained /\ [BrowseNext]_browseVars
  => NearbyMissesExplained'
<1> SUFFICES ASSUME BrowseShape, NearbyMissesExplained, [BrowseNext]_browseVars
             PROVE  NearbyMissesExplained'
  OBVIOUS
<1>1. CASE UNCHANGED browseVars
  BY <1>1 DEF browseVars, NearbyMissesExplained, Ended, Began, WithinRadius, InBox, Before, Key
<1>2. CASE Nearby
  BY <1>2, NearbyStep
<1>3. CASE Read
  BY <1>3 DEF Read, NearbyMissesExplained
<1>4. CASE Insert \/ Gain \/ Unfavorite \/ Tick
  <2>1. ~Ended /\ list' = list /\ got' = got
    BY <1>4 DEF Insert, Gain, Unfavorite, Tick
  <2>2. ~Ended'
    BY <2>1 DEF Ended, Began
  <2>3. QED
    BY <2>2 DEF NearbyMissesExplained
<1>5. QED
  BY <1>1, <1>2, <1>3, <1>4 DEF BrowseNext

\* A place within the radius that a nearby request leaves out is outside of its box
\* to the east or west, or as many places as it looks at are before it.
THEOREM MissesExplained == BrowseSpec => []NearbyMissesExplained
<1>1. BrowseInit => NearbyMissesExplained
  BY DEF BrowseInit, NearbyMissesExplained, Ended, Began
<1>2. QED
  BY <1>1, BrowseInitShape, BrowseShapeStep, NearbyExplainedStep, PTL DEF BrowseSpec

=============================================================================
