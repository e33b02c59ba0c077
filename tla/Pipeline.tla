------------------------------ MODULE Pipeline ------------------------------
(***************************************************************************)
(* How a request travels from the router to its handler and back (main.go, *)
(* router/router.go, middleware/).                                         *)
(*                                                                         *)
(* The router takes the first registered route that matches.  Its handler  *)
(* is wrapped as Recovery(CORS(AccessLog(Auth(handler)))), where Auth is   *)
(* strict, optional or absent.  A request goes down through the layers,    *)
(* and its result, or a panic, comes back up through them.  An API answer  *)
(* is JSON with a code of its own: WriteJSON never sets the HTTP status.   *)
(*                                                                         *)
(* Requests share nothing on this way, so one is followed at a time.  A    *)
(* path is the sequence of its segments; a valid token is the user it was  *)
(* signed for.                                                             *)
(***************************************************************************)
EXTENDS Naturals, Sequences, FiniteSets, SequencesExt

CONSTANTS
  Methods,   \* HTTP methods of requests
  Paths,     \* paths of requests
  Users,     \* ids of users
  BadToken,  \* a token that is malformed, expired or signed with another key
  HandlerCodes, \* codes handlers answer with once they know whom they serve
  None       \* no token, no user, no request, no route, no log line

ASSUME PipelineAssumption ==
  /\ Paths \subseteq Seq(STRING)
  /\ 0 \notin Users
  /\ BadToken \notin Users
  /\ 500 \in HandlerCodes
  /\ None \notin Users \cup {BadToken}
  /\ None \notin {"Info", "Warn", "Error"}

VARIABLES
  pc,        \* the layer that acts next
  req,       \* the request
  route,     \* its route
  user,      \* user id in the context, 0 for none
  headers,   \* whether the CORS headers are set
  status,    \* HTTP status, 200 unless something sets it
  answers,   \* codes of the answers written so far: of a JSON body, or of a file
  panicking, \* the handler has panicked and nobody has recovered yet
  line       \* level of the access log line, None without one

vars == <<pc, req, route, user, headers, status, answers, panicking, line>>

-----------------------------------------------------------------------------
(* The routes.  An empty method stands for any.                             *)

Route(m, path, wrap, h) == [method |-> m, path |-> path, wrap |-> wrap, handler |-> h]

UserRoutes == <<
  Route("POST", <<"api", "user", "login">>,        "plain", "UserLogin"),
  Route("GET",  <<"api", "user", "info">>,         "auth",  "GetUserInfo"),
  Route("POST", <<"api", "user", "update">>,       "auth",  "UpdateUserInfo"),
  Route("GET",  <<"api", "user", "stats">>,        "auth",  "GetUserStats"),
  Route("GET",  <<"api", "user", "achievements">>, "auth",  "GetUserAchievements"),
  Route("GET",  <<"api", "user", "photos">>,       "auth",  "GetUserPhotos"),
  Route("GET",  <<"api", "user", "favorites">>,    "auth",  "GetUserFavorites"),
  Route("GET",  <<"api", "user", "footprints">>,   "auth",  "GetUserFootprints") >>

PlaceRoutes == <<
  Route("GET",  <<"api", "places", "nearby">>,        "optional", "GetNearbyPlaces"),
  Route("GET",  <<"api", "places", "search">>,        "optional", "SearchPlaces"),
  Route("POST", <<"api", "places", "create">>,        "auth",     "CreatePlace"),
  Route("GET",  <<"api", "places", ":id">>,           "optional", "GetPlaceDetail"),
  Route("GET",  <<"api", "places", ":id", "photos">>, "optional", "GetPlacePhotos") >>

PhotoRoutes == <<
  Route("POST", <<"api", "photos", "publish">>,         "auth",     "PublishPhotos"),
  Route("GET",  <<"api", "photos", ":id">>,             "optional", "GetPhotoDetail"),
  Route("POST", <<"api", "photos", ":id", "like">>,     "auth",     "LikePhoto"),
  Route("GET",  <<"api", "photos", ":id", "comments">>, "optional", "GetPhotoComments"),
  Route("POST", <<"api", "photos", ":id", "comments">>, "auth",     "PostComment") >>

OtherRoutes == <<
  Route("POST", <<"api", "upload">>,            "auth",     "UploadFile"),
  Route("POST", <<"api", "favorite">>,          "auth",     "FavoritePhoto"),
  Route("GET",  <<"api", "brand", "memories">>, "optional", "GetBrandMemories"),
  Route("GET",  <<"health">>,                   "bare",     "health"),
  Route("",     <<"static", "*">>,              "bare",     "static") >>

\* Mistake: the routes of places are registered in the opposite order.
RoutesReversed == UserRoutes \o Reverse(PlaceRoutes) \o PhotoRoutes \o OtherRoutes

Routes == UserRoutes \o PlaceRoutes \o PhotoRoutes \o OtherRoutes

\* The pattern Handle compiles: ":id" is one segment that is not empty, a final
\* "*" is whatever is left.
Matches(template, path) ==
  LET n == Len(template)
      segment(i) == (template[i] = ":id" /\ path[i] # "") \/ template[i] = path[i] IN
  IF Last(template) = "*"
    THEN Len(path) >= n /\ \A i \in 1..(n - 1) : segment(i)
    ELSE Len(path) = n /\ \A i \in 1..n : segment(i)

Accepts(r, m, path) == (r.method = "" \/ r.method = m) /\ Matches(r.path, path)

ParseToken(t) == IF t \in Users THEN t ELSE 0

Requests == [method : Methods, path : Paths, token : Users \cup {BadToken, None}]

\* What http.FileServer and the tests before it answer: a file or a part of it, a
\* redirect to a directory's or a file's own URL, nothing new, no such file, one
\* that may not be read, a precondition or a range that is not met, a failed read.
FileCodes == {200, 206, 301, 304, 403, 404, 412, 416, 500}

Answer(code) == answers' = Append(answers, code)

Init ==
  /\ pc = "idle" /\ req = None /\ route = None
  /\ user = 0 /\ headers = FALSE /\ status = 200 /\ answers = << >>
  /\ panicking = FALSE /\ line = None

-----------------------------------------------------------------------------
Receive ==
  /\ pc = "idle"
  /\ req' \in Requests
  /\ pc' = "route"
  /\ UNCHANGED <<route, user, headers, status, answers, panicking, line>>

\* ServeHTTP takes the first route that accepts the request, else answers 404.
ServeHTTP ==
  LET found == {i \in DOMAIN Routes : Accepts(Routes[i], req.method, req.path)}
      first == CHOOSE i \in found : \A j \in found : i <= j IN
  /\ pc = "route"
  /\ IF found = {}
       THEN /\ status' = 404 /\ Answer(404) /\ pc' = "done"
            /\ UNCHANGED route
       ELSE /\ route' = Routes[first]
            /\ pc' = IF Routes[first].wrap = "bare" THEN Routes[first].handler ELSE "cors"
            /\ UNCHANGED <<status, answers>>
  /\ UNCHANGED <<req, user, headers, panicking, line>>

Health ==
  /\ pc = "health"
  /\ Answer(0) /\ pc' = "done"
  /\ UNCHANGED <<req, route, user, headers, status, panicking, line>>

\* Which of the codes it is depends on the directory and the headers of the request.
Static ==
  /\ pc = "static"
  /\ \E code \in FileCodes : status' = code /\ Answer(code)
  /\ pc' = "done"
  /\ UNCHANGED <<req, route, user, headers, panicking, line>>

\* Mistake: the headers are left to the handlers that need them.
CORSOnGet ==
  /\ pc = "cors"
  /\ headers' = (req.method = "GET")
  /\ pc' = "auth"
  /\ UNCHANGED <<req, route, user, status, answers, panicking, line>>

\* OPTIONS is answered here, with the status alone; no wrapped route is registered
\* for it, though.  AccessLog, the next layer, only takes the time.
CORSMiddleware ==
  /\ pc = "cors"
  /\ headers' = TRUE
  /\ pc' = IF req.method = "OPTIONS" THEN "recover" ELSE "auth"
  /\ UNCHANGED <<req, route, user, status, answers, panicking, line>>

\* Mistake: a strict route is wrapped as an optional one.
AuthAlwaysOptional ==
  /\ pc = "auth"
  /\ user' = ParseToken(req.token)
  /\ pc' = "handler"
  /\ UNCHANGED <<req, route, headers, status, answers, panicking, line>>

\* Mistake: an optional route is wrapped as a strict one.
AuthNeverOptional ==
  LET parsed == ParseToken(req.token) IN
  /\ pc = "auth"
  /\ IF route.wrap # "plain" /\ parsed = 0
       THEN Answer(401) /\ pc' = "accessLog" /\ UNCHANGED user
       ELSE user' = parsed /\ pc' = "handler" /\ UNCHANGED answers
  /\ UNCHANGED <<req, route, headers, status, panicking, line>>

\* Mistake: AccessLog is wrapped inside of Auth, and a refusal returns past it.
AuthOutside ==
  LET parsed == IF route.wrap = "plain" THEN 0 ELSE ParseToken(req.token) IN
  /\ pc = "auth"
  /\ IF route.wrap = "auth" /\ parsed = 0
       THEN Answer(401) /\ pc' = "recover" /\ UNCHANGED user
       ELSE user' = parsed /\ pc' = "handler" /\ UNCHANGED answers
  /\ UNCHANGED <<req, route, headers, status, panicking, line>>

\* AuthMiddleware refuses a request without a good token, OptionalAuthMiddleware
\* lets it through without a user; UserLogin has neither.
AuthMiddleware ==
  LET parsed == IF route.wrap = "plain" THEN 0 ELSE ParseToken(req.token) IN
  /\ pc = "auth"
  /\ IF route.wrap = "auth" /\ parsed = 0
       THEN Answer(401) /\ pc' = "accessLog" /\ UNCHANGED user
       ELSE user' = parsed /\ pc' = "handler" /\ UNCHANGED answers
  /\ UNCHANGED <<req, route, headers, status, panicking, line>>

\* A handler answers once, a result or an error, or panics before it does.  Those
\* behind the strict middleware begin with a test of the user of their own.
Handler ==
  /\ pc = "handler"
  /\ IF route.wrap = "auth" /\ user = 0
       THEN Answer(401) /\ pc' = "accessLog" /\ UNCHANGED panicking
       ELSE \/ /\ \E code \in HandlerCodes : Answer(code)
               /\ pc' = "accessLog" /\ UNCHANGED panicking
            \/ panicking' = TRUE /\ pc' = "recover" /\ UNCHANGED answers
  /\ UNCHANGED <<req, route, user, headers, status, line>>

\* The level goes by the HTTP status and the time the request took.  There is no
\* defer: a panic passes by.
AccessLogMiddleware ==
  /\ pc = "accessLog"
  /\ \E slow \in BOOLEAN :
       line' = IF status >= 500 THEN "Error"
               ELSE IF status >= 400 \/ slow THEN "Warn" ELSE "Info"
  /\ pc' = "recover"
  /\ UNCHANGED <<req, route, user, headers, status, answers, panicking>>

RecoveryMiddleware ==
  /\ pc = "recover"
  /\ IF panicking THEN Answer(500) ELSE UNCHANGED answers
  /\ panicking' = FALSE
  /\ pc' = "done"
  /\ UNCHANGED <<req, route, user, headers, status, line>>

\* The response is sent.
Done ==
  /\ pc = "done"
  /\ pc' = "idle" /\ req' = None /\ route' = None
  /\ user' = 0 /\ headers' = FALSE /\ status' = 200 /\ answers' = << >>
  /\ panicking' = FALSE /\ line' = None

Next ==
  \/ Receive \/ ServeHTTP \/ Health \/ Static
  \/ CORSMiddleware \/ AuthMiddleware \/ Handler
  \/ AccessLogMiddleware \/ RecoveryMiddleware \/ Done

Spec == Init /\ [][Next]_vars

-----------------------------------------------------------------------------
(* What a client can rely on.                                               *)

\* The codes a request may be answered with by the one it is routed to.
CodesOf(to, r) ==
  CASE to.wrap = "bare" -> IF to.handler = "health" THEN {0} ELSE FileCodes
    [] to.wrap = "auth" /\ ParseToken(r.token) = 0 -> {401}
    [] OTHER -> HandlerCodes

Outcomes(r) ==
  LET takes(i) == Accepts(Routes[i], r.method, r.path) IN
  IF \A i \in DOMAIN Routes : ~takes(i)
    THEN {404}
    ELSE UNION {CodesOf(Routes[i], r) :
                  i \in {j \in DOMAIN Routes : takes(j) /\ \A k \in 1..(j - 1) : ~takes(k)}}

Client == INSTANCE Exchange

\* Nine layers do to the client what one step would: each request is answered once,
\* and refused, not found or answered by a handler exactly if the first route that
\* takes it and its own token say so.
ImplementsExchange == Client!Spec

\* So, in particular: every way through the layers, refusals and panics included,
\* writes one answer, for two JSON bodies in one response, or none, are no JSON.
AnsweredOnce ==
  /\ Len(answers) <= 1
  /\ pc = "done" => Len(answers) = 1

-----------------------------------------------------------------------------
(* Properties.                                                              *)

Wrapped == route # None /\ route.wrap # "bare"

\* A handler behind the strict middleware runs for a user only, and no handler
\* sees a user other than the one the token of this request was signed for.
HandlersSeeTheTokensUser ==
  pc = "handler" =>
    /\ route.wrap = "auth" => user \in Users
    /\ user # 0 => user = req.token

\* No route is shadowed by one with a parameter: a path that some route spells
\* out goes to that route, though ":id" would take it as well.
SpelledOutWins ==
  (route # None) =>
    \A i \in DOMAIN Routes :
      (Routes[i].path = req.path /\ Routes[i].method = req.method) => route = Routes[i]

\* Every answer of an API handler can be read by a page from another origin, the
\* refusals of the middleware and the answer after a panic included.
AnswersCarryCORS == (Wrapped /\ answers # << >>) => headers

\* A request to an API handler that comes back to the outermost layer has left a
\* line in the access log, whoever refused it and whatever it was answered, its
\* handler's own 500 included; only one whose handler is panicking has left none.
OnlyPanicsAreUnlogged == (pc = "recover" /\ line = None) => panicking

=============================================================================
