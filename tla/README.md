# timespace-server in TLA+

`timespace-server` is the backend of a WeChat mini-program: users leave photos
at *memory places* on a map, look at each other's photos, like and comment them,
and collect achievements. It is one Go process on trpc-go, over a MySQL database
and a Redis cache. No handler opens a transaction or takes a lock: every handler
is a series of autocommitted SQL statements, most of whose errors are ignored,
and everything that can go wrong happens between two statements. That is what
the modules here are about.

## The system

| Component | Source | State | Operations | Hard behaviour |
|---|---|---|---|---|
| Places and publishing | `handler/place.go`, `sql/schema.sql` | `places`, `photos`, `footprints` | `GetPlaceDetail`, `CreatePlace`, `PublishPhotos` | look-up then insert; derived counts recomputed by separate statements; cover read, tested and written; partial failure of a batch; crash between statements |
| Engagement | `handler/place.go` | `likes`, `comments`, `favorites`, counts on `photos` and `places` | `LikePhoto`, `PostComment`, `FavoritePhoto`, `GetPhotoDetail` | counts by increment beside a row under a unique key; retries and double taps; a sum on the place |
| Achievements | `handler/place.go`, seed in `sql/schema.sql` | `user_achievements`, `users.exp`, `users.level` | `checkAchievements` on a goroutine after each publication | checks of one user overlap; a crash between row and reward |
| Login and user cache | `handler/user.go`, `db/redis.go` | `users` row, `user:<id>` in Redis | `UserLogin`, `GetUserInfo`, `UpdateUserInfo` | fill, update and delete of the copy race; checkAchievements bypasses the copy |
| Router and middleware | `main.go`, `router/`, `middleware/` | none between requests | routing, CORS, access log, auth, recovery | order of routes and of layers; panics |
| Reads | `handler/*.go`, `model/` | none | lists by page, nearby; search, statistics, comments, brand memories | pages cut by OFFSET from lists that change; a LIMIT before a test |
| Upload, storage, static files | `handler/upload.go`, `storage/`, `main.go` | files on the disk, objects in the bucket | `UploadFile`, `Upload` of both back ends, `/static/*` | a copy that fails half-way; URLs that outlive the configuration they were made under |
| Launcher | `start.sh`, `main.go` | pid file, process table, port | start, stop, restart, status | overlapping scripts; a pid file behind the process table; a server slow to start or to stop |
| Configuration, connections | `config/`, `db/`, `trpc_go.yaml` | read at start | initialisation | a database that is down; a restart with other values |

How they interact: the launcher starts the process, which reads its
configuration and serves whether or not it has a database. The router hands a
request to one handler behind the middleware; handlers share the database and
nothing else, except that `PublishPhotos` starts `checkAchievements`, which
writes the user row that `UserLogin` and `GetUserInfo` copy to Redis. Photos are
uploaded first; the URL that `UploadFile` answers comes back in `PublishPhotos`
and is stored in a row as it is; published photos are listed, liked and
commented.

What makes each of them correct: shown counts agree with the rows they count,
or are known to err in one direction only; no photo hangs on a place that is
absent or out of reach; duplicates are bounded by concurrency; levels follow
experience and never drop; no achievement without its condition; a stale copy
of a user is explained by a race and does not last; a request is answered once,
by the right handler, for the right user; a URL that was handed out goes on
leading to its file; a reader who pages to the end has seen what was there
throughout; there is one server, the pid file names it, and a stop stops it.

## The modules

One action is one SQL statement, cache command, file operation or shell command
with the local computation up to the next one. A goroutine is a member of
`Procs` (`Workers` for achievement checks and uploads, `Scripts` for shells) with
a program counter `pc` and its local variables (`req`, `job`, `pid`). `Attempt` is
an `Exec` whose error the code ignores, `Finds`/`Misses` a `QueryRow` whose error
leaves a zero value behind; `Fault` spends one of `MaxFaults` failures; where a
failing statement ends the request, the model also lets it take effect and lose
only its answer (client timeout). `Crash` kills all goroutines and keeps the
tables.

* `Places.tla` - tables as functions over `PlaceIds` (`spot`, `cover`,
  `photoCount`, `visitorCount`) and sets (`photos`, `footprints`). `Detail*`,
  `Create*` and `Publish*` are the statements of the three handlers in order.
  An UPDATE of a place id without a row changes nothing (`UpdateRow`); a position
  read that fails or finds no row leaves 0 (`Reads`, `ReadPos`).
  `AutoMatches` and `NameMatches` are the two look-ups, whose `LIMIT 1` without
  `ORDER BY` returns any match.
* `Engagement.tla` - toggles, comments, favourites, views. `careless` counts the
  toggles that a client sends twice or for a photo it has not seen, so that
  properties can say what holds for careful clients and what for all.
* `Achievements.tla` - `checkAchievements` from its five queries to the level.
  `Visited`, `Liked`, `Unliked` and `Commented` are what the other handlers do to the
  numbers it queries, whenever they like; `Elsewhere` is any of them.
* `Leveling.tla` - the abstract specification of the former: achievements are
  unlocked, and a reward and the level it is worth are one step. `Achievements`
  implements it (`ImplementsLeveling`): the rows are the same, and while nothing
  has failed a level that some check still owes counts as raised already
  (`SettledLevel`).
* `UserSession.tla` - the row and its copy, as versions: every UPDATE makes the
  next version. `tokens` are the users a login has been answered for: nobody else
  can ask for or update a row. `overlapped` and `awarded` record the two races that
  leave a stale copy and `uncleared` the updates that never did their Del, for the
  property that there is no other way.
* `Pipeline.tla` - the route table, first-match routing, and the layers of the
  middleware on the way down and up. What the handlers answer with is a constant
  (`HandlerCodes`, with 500 for whatever they may fail at), what `http.FileServer`
  answers with is `FileCodes`.
* `Exchange.tla` - the abstract specification of the former: a request is asked,
  answered once with a code that stands to it, and forgotten. `Pipeline`
  implements it (`ImplementsExchange`) with `Outcomes`, which says without any layer
  what the first route that takes a request and its token allow.
* `Storage.tla` - `UploadFile` over `LocalStorage` and `COSStorage`, the completion
  of its URL in `util/response.go`, and `/static/*`, which must undo on the way in
  what `Upload` did on the way out. `handed` keeps the URLs clients were given;
  `Restart` replaces the configuration under them.
* `Browse.tla` - one list that grows and changes, and one reader of it.
  `Slices(S, n, k)` is every answer that `ORDER BY ... LIMIT n OFFSET k` may give:
  rows of equal rank come in any order, a new one for each query.
* `Launcher.tla` - the commands of `start.sh` in shells that may overlap, and the
  steps of a process: fork, exec, the end of `main`'s initialisation, exit.
* `*Proofs.tla` - the theorems about the module of that name; `RequestProofs.tla` is
  about `Pipeline` and `Browse`; `SumProofs.tla` has what `AchievementsProofs.tla`,
  `EngagementProofs.tla` and `RequestProofs.tla` need of sums over finite sets.
* `MC*.tla` - constants for TLC. Operators introduced by "Mistake:" are plausible
  bugs: putting one in the place of the definition below it must break a
  property (`PROJECT.json`, "mutants").

Abstractions. Refused requests and pure reads change nothing and are left out of
the modules whose subject is state. Rows are never disabled or deleted by this
code (but for likes and favourites), so `status` is 1. `visit_count`, the preview
flag and `session_key` are left out; `created_at` appears in `Browse` only, where it
is a whole second (the columns are DATETIME) and so may tie. Positions in
`Places` lie on one meridian in units of 0.0005 degrees (55.6 m): the boxes of the
two look-ups are 1 and 2 units, and 500 m is between 8 and 9. Any position but 0 may
be asked for, as in the code. In `Browse` the Earth is flat around a request, with
a degree of longitude shorter than one of latitude (`CosPercent`). A statement is
atomic, which InnoDB gives for one statement on autocommit. Counts are natural
numbers: the INT columns hold two thousand million. In `Storage`, `save_path` does
not change, the proxy in front passes on the name the client called, and an
error of the deferred `Close` counts as success, as it does in the code. In
`Launcher` all scripts and servers belong to one account, without which `kill -0` would
take a live server for a dead one (EPERM; `start.sh:45`, `146`, `159`); pids are not used
twice; two seconds are enough for a forked process to
execute the binary but not for it to get ready (a database that does not answer
takes three); a process on a port that is taken ends or, under SO_REUSEPORT,
serves beside the other.

## The runs

| Run | Bounds | Shows |
|---|---|---|
| `places` | 2 goroutines, 2 users, 2 places, 2 posts, 1 fault; positions 8 and 17, of which 8 is within 500 m of 0 and they are out of reach of each other | `TypeOK`; `PhotoCountAccounted`: never above the truth, and while nothing failed and no publisher owes a recount not below it (photos taken near 0, which may be older than their place, apart); `VisitorCountNotOverstated`; `PhotosNearTheirPlace` |
| `places_settle` | 2 goroutines, 1 user, 3 places, 3 posts, 1 fault; positions 8 and 10, which one look-up takes for one place and the other does not; creators give a cover | `TwinsBoundedByConcurrency` (a failure may add one), `CoverAccounted`, and `PublishesSettle` under fairness |
| `engagement` | 2 goroutines, 2 users, 2 photos of a place and an id without a row, 4 requests, 1 careless toggle, 1 fault | `LikeCountAccounted`, `PlaceLikesNotUnderstated`, `CommentCountAccounted`, no count below zero |
| `achievements` | 3 checks of a user on 2 goroutines, 5 definitions (one for likes, which come and go, one without a counter), 2 deeds elsewhere, 1 fault | levels follow experience and never drop, rewards are credited and at most once per goroutine, nothing is unlocked unearned; `ImplementsLeveling`; `PhotosEarn` under fairness |
| `user_session` | 3 goroutines, 1 user, 3 writes, 2 faults | copies are versions of the row; stale only after one of the known races or an update without its Del, with failures too; not for ever, under fairness |
| `pipeline` | all routes, 3 methods, 2 users, bad and absent tokens | routing and layers together implement one step that answers a request (`ImplementsExchange`): once, with a code its route and token allow; the right handler, the right user, CORS headers on every API answer, no request past the access log without its line, but one that panicked |
| `storage` | 2 goroutines, 3 files, 2 days, 2 restarts, 2 faults, 5 configurations of both back ends | `HandedURLsLead`; `FilesAccounted`: files nobody can ask for are at most the failures |
| `browse` | 4 rows, pages of 1 or 2 (3 is cut to the default), 4 seconds, 2 likes or removals, nearby limit 2 | `MissedOnlyIfReordered`, `RepeatsBoundedByInserts`, `NearbyMissesExplained` |
| `launcher` | 2 shells, 4 commands, 4 pids, 1 death, refused start or interrupted script | `OneProcess`, `PidFileTrue`, `StopStops`; `ScriptsEnd` and `ForkedServes` under fairness |

Why the bounds are enough. Two goroutines are enough for the races over one row,
because each of them is a conflict of two statement series; the third one of
`user_session` lets a read, a login and an update be on their way together. A
third post in `places_settle` meets the twins that two have made; a third check in
`achievements` comes after two that overlapped. One failure or crash separates
what holds always from what holds while nothing fails. Four rows fill pages of
two twice, so that a row can be pushed over both boundaries. Two restarts go
from one back end to the other and back. Four commands are two that overlap, one
that meets the mess they have left, and one more beside it. What does not depend
on such sizes is proved (below) for all of them.

Three runs end in a counterexample, each against a sentence of the repository:

* `place_likes`: after an unlike the place keeps showing the like
  (`place.go:553`; `schema.sql:38`, "total number of likes").
* `likes_earn`: an achievement for likes is not given before the next
  publication, which may never come (`place.go:471`; `schema.sql:177`).
* `update_clears`: a user with a token logs in again, the login reads the row, an
  update of the same user writes it and deletes the copy, and the login stores the
  old copy after that (`user.go:277` against its comment, `user.go:275`). A
  `GetUserInfo` that missed the cache does the same.

Met on the way, and not the subject of a run:

* within 500 m of (0, 0) a request with a place id that has no row, or whose read of
  the position failed, passes the distance test on the coordinates 0 of the Go
  variables and stores photos for a place that is not there or is elsewhere
  (`place.go:393` refuses only an exact 0, `place.go:426`; `PhotosNearTheirPlace`, which
  says that it happens nowhere else);
* a stop given by another account than the server's finds it with pgrep, cannot
  signal it, takes it for gone and reports success (`start.sh:141`, `146`; the model
  has one account);
* two publishers can each find no cover, and the second replaces the cover of the
  first (`place.go:452` says only a missing cover is set; `CoverAccounted` says what
  remains true);
* errors are logged at Info, because the JSON code of an answer never reaches the
  HTTP status that `access_log.go:54` looks at; the user id in that line is always
  0, since the auth middleware sets it in a context of its own;
* with an empty `url_prefix`, `LocalStorage` makes URLs that the static route, which
  applies a default of its own, never finds (`storage.go:20`);
* the box of `GetNearbyPlaces` takes a degree of longitude for one of latitude and
  misses places to the east and west (`place.go:128`; `NearbyMissesExplained`);
* a start beside a stop can leave the service down, or the stop end a process it
  did not mean; start reports success before initialisation is over
  (`ForkedServes` says in which cases);
* preflight requests never reach the OPTIONS branch of the CORS middleware, for
  routes are registered by method and none for OPTIONS (they answer 404);
* the `daily_check` and `distance` achievements of the seed have no counter; a
  photo shows its first 50 comments and there is no way to the others.

## Fairness

`FairSpec` of `Places` and `Achievements` asks for weak fairness of each
goroutine's own next statement (`Continue`), nothing else: the Go scheduler runs
a goroutine to its end and database calls return or time out. Clients are never
obliged to call. In `UserSession` it also asks that Redis expires what is past
its time. In `Launcher` it is each script's next command and a process's way from
fork to serving, and not that a process which was told to stop ever does: it
may take as long as its requests, and `ScriptsEnd` holds because stop goes on to
SIGKILL. Every `<>` property allows for failures explicitly, where failures can
break it. The other modules state no liveness.

## What is proved

For every value of the constants that satisfies the `ASSUME` of the module (finite
sets of goroutines, rewards not negative, `None` distinct from everything, and
for `Places` positions other than 0, which the handlers refuse). TLC agreed with each invariant first.
In all modules `TypeOK` is inductive because it ties the local variables of a
goroutine to its program counter, and a lemma (`StepsAreLocal`, `RowsOfStep`, `Same`)
says once that a step of one goroutine leaves the others alone.

`PlacesProofs.tla`

* `TypeCorrect`, `VisitorsNotOverstated`, `PhotoCountsAccounted`: an INSERT makes its
  goroutine owe a recount; the recount writes the exact number of the moment, or
  uses up a failure.
* `PhotosStayNear`: `NearInv` adds that a goroutine that passed the distance test has
  an existing place within reach of its position, or a position near the origin.
  `CheckedPlace` is why the test alone suffices (an id without a row reads as 0,
  and so does a read that failed), and `TablesGrow` why it stays true until the
  INSERT it guards.
* `PhotoCountsAccounted` and `CoversAccounted` count from below the photos that were
  tested against the row of their place (`TestedAt`): a place without a row has
  none of them (`NoneTestedWithoutRow`), so a new row starts right.
* `TwinsBounded`: a look-up that is answered with nothing proves that there was no
  twin, and one that fails uses up a failure, so twins and requests about to
  insert one together are at most the goroutines and the failures.
* `CoversAccounted`: `CoverInv` adds that a publisher past its first INSERT has its
  first image, the one it may make the cover, among the photos of the place.

`AchievementsProofs.tla`

* `TypeCorrect`; `LevelsOnlyRise`: only `Raise` writes a level.
* `LevelsFollowExperience`: `LevelInv` adds that what a check at `raise` has read is at
  most the experience of now, and that, nothing having failed, a level that lags
  has a check of its user which is yet to read the experience or has read all of
  it: a check that read too little was overtaken by an `AddExp` whose own check
  still has to read.
* `AchievementsAreEarned`: `EarnedInv` carries, between the queries of a check and its
  INSERT, that the numbers it saw are at most those of now (only likes go down).
* `ChecksImplementLeveling`: the initial state maps to an initial state and every
  statement to a step of `Leveling` or a stutter (`StepKinds`), from `LevelInv` and
  from `GrantInv`, by which a reward that is about to be added has its row.
* `NoRewardIsLost`, `RewardsBounded`: each reward is weighed by the checks that are
  no longer pending for it, so that the sum over the achievements of a user
  bounds the experience at every statement; a check that adds a reward stops
  being pending for it.

`EngagementProofs.tla`

* `TypeCorrect`: the floor at zero is part of it. `CommentCountsAccounted` as for
  photos, with increments.
* `LikeCountsAccounted`: of a careful client at most one toggle of a photo is on its
  way (`Alone`), and increments have rows of their own (an injection), so the floor
  never swallows a decrement that is due.
* `PlaceLikesCovered`: while nothing fails, the place shows the sum of its photos'
  like counts at least, or a recount is on its way; a recount reads the sum of
  the moment, and only likes raise it.

`UserSessionProofs.tla`: `TypeCorrect`; `CopiesAreOfTheRow`, strengthened by what
readers carry to the cache; `OnlyRacesMakeStale`, where `StaleInv` says the same of
the copies that goroutines hold: one that holds an old row has been overlapped.
Failures are part of it: an UPDATE that lost its answer, a failed Del and a crash
before the Del put the user among the `uncleared`.

`StorageProofs.tla`: `TypeCorrect`; `URLsLead`, whose `WholeInv` says that a file at
its answer is written in full and stored where its URL will point, whatever the
configuration has become; `LeaksBounded`, an inequality of cardinalities kept by
every step.

`RequestProofs.tla`, of `Pipeline`:

* `OneAnswer`, `UserIsTheTokens`, `AllAnswersCarryCORS`, `TheRestIsLogged`: `Way` says what
  is known at each layer. It needs one fact of the route table (`RoutesGood`: each
  route is wrapped and registered for GET or POST, or is one of the two bare ones).
* `LiteralsWin`: no route takes a request that a later one spells out
  (`UnshadowedRoutes`). The table is concrete, so this is shown route by route, but
  by kinds: routes differ in method, in length, or in a segment that neither
  leaves open (`Apart`), and the four groups differ in their prefix.
* `LayersImplementExchange`: receiving a request maps to `Ask`, the step that writes
  the answer to `Reply`, the end to `Forget`, all else to a stutter (`ClientStep`).
  `Admitted` adds to `Way` that what has passed the auth layer was allowed to, so
  that the handler's codes are among the outcomes (`CodesAllowed`).

and of `Browse`, for any rows, page sizes, publications and changes between pages:

* `NothingMissed`: the rows that precede a row are counted by its rank, and a page
  of `LIMIT n OFFSET k` leaves out only rows of rank at least `k + n`, or tied
  (`SliceByRank`). `NoneSkipped` is the invariant: a row there from the start and
  not seen yet ties, or ranks no lower than the next page begins. A
  publication pushes ranks up and a like or a removal is what `MissedOnlyIfReordered`
  allows for; nothing else lowers a rank (`RanksGrow`).
* `RepeatsBounded`: that no row comes twice says nothing of the next page, so
  `RepeatsCounted` keeps accounts: the rows shown, plus those due to be shown
  again because a publication pushed them over the boundary, are at most the
  rows seen and published since. Publishing moves one row over a boundary, as
  ranks are distinct (`RanksDiffer`, `RanksShift`).
* `MissesExplained`: what is within the radius lies in the box as far as latitude
  goes (`RadiusInBox`), and of what lies in the box a page leaves out only what `Limit`
  others precede.

`LauncherProofs.tla`: `TypeCorrect`; `NeverTwo`, `FileNamesServer` and `NothingLeft`
from one invariant, `LaunchInv`: while scripts do not overlap, one at most is under
way, one process at most is alive, and `Knows` says for each command of the script
what it may rely on: that nothing is alive where it forks, that what is alive is
the process it waits for, and what the pid file can hold. Processes may get on or
die at any moment, which only takes from the set of those alive.

`SumProofs.tla`: sums over a finite set are folds, hence recursion over data, and
the library's induction theorems cannot be instantiated by the provers. Its
lemmas go by least counterexample instead: existence and uniqueness of the
recursive function, then what adding an element does, then monotony and bounds.

Only model-checked: what needs fairness and `ENABLED`, which are out of the prover's
reach (`PublishesSettle`, `PhotosEarn`, `CopiesBecomeFresh`, `ScriptsEnd`,
`ForkedServes`), and the three counterexamples. Every safety invariant, the action
property and both refinements that the runs check are proved.

## Not modelled

`SearchPlaces`, `GetPhotoComments`, `GetUserFootprints`, `GetUserStats`,
`GetUserAchievements` and `GetBrandMemories` are one query each and formatting: they
read what the other modules keep true. Left out as well: the parsing of the
configuration, `PathParam`, the `net/http` variants of the middleware that nothing
calls, the text of distances and times, the WeChat call behind `UserLogin` (a call
that fails ends the request, an answer that is not valid is replaced by the
openid `"dev_" + code`, `user.go:94`: a user of the model is either), and the tail and help commands of `start.sh`,
which change nothing.

## Plan

1. Done: the inventory; the modules above; proofs of every safety invariant, of
   `LevelNeverDrops` and of both refinements.
2. Next: a composition in which a publication, its achievement check and the
   cached user of the same person run together, with the client that reads both.
3. Proofs: of that composition; and an abstract specification of `UserSession` (a
   cache that shows some version the row has had) with its refinement.
