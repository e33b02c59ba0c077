---------------------------- MODULE Achievements ----------------------------
(***************************************************************************)
(* Achievements, experience and levels (checkAchievements in               *)
(* handler/place.go, definitions and seed rows in sql/schema.sql).         *)
(*                                                                         *)
(* PublishPhotos starts checkAchievements on a goroutine of its own after  *)
(* its last statement.  The check counts what the user has done with five  *)
(* queries, selects the achievements the user does not have, and for each  *)
(* one reached inserts a row, adds the reward to users.exp, reads exp back *)
(* and raises users.level.  Nothing orders the checks of one user, and     *)
(* every statement is committed by itself: one action is one statement     *)
(* with the local computation after it.                                    *)
(*                                                                         *)
(* What the other handlers do (visits, likes, comments) moves the numbers  *)
(* the queries would return; Places and Engagement model those handlers.   *)
(***************************************************************************)
EXTENDS Integers, FiniteSets, Sequences, FiniteSetsExt

CONSTANTS
  Users,      \* ids of users
  Workers,    \* goroutines running checkAchievements
  Defs,       \* rows of achievement_defs with status 1
  Kind,       \* achievement_defs.condition_type
  Need,       \* achievement_defs.condition_value
  Reward,     \* achievement_defs.exp_reward
  None,       \* no user, no row at hand
  MaxPhotos,  \* bound: photos of a user
  MaxActs,    \* bound: other deeds of all users
  MaxFaults   \* bound: failed statements and crashes in a behaviour

\* The condition types the code counts, in the order of its queries.  The seed
\* also uses 'daily_check' and 'distance', for which current stays 0.
Counted == <<"photo_count", "place_count", "like_received", "comment_count", "city_count">>
Kinds   == {Counted[i] : i \in 1..5}

ASSUME AchievementsAssumption ==
  /\ IsFiniteSet(Workers) /\ IsFiniteSet(Defs)
  /\ None \notin Defs /\ None \notin Users
  /\ Kind \in [Defs -> Kinds \cup {"daily_check", "distance"}]
  /\ Need \in [Defs -> Nat \ {0}]
  /\ Reward \in [Defs -> Nat]
  /\ MaxPhotos \in Nat /\ MaxActs \in Nat /\ MaxFaults \in Nat

VARIABLES
  done,       \* what each query would return now, for each user and kind
  unlocked,   \* keys (user_id, achievement_id) of the rows of user_achievements
  exp,        \* users.exp
  level,      \* users.level
  publishing, \* PublishPhotos requests of each user that inserted their photo
              \* and have not reached the go statement
  pc,         \* the statement each goroutine executes next
  user,       \* the user it checks
  seen,       \* the numbers its queries returned so far; 0 for a failed one
  todo,       \* the achievements it found missing and reached, still to be given
  row,        \* the achievement it is giving
  total,      \* totalExp
  acts,       \* deeds other than publishing so far
  faults      \* failed statements and crashes so far

vars == <<done, unlocked, exp, level, publishing, pc, user, seen, todo, row,
          total, acts, faults>>

-----------------------------------------------------------------------------
\* The level that goes with an amount of experience.
LevelOf(x) ==
  IF x >= 200 THEN 6 ELSE IF x >= 150 THEN 5 ELSE IF x >= 100 THEN 4
  ELSE IF x >= 50 THEN 3 ELSE IF x >= 20 THEN 2 ELSE 1

Asked == {Kind[d] : d \in Defs} \cap Kinds

Has(u, d) == <<u, d>> \in unlocked

\* Mistake: one short of the condition is enough.
ReachedAlmost(w, d) == \E i \in 1..Len(seen[w]) : Counted[i] = Kind[d] /\ seen[w][i] + 1 >= Need[d]

\* Mistake: current > condition_value.
ReachedStrict(w, d) == \E i \in 1..Len(seen[w]) : Counted[i] = Kind[d] /\ seen[w][i] > Need[d]

\* current >= condition_value, on the numbers the check has seen.
Reached(w, d) == \E i \in 1..Len(seen[w]) : Counted[i] = Kind[d] /\ seen[w][i] >= Need[d]

Fault == faults < MaxFaults /\ faults' = faults + 1
Attempt(effect, table) == (effect /\ UNCHANGED faults) \/ (Fault /\ UNCHANGED table)

Goto(w, l) == pc' = [pc EXCEPT ![w] = l]

\* The loop takes the next row of `rest`, or the goroutine ends.
NextRow(w, rest) ==
  /\ Goto(w, IF rest = {} THEN "idle" ELSE "insert")
  /\ todo' = [todo EXCEPT ![w] = rest]
  /\ user' = [user EXCEPT ![w] = IF rest = {} THEN None ELSE @]
  /\ seen' = [seen EXCEPT ![w] = << >>]
  /\ row' = [row EXCEPT ![w] = None]
  /\ total' = [total EXCEPT ![w] = 0]

Init ==
  /\ done = [u \in Users |-> [k \in Kinds |-> 0]]
  /\ unlocked = {}
  /\ exp = [u \in Users |-> 0]
  /\ level = [u \in Users |-> 1]
  /\ publishing = [u \in Users |-> 0]
  /\ pc = [w \in Workers |-> "idle"]
  /\ user = [w \in Workers |-> None]
  /\ seen = [w \in Workers |-> << >>]
  /\ todo = [w \in Workers |-> {}]
  /\ row = [w \in Workers |-> None]
  /\ total = [w \in Workers |-> 0]
  /\ acts = 0
  /\ faults = 0

-----------------------------------------------------------------------------
(* What moves the numbers.                                                  *)

\* PublishPhotos inserts a photo; it has statements left before the check starts.
PublishPhoto(u) ==
  /\ done[u]["photo_count"] < MaxPhotos
  /\ done' = [done EXCEPT ![u]["photo_count"] = @ + 1]
  /\ publishing' = [publishing EXCEPT ![u] = @ + 1]
  /\ UNCHANGED <<unlocked, exp, level, pc, user, seen, todo, row, total, acts, faults>>

\* One more of each number in S.  Numbers no definition asks for stay 0.
More(u, S) ==
  /\ S \cap Asked # {}
  /\ done' = [done EXCEPT ![u] = [k \in Kinds |-> @[k] + IF k \in S \cap Asked THEN 1 ELSE 0]]

\* GetPlaceDetail or PublishPhotos adds a footprint at a place that is new to u,
\* in a city u has been to or in another one.
Visited(u) == \E S \in {{"place_count"}, {"place_count", "city_count"}} : More(u, S)

\* LikePhoto adds one to a photo of u, with a new row of likes or without.
Liked(u) == done[u]["photo_count"] > 0 /\ More(u, {"like_received"})

\* LikePhoto takes one from a photo of u that has any.
Unliked(u) ==
  /\ done[u]["like_received"] > 0
  /\ done' = [done EXCEPT ![u]["like_received"] = @ - 1]

\* PostComment adds a comment of u.
Commented(u) == More(u, {"comment_count"})

\* The other handlers that move the numbers of u; none of them starts a check.
Elsewhere(u) ==
  /\ acts < MaxActs /\ acts' = acts + 1
  /\ Visited(u) \/ Liked(u) \/ Unliked(u) \/ Commented(u)
  /\ UNCHANGED <<unlocked, exp, level, publishing, pc, user, seen, todo, row,
          total, faults>>

-----------------------------------------------------------------------------
(* checkAchievements.                                                       *)

Start(w) ==
  /\ pc[w] = "idle"
  /\ \E u \in Users :
       /\ publishing[u] > 0
       /\ publishing' = [publishing EXCEPT ![u] = @ - 1]
       /\ user' = [user EXCEPT ![w] = u]
  /\ Goto(w, "count")
  /\ UNCHANGED <<done, unlocked, exp, level, seen, todo, row, total, acts, faults>>

\* Mistake: the loop over the queries leaves out the last one.
CountFour(w) ==
  LET k == Counted[Len(seen[w]) + 1] IN
  /\ pc[w] = "count"
  /\ \/ seen' = [seen EXCEPT ![w] = Append(@, done[user[w]][k])] /\ UNCHANGED faults
     \/ seen' = [seen EXCEPT ![w] = Append(@, 0)] /\ Fault
  /\ IF Len(seen[w]) = 3 THEN Goto(w, "select") ELSE UNCHANGED pc
  /\ UNCHANGED <<done, unlocked, exp, level, publishing, user, todo, row, total, acts>>

\* One of the five queries; on a failure its variable keeps 0.
Count(w) ==
  LET k == Counted[Len(seen[w]) + 1] IN
  /\ pc[w] = "count"
  /\ \/ seen' = [seen EXCEPT ![w] = Append(@, done[user[w]][k])] /\ UNCHANGED faults
     \/ seen' = [seen EXCEPT ![w] = Append(@, 0)] /\ Fault
  /\ IF Len(seen[w]) = 4 THEN Goto(w, "select") ELSE UNCHANGED pc
  /\ UNCHANGED <<done, unlocked, exp, level, publishing, user, todo, row, total, acts>>

\* Mistake: the achievements the user has already are selected too.
SelectAll(w) ==
  /\ pc[w] = "select"
  /\ \/ NextRow(w, {d \in Defs : Reached(w, d)}) /\ UNCHANGED faults
     \/ NextRow(w, {}) /\ Fault
  /\ UNCHANGED <<done, unlocked, exp, level, publishing, acts>>

\* SELECT the definitions not among the user's achievements, and keep those the
\* loop will not skip; none on a failure.
Select(w) ==
  /\ pc[w] = "select"
  /\ \/ /\ NextRow(w, {d \in Defs : ~Has(user[w], d) /\ Reached(w, d)})
        /\ UNCHANGED faults
     \/ NextRow(w, {}) /\ Fault
  /\ UNCHANGED <<done, unlocked, exp, level, publishing, acts>>

\* INSERT IGNORE; the SELECT has no ORDER BY, so the rows come in any order.
Insert(w) ==
  /\ pc[w] = "insert"
  /\ \E d \in todo[w] :
       /\ row' = [row EXCEPT ![w] = d]
       /\ todo' = [todo EXCEPT ![w] = @ \ {d}]
       /\ Attempt(unlocked' = unlocked \cup {<<user[w], d>>}, unlocked)
  /\ Goto(w, "addExp")
  /\ UNCHANGED <<done, exp, level, publishing, user, seen, total, acts>>

\* Mistake: exp = reward.
AddExpAbsolute(w) ==
  /\ pc[w] = "addExp"
  /\ Attempt(exp' = [exp EXCEPT ![user[w]] = Reward[row[w]]], exp)
  /\ Goto(w, "readExp")
  /\ UNCHANGED <<done, unlocked, level, publishing, user, seen, todo, row, total, acts>>

\* exp = exp + reward, whether or not the INSERT made a row.
AddExp(w) ==
  /\ pc[w] = "addExp"
  /\ Attempt(exp' = [exp EXCEPT ![user[w]] = @ + Reward[row[w]]], exp)
  /\ Goto(w, "readExp")
  /\ UNCHANGED <<done, unlocked, level, publishing, user, seen, todo, row, total, acts>>

\* Mistake: totalExp is the experience from before the reward.
ReadExpBefore(w) ==
  /\ pc[w] = "readExp"
  /\ total' = [total EXCEPT ![w] = exp[user[w]] - Reward[row[w]]]
  /\ Goto(w, "raise")
  /\ UNCHANGED <<done, unlocked, exp, level, publishing, user, seen, todo, row, acts, faults>>

\* On a failure totalExp is 0, and the level computed from it 1.
ReadExp(w) ==
  /\ pc[w] = "readExp"
  /\ \/ total' = [total EXCEPT ![w] = exp[user[w]]] /\ UNCHANGED faults
     \/ total' = [total EXCEPT ![w] = 0] /\ Fault
  /\ Goto(w, "raise")
  /\ UNCHANGED <<done, unlocked, exp, level, publishing, user, seen, todo, row, acts>>

\* Mistake: UPDATE without AND level < ?.
RaiseAlways(w) ==
  /\ pc[w] = "raise"
  /\ Attempt(level' = [level EXCEPT ![user[w]] = LevelOf(total[w])], level)
  /\ NextRow(w, todo[w])
  /\ UNCHANGED <<done, unlocked, exp, publishing, acts>>

\* UPDATE users SET level = ? WHERE id = ? AND level < ?, then the next row.
Raise(w) ==
  LET new == LevelOf(total[w]) IN
  /\ pc[w] = "raise"
  /\ Attempt(level' = [level EXCEPT ![user[w]] = IF @ < new THEN new ELSE @], level)
  /\ NextRow(w, todo[w])
  /\ UNCHANGED <<done, unlocked, exp, publishing, acts>>

\* The process dies with its goroutines: what they had not written is not
\* written by anybody else.
Crash ==
  /\ Fault
  /\ publishing' = [u \in Users |-> 0]
  /\ pc' = [w \in Workers |-> "idle"]
  /\ user' = [w \in Workers |-> None]
  /\ seen' = [w \in Workers |-> << >>]
  /\ todo' = [w \in Workers |-> {}]
  /\ row' = [w \in Workers |-> None]
  /\ total' = [w \in Workers |-> 0]
  /\ UNCHANGED <<done, unlocked, exp, level, acts>>

-----------------------------------------------------------------------------
Continue(w) ==
  \/ Start(w) \/ Count(w) \/ Select(w)
  \/ Insert(w) \/ AddExp(w) \/ ReadExp(w) \/ Raise(w)

Next ==
  \/ \E u \in Users : PublishPhoto(u) \/ Elsewhere(u)
  \/ \E w \in Workers : Continue(w)
  \/ Crash

Spec == Init /\ [][Next]_vars

\* The scheduler runs a goroutine that was started, to its end.
FairSpec == Spec /\ \A w \in Workers : WF_vars(Continue(w))

-----------------------------------------------------------------------------
(* Properties.                                                              *)

\* Rows and local variables have the shape the code gives them; a check that is
\* past its SELECT has a user, and one that gives an achievement has a row.
TypeOK ==
  /\ done \in [Users -> [Kinds -> Nat]]
  /\ unlocked \in SUBSET (Users \X Defs)
  /\ exp \in [Users -> Nat]
  /\ level \in [Users -> 1..6]
  /\ publishing \in [Users -> Nat]
  /\ pc \in [Workers -> {"idle", "count", "select", "insert", "addExp", "readExp", "raise"}]
  /\ user \in [Workers -> Users \cup {None}]
  /\ seen \in [Workers -> Seq(Nat)]
  /\ todo \in [Workers -> SUBSET Defs]
  /\ row \in [Workers -> Defs \cup {None}]
  /\ total \in [Workers -> Nat]
  /\ acts \in 0..MaxActs
  /\ faults \in 0..MaxFaults
  /\ \A w \in Workers :
       /\ pc[w] # "idle" => user[w] \in Users
       /\ pc[w] \notin {"count", "select"} => seen[w] = << >>
       /\ pc[w] = "count" => Len(seen[w]) <= 4
       /\ pc[w] = "select" => Len(seen[w]) = 5
       /\ pc[w] = "insert" => todo[w] # {}
       /\ pc[w] \in {"addExp", "readExp", "raise"} => row[w] \in Defs

\* A check that has added experience to u and not raised the level yet.
OwesLevel(w, u) == pc[w] \in {"readExp", "raise"} /\ user[w] = u

\* The level of a user is never above what the experience is worth, and it is
\* exactly that unless a check still has to raise it, or something failed:
\* overlapping checks that read each other's experience still end on the right
\* level, in whatever order their updates arrive.
LevelAccounted ==
  \A u \in Users :
    /\ level[u] <= LevelOf(exp[u])
    /\ (faults = 0 /\ ~\E w \in Workers : OwesLevel(w, u)) => level[u] = LevelOf(exp[u])

\* A level never goes down: a check that read an old experience and is overtaken
\* by another does not undo what that one wrote.
LevelNeverDrops == [][\A u \in Users : level'[u] >= level[u]]_vars

Rewards(S) == MapThenSumSet(LAMBDA d : Reward[d], S)
Granted(u) == {d \in Defs : Has(u, d)}
OwesReward(w, u, d) == pc[w] = "addExp" /\ user[w] = u /\ row[w] = d

\* As long as nothing fails, the reward of every achievement a user has is in
\* the user's experience, or a check is about to add it.  A crash between the
\* two loses it for good: the next check does not select the achievement again.
RewardsCredited ==
  faults = 0 =>
    \A u \in Users :
      exp[u] >= Rewards({d \in Granted(u) : ~\E w \in Workers : OwesReward(w, u, d)})

\* Overlapping checks can credit one reward several times, for the INSERT that
\* is ignored does not stop the UPDATE after it, but at most once per goroutine:
\* no check that starts after the row is there selects the achievement again.
RewardsBoundedByConcurrency ==
  faults = 0 =>
    \A u \in Users : exp[u] <= Cardinality(Workers) * Rewards(Granted(u))

\* Whatever fails, nobody has an achievement without having done what it asks.
\* Likes can be taken back after they were counted, so they are no evidence.
UnlockedWereReached ==
  \A u \in Users, d \in Defs :
    Has(u, d) =>
      /\ Kind[d] \in Kinds
      /\ Kind[d] # "like_received" => done[u][Kind[d]] >= Need[d]

\* Without failures, whoever has published enough photos gets the achievement:
\* the check of the last publisher starts after its photo is there.
PhotosEarn ==
  \A u \in Users, d \in Defs :
    Kind[d] = "photo_count" /\ done[u]["photo_count"] >= Need[d]
      ~> Has(u, d) \/ faults > 0

\* "Receive 100 likes" (schema.sql, seed of achievement_defs): without failures,
\* whoever keeps enough likes gets the achievement.
LikesEarn ==
  \A u \in Users, d \in Defs :
    Kind[d] = "like_received" /\ done[u]["like_received"] >= Need[d]
      ~> Has(u, d) \/ done[u]["like_received"] < Need[d] \/ faults > 0

-----------------------------------------------------------------------------
(* The overlapping checks against the abstract specification.               *)

\* A level that some check owes counts as raised already, until a failure.
SettledLevel(u) ==
  IF faults = 0 /\ \E w \in Workers : OwesLevel(w, u) THEN LevelOf(exp[u]) ELSE level[u]

Abs == INSTANCE Leveling WITH level <- [u \in Users |-> SettledLevel(u)], intact <- (faults = 0)

\* Checks of one user that overlap statement by statement do to the rows what
\* unlocking and rewarding in one step each would do, and rewards are only for
\* achievements the user has; a failure can only make a level lag.
ImplementsLeveling == Abs!Spec

=============================================================================
