------------------------------ MODULE Leveling ------------------------------
(***************************************************************************)
(* What checkAchievements (handler/place.go) promises the users, without   *)
(* its goroutines and statements: achievements are unlocked, each reward   *)
(* comes together with the level it is worth, and only for an achievement  *)
(* the user has.  Once something has failed the level may lag behind.      *)
(***************************************************************************)
EXTENDS Integers

CONSTANTS
  Users,      \* ids of users
  Defs,       \* achievements
  Reward,     \* the experience each one brings
  LevelOf(_)  \* the level an amount of experience is worth

VARIABLES
  unlocked,   \* the pairs <<user, achievement>>
  exp,        \* experience of each user
  level,      \* level of each user
  intact      \* no statement has failed and no process died so far

vars == <<unlocked, exp, level, intact>>

Init ==
  /\ unlocked = {}
  /\ exp = [u \in Users |-> 0]
  /\ level = [u \in Users |-> LevelOf(0)]
  /\ intact = TRUE

Unlock(u, d) ==
  /\ unlocked' = unlocked \cup {<<u, d>>}
  /\ UNCHANGED <<exp, level, intact>>

\* The reward and its level are one step.
Award(u, d) ==
  /\ intact /\ <<u, d>> \in unlocked
  /\ exp' = [exp EXCEPT ![u] = @ + Reward[d]]
  /\ level' = [level EXCEPT ![u] = LevelOf(exp'[u])]
  /\ UNCHANGED <<unlocked, intact>>

\* Something fails: a level that was about to be written may not be.
Fail ==
  /\ intact' = FALSE
  /\ level' \in [Users -> 1..6]
  /\ \A u \in Users : level'[u] <= level[u]
  /\ UNCHANGED <<unlocked, exp>>

\* After a failure rewards still count, and levels rise as far as they allow.
GoOn ==
  /\ ~intact
  /\ exp' \in [Users -> Nat] /\ level' \in [Users -> 1..6]
  /\ \A u \in Users : exp[u] <= exp'[u] /\ level[u] <= level'[u] /\ level'[u] <= LevelOf(exp'[u])
  /\ UNCHANGED <<unlocked, intact>>

Next ==
  \/ \E u \in Users, d \in Defs : Unlock(u, d) \/ Award(u, d)
  \/ Fail \/ GoOn

Spec == Init /\ [][Next]_vars

=============================================================================
