------------------------- MODULE AchievementsProofs -------------------------
(* Theorems about Achievements, for any users, definitions and number of    *)
(* overlapping checks.                                                      *)
EXTENDS Achievements, SumProofs, TLAPS

Labels == {"idle", "count", "select", "insert", "addExp", "readExp", "raise"}

\* The parts of TypeOK: the rows, the bounds, the local variables.
RowsOK ==
  /\ done \in [Users -> [Kinds -> Nat]]
  /\ unlocked \in SUBSET (Users \X Defs)
  /\ exp \in [Users -> Nat]
  /\ level \in [Users -> 1..6]
  /\ publishing \in [Users -> Nat]

BoundsOK == acts \in 0..MaxActs /\ faults \in 0..MaxFaults

\* The local variables a goroutine has at the statement l.
Fits(l, u, s, t, d) ==
  /\ l # "idle" => u \in Users
  /\ l \notin {"count", "select"} => s = << >>
  /\ l = "count" => Len(s) <= 4
  /\ l = "select" => Len(s) = 5
  /\ l = "insert" => t # {}
  /\ l \in {"addExp", "readExp", "raise"} => d \in Defs

LocalsOK ==
  /\ pc \in [Workers -> Labels]
  /\ user \in [Workers -> Users \cup {None}]
  /\ seen \in [Workers -> Seq(Nat)]
  /\ todo \in [Workers -> SUBSET Defs]
  /\ row \in [Workers -> Defs \cup {None}]
  /\ total \in [Workers -> Nat]
  /\ \A w \in Workers : Fits(pc[w], user[w], seen[w], todo[w], row[w])

\* TypeOK is the conjunction of its parts,
LEMMA TypeParts == TypeOK <=> RowsOK /\ BoundsOK /\ LocalsOK
BY DEF TypeOK, RowsOK, BoundsOK, LocalsOK, Fits, Labels

\* ... in the next state too.
LEMMA TypePartsNext == TypeOK' <=> RowsOK' /\ BoundsOK' /\ LocalsOK'
BY DEF TypeOK, RowsOK, BoundsOK, LocalsOK, Fits, Labels

\* The thresholds give a level from 1 to 6, and more experience no lower one.
LEMMA LevelOfMonotone ==
  ASSUME NEW x \in Nat, NEW y \in Nat, x <= y
  PROVE  LevelOf(x) \in 1..6 /\ LevelOf(x) <= LevelOf(y)
BY DEF LevelOf

\* The initial state has the shape TypeOK asks for.
LEMMA InitTypeOK == Init => TypeOK
BY AchievementsAssumption DEF Init, TypeOK

\* A check that has room for one more number, and what adding it gives.
LEMMA OneMore ==
  ASSUME NEW s \in Seq(Nat), Len(s) <= 4, NEW n \in Nat
  PROVE  /\ Len(s) + 1 \in 1..5
         /\ Append(s, n) \in Seq(Nat)
         /\ Len(s) = 4 => Len(Append(s, n)) = 5
         /\ Len(s) # 4 => Len(Append(s, n)) <= 4
<1>1. Len(s) \in Nat
  OBVIOUS
<1>2. Append(s, n) \in Seq(Nat) /\ Len(Append(s, n)) = Len(s) + 1
  OBVIOUS
<1>3. \A m \in Nat : m <= 4 => m + 1 \in 1..5 /\ (m = 4 => m + 1 = 5) /\ (m # 4 => m + 1 <= 4)
  OBVIOUS
<1>4. QED
  BY <1>1, <1>2, <1>3

\* Taking the next row, or ending, leaves the local variables in shape.
LEMMA NextRowFits ==
  ASSUME LocalsOK, NEW w \in Workers, NEW rest \in SUBSET Defs,
         pc[w] # "idle", NextRow(w, rest)
  PROVE  LocalsOK'
BY DEF LocalsOK, NextRow, Goto, Fits, Labels

\* Every statement of a check, what users do, and a crash keep the shape.
LEMMA TypeOKStep == TypeOK /\ [Next]_vars => TypeOK'
<1> SUFFICES ASSUME RowsOK, BoundsOK, LocalsOK, [Next]_vars
             PROVE  RowsOK' /\ BoundsOK' /\ LocalsOK'
  BY TypeParts, TypePartsNext
<1>1. CASE UNCHANGED vars
  BY <1>1 DEF vars, RowsOK, BoundsOK, LocalsOK
<1>2. CASE Crash
  <2>1. RowsOK' /\ BoundsOK'
    BY <1>2, AchievementsAssumption DEF Crash, Fault, RowsOK, BoundsOK
  <2>2. LocalsOK'
    BY <1>2 DEF Crash, LocalsOK, Fits, Labels
  <2>3. QED
    BY <2>1, <2>2
<1>3. ASSUME NEW u \in Users, PublishPhoto(u)
      PROVE  RowsOK' /\ BoundsOK' /\ LocalsOK'
  <2>1. "photo_count" \in Kinds
    BY DEF Kinds, Counted
  <2>2. RowsOK'
    BY <1>3, <2>1 DEF PublishPhoto, RowsOK
  <2>3. BoundsOK' /\ LocalsOK'
    BY <1>3 DEF PublishPhoto, BoundsOK, LocalsOK
  <2>4. QED
    BY <2>2, <2>3
<1>4. ASSUME NEW u \in Users, Elsewhere(u)
      PROVE  RowsOK' /\ BoundsOK' /\ LocalsOK'
  <2>1. BoundsOK' /\ LocalsOK'
    BY <1>4, AchievementsAssumption DEF Elsewhere, BoundsOK, LocalsOK
  <2>2. "like_received" \in Kinds
    BY DEF Kinds, Counted
  <2>3. ASSUME NEW S, More(u, S)
        PROVE  done' \in [Users -> [Kinds -> Nat]]
    BY <2>3 DEF More, RowsOK
  <2>4. ASSUME Unliked(u)
        PROVE  done' \in [Users -> [Kinds -> Nat]]
    BY <2>2, <2>4 DEF Unliked, RowsOK
  <2>5. RowsOK'
    BY <1>4, <2>3, <2>4 DEF Elsewhere, Visited, Liked, Commented, RowsOK
  <2>6. QED
    BY <2>1, <2>5
<1>5. ASSUME NEW w \in Workers, Continue(w)
      PROVE  RowsOK' /\ BoundsOK' /\ LocalsOK'
  <2>1. CASE Start(w)
    BY <2>1 DEF Start, Goto, RowsOK, BoundsOK, LocalsOK, Fits, Labels
  <2>2. CASE Count(w)
    <3>1. RowsOK' /\ BoundsOK'
      BY <2>2, AchievementsAssumption DEF Count, Fault, RowsOK, BoundsOK
    <3>2. user[w] \in Users /\ seen[w] \in Seq(Nat) /\ Len(seen[w]) <= 4
      <4>1. seen[w] \in Seq(Nat) /\ Fits(pc[w], user[w], seen[w], todo[w], row[w])
        BY DEF LocalsOK
      <4>2. pc[w] = "count"
        BY <2>2 DEF Count
      <4>3. QED
        BY <4>1, <4>2 DEF Fits
    <3>3. PICK n \in Nat : seen' = [seen EXCEPT ![w] = Append(@, n)]
      <4>1. Len(seen[w]) + 1 \in 1..5
        BY <3>2, OneMore
      <4>2. Counted[Len(seen[w]) + 1] \in Kinds
        BY <4>1 DEF Kinds
      <4>3. done[user[w]][Counted[Len(seen[w]) + 1]] \in Nat
        BY <3>2, <4>2 DEF RowsOK
      <4>4. CASE seen' = [seen EXCEPT ![w] = Append(@, done[user[w]][Counted[Len(seen[w]) + 1]])]
        BY <4>3, <4>4
      <4>5. CASE seen' = [seen EXCEPT ![w] = Append(@, 0)]
        BY <4>5
      <4>6. QED
        BY <2>2, <4>4, <4>5 DEF Count
    <3>4. LocalsOK'
      <4> DEFINE s == Append(seen[w], n)
      <4>1. /\ s \in Seq(Nat)
            /\ Len(seen[w]) = 4 => Len(s) = 5
            /\ Len(seen[w]) # 4 => Len(s) <= 4
        BY <3>2, OneMore
      <4>2. seen' = [seen EXCEPT ![w] = s]
        BY <3>3
      <4> HIDE DEF s
      <4>3. CASE Len(seen[w]) = 4
        <5>1. pc' = [pc EXCEPT ![w] = "select"] /\ Len(s) = 5
          BY <2>2, <4>1, <4>3 DEF Count, Goto
        <5>2. QED
          BY <2>2, <3>2, <4>1, <4>2, <5>1 DEF Count, LocalsOK, Fits, Labels
      <4>4. CASE Len(seen[w]) # 4
        <5>1. pc' = pc /\ pc[w] = "count" /\ Len(s) <= 4
          BY <2>2, <4>1, <4>4 DEF Count
        <5>2. UNCHANGED <<user, todo, row, total>>
          BY <2>2 DEF Count
        <5>3. Fits(pc[w], user[w], s, todo[w], row[w])
          BY <3>2, <5>1 DEF Fits
        <5>4. QED
          BY <4>1, <4>2, <5>1, <5>2, <5>3 DEF LocalsOK
      <4>5. QED
        BY <4>3, <4>4
    <3>5. QED
      BY <3>1, <3>4
  <2>3. CASE Select(w)
    <3>1. RowsOK' /\ BoundsOK'
      BY <2>3, AchievementsAssumption DEF Select, Fault, RowsOK, BoundsOK
    <3>2. LocalsOK'
      BY <2>3, NextRowFits DEF Select
    <3>3. QED
      BY <3>1, <3>2
  <2>4. CASE Insert(w)
    <3>1. user[w] \in Users
      BY <2>4 DEF Insert, LocalsOK, Fits
    <3>2. RowsOK' /\ BoundsOK'
      BY <2>4, <3>1, AchievementsAssumption DEF Insert, Attempt, Fault, RowsOK, BoundsOK, LocalsOK
    <3>3. LocalsOK'
      BY <2>4, <3>1 DEF Insert, Goto, LocalsOK, Fits, Labels
    <3>4. QED
      BY <3>2, <3>3
  <2>5. CASE AddExp(w)
    <3>1. user[w] \in Users /\ Reward[row[w]] \in Nat
      BY <2>5, AchievementsAssumption DEF AddExp, LocalsOK, Fits
    <3>2. RowsOK' /\ BoundsOK'
      BY <2>5, <3>1, AchievementsAssumption DEF AddExp, Attempt, Fault, RowsOK, BoundsOK
    <3>3. LocalsOK'
      BY <2>5 DEF AddExp, Goto, LocalsOK, Fits, Labels
    <3>4. QED
      BY <3>2, <3>3
  <2>6. CASE ReadExp(w)
    <3>1. exp[user[w]] \in Nat
      BY <2>6 DEF ReadExp, LocalsOK, Fits, RowsOK
    <3>2. RowsOK' /\ BoundsOK'
      BY <2>6, AchievementsAssumption DEF ReadExp, Fault, RowsOK, BoundsOK
    <3>3. LocalsOK'
      <4>1. PICK n \in Nat : total' = [total EXCEPT ![w] = n]
        <5>1. CASE total' = [total EXCEPT ![w] = exp[user[w]]]
          BY <3>1, <5>1
        <5>2. CASE total' = [total EXCEPT ![w] = 0]
          BY <5>2
        <5>3. QED
          BY <2>6, <5>1, <5>2 DEF ReadExp
      <4>2. QED
        BY <2>6, <4>1 DEF ReadExp, Goto, LocalsOK, Fits, Labels
    <3>4. QED
      BY <3>2, <3>3
  <2>7. CASE Raise(w)
    <3>1. user[w] \in Users /\ LevelOf(total[w]) \in 1..6
      BY <2>7, LevelOfMonotone DEF Raise, LocalsOK, Fits
    <3>2. RowsOK' /\ BoundsOK'
      BY <2>7, <3>1, AchievementsAssumption DEF Raise, Attempt, Fault, RowsOK, BoundsOK
    <3>3. LocalsOK'
      BY <2>7, NextRowFits DEF Raise, LocalsOK
    <3>4. QED
      BY <3>2, <3>3
  <2>8. QED
    BY <1>5, <2>1, <2>2, <2>3, <2>4, <2>5, <2>6, <2>7 DEF Continue
<1>6. QED
  BY <1>1, <1>2, <1>3, <1>4, <1>5 DEF Next

\* Rows and local variables keep their shape in every reachable state.
THEOREM TypeCorrect == Spec => []TypeOK
BY InitTypeOK, TypeOKStep, PTL DEF Spec

-----------------------------------------------------------------------------
\* The goroutine x is where it was.
Same(x) ==
  /\ pc'[x] = pc[x] /\ user'[x] = user[x] /\ seen'[x] = seen[x]
  /\ todo'[x] = todo[x] /\ row'[x] = row[x] /\ total'[x] = total[x]

\* A statement of one check touches the variables of no other.
LEMMA OthersSame ==
  ASSUME TypeOK, NEW w \in Workers, Continue(w), NEW x \in Workers, x # w
  PROVE  Same(x)
<1>2. CASE Start(w)
  BY <1>2 DEF TypeOK, Start, Goto, Same
<1>3. CASE Count(w)
  BY <1>3 DEF TypeOK, Count, Goto, Same
<1>4. CASE Select(w)
  BY <1>4 DEF TypeOK, Select, NextRow, Goto, Same
<1>5. CASE Insert(w)
  BY <1>5 DEF TypeOK, Insert, Goto, Same
<1>6. CASE AddExp(w)
  BY <1>6 DEF TypeOK, AddExp, Goto, Same
<1>7. CASE ReadExp(w)
  BY <1>7 DEF TypeOK, ReadExp, Goto, Same
<1>8. CASE Raise(w)
  BY <1>8 DEF TypeOK, Raise, NextRow, Goto, Same
<1>9. QED
  BY <1>2, <1>3, <1>4, <1>5, <1>6, <1>7, <1>8 DEF Continue

-----------------------------------------------------------------------------
(* The level against the experience.                                        *)

\* A check that is about to raise the level has an experience the user has had;
\* and unless something failed, a user whose level lags has a check at work
\* that has yet to read the experience, or has read all of it.
Lagging(w, u) ==
  /\ user[w] = u
  /\ \/ pc[w] = "readExp"
     \/ pc[w] = "raise" /\ total[w] = exp[u]

LevelInv ==
  /\ \A u \in Users : level[u] <= LevelOf(exp[u])
  /\ \A w \in Workers : pc[w] = "raise" => total[w] <= exp[user[w]]
  /\ faults = 0 =>
       \A u \in Users : level[u] = LevelOf(exp[u]) \/ \E w \in Workers : Lagging(w, u)

\* No step lowers a level: only Raise writes it, and only upwards.
LEMMA LevelStep == TypeOK /\ [Next]_vars => \A u \in Users : level'[u] >= level[u]
<1> SUFFICES ASSUME TypeOK, [Next]_vars, NEW u \in Users
             PROVE  level'[u] >= level[u]
  OBVIOUS
<1>1. level \in [Users -> 1..6] /\ level[u] \in 1..6
  BY DEF TypeOK
<1>2. CASE level' = level
  BY <1>1, <1>2
<1>3. ASSUME NEW w \in Workers, Raise(w)
      PROVE  level'[u] >= level[u]
  <2>1. total[w] \in Nat
    BY DEF TypeOK
  <2>2. LevelOf(total[w]) \in 1..6
    BY <2>1, LevelOfMonotone
  <2>3. \/ level' = level
        \/ level' = [level EXCEPT ![user[w]] = IF @ < LevelOf(total[w]) THEN LevelOf(total[w]) ELSE @]
    BY <1>3 DEF Raise, Attempt
  <2>4. QED
    BY <1>1, <2>2, <2>3
<1>4. level' = level \/ \E w \in Workers : Raise(w)
  BY DEF Next, vars, PublishPhoto, Elsewhere, Crash, Continue, Start, Count, Select,
         Insert, AddExp, ReadExp
<1>5. QED
  BY <1>2, <1>3, <1>4

\* A level never goes down: a check that read an old experience and is overtaken
\* by another does not undo what that one wrote.
THEOREM LevelsOnlyRise == Spec => LevelNeverDrops
<1>1. TypeOK /\ [Next]_vars => [\A u \in Users : level'[u] >= level[u]]_vars
  BY LevelStep
<1>2. QED
  BY <1>1, TypeCorrect, PTL DEF Spec, LevelNeverDrops

\* Nobody has a level or experience at the start, and no check is at work.
LEMMA InitLevelInv == Init => LevelInv
BY DEF Init, LevelInv, LevelOf

\* A step that writes neither experience nor level, and moves no check to or
\* from the statements that settle the level, keeps the invariant.
LEMMA LevelInvAside ==
  ASSUME TypeOK, LevelInv, exp' = exp, level' = level, faults' = 0 => faults = 0,
         \A x \in Workers :
           pc[x] \in {"readExp", "raise"} \/ pc'[x] \in {"readExp", "raise"} => Same(x)
  PROVE  LevelInv'
<1>1. \A u \in Users : level'[u] <= LevelOf(exp'[u])
  BY DEF LevelInv
<1>2. \A x \in Workers : pc'[x] = "raise" => total'[x] <= exp'[user'[x]]
  BY DEF LevelInv, Same
<1>3. ASSUME NEW x \in Workers, NEW u \in Users, Lagging(x, u)
      PROVE  Lagging(x, u)'
  BY <1>3 DEF Lagging, Same
<1>4. QED
  BY <1>1, <1>2, <1>3 DEF LevelInv

\* AddExp leaves its user's level behind, and is itself the check that will see
\* to it; the others still have read no more than there is.
LEMMA LevelInvAddExp ==
  ASSUME TypeOK, LevelInv, NEW w \in Workers, AddExp(w)
  PROVE  LevelInv'
<1>1. /\ exp \in [Users -> Nat] /\ level \in [Users -> 1..6]
      /\ user[w] \in Users /\ Reward[row[w]] \in Nat /\ faults \in Nat
  BY AchievementsAssumption DEF TypeOK, AddExp
<1>2. \A u \in Users : exp'[u] \in Nat /\ exp[u] <= exp'[u] /\ (u # user[w] => exp'[u] = exp[u])
  BY <1>1 DEF AddExp, Attempt
<1>3. pc'[w] = "readExp" /\ user' = user /\ level' = level /\ total' = total
  BY DEF TypeOK, AddExp, Goto
<1>4. \A x \in Workers : x # w => Same(x)
  BY OthersSame DEF Continue
<1>5. ASSUME NEW u \in Users
      PROVE  level'[u] <= LevelOf(exp'[u])
  <2>1. LevelOf(exp[u]) \in 1..6 /\ LevelOf(exp'[u]) \in 1..6 /\ LevelOf(exp[u]) <= LevelOf(exp'[u])
    BY <1>1, <1>2, LevelOfMonotone
  <2>2. level[u] <= LevelOf(exp[u]) /\ level[u] \in 1..6
    BY <1>1 DEF LevelInv
  <2>3. QED
    BY <1>3, <2>1, <2>2
<1>6. ASSUME NEW x \in Workers, pc'[x] = "raise"
      PROVE  total'[x] <= exp'[user'[x]]
  <2>1. x # w /\ pc[x] = "raise"
    BY <1>3, <1>4, <1>6 DEF Same
  <2>2. user[x] \in Users /\ total[x] \in Nat /\ total[x] <= exp[user[x]]
    BY <2>1 DEF TypeOK, LevelInv
  <2>3. QED
    BY <1>1, <1>2, <1>3, <2>2
<1>7. ASSUME faults' = 0, NEW u \in Users
      PROVE  level'[u] = LevelOf(exp'[u]) \/ \E x \in Workers : Lagging(x, u)'
  <2>1. faults = 0
    BY <1>1, <1>7 DEF AddExp, Attempt, Fault
  <2>2. CASE u = user[w]
    BY <1>3, <2>2 DEF Lagging
  <2>3. CASE u # user[w]
    <3>1. exp'[u] = exp[u] /\ level'[u] = level[u]
      BY <1>2, <1>3, <2>3
    <3>2. ASSUME NEW x \in Workers, Lagging(x, u)
          PROVE  Lagging(x, u)'
      <4>1. x # w
        BY <2>3, <3>2 DEF Lagging
      <4>2. QED
        BY <1>4, <3>1, <3>2, <4>1 DEF Lagging, Same
    <3>3. QED
      BY <2>1, <3>1, <3>2 DEF LevelInv
  <2>4. QED
    BY <2>2, <2>3
<1>8. QED
  BY <1>5, <1>6, <1>7 DEF LevelInv

\* ReadExp, unless it fails, has all the experience of its user in hand.
LEMMA LevelInvReadExp ==
  ASSUME TypeOK, LevelInv, NEW w \in Workers, ReadExp(w)
  PROVE  LevelInv'
<1>1. exp \in [Users -> Nat] /\ user[w] \in Users /\ faults \in Nat
  BY DEF TypeOK, ReadExp
<1>2. pc'[w] = "raise" /\ user' = user /\ level' = level /\ exp' = exp
  BY DEF TypeOK, ReadExp, Goto
<1>3. \A x \in Workers : x # w => Same(x)
  BY OthersSame DEF Continue
<1>4. \/ total'[w] = exp[user[w]] /\ faults' = faults
      \/ total'[w] = 0 /\ faults' = faults + 1
  BY DEF TypeOK, ReadExp, Fault
<1>5. \A u \in Users : level'[u] <= LevelOf(exp'[u])
  BY <1>2 DEF LevelInv
<1>6. ASSUME NEW x \in Workers, pc'[x] = "raise"
      PROVE  total'[x] <= exp'[user'[x]]
  <2>1. CASE x = w
    BY <1>1, <1>2, <1>4, <2>1
  <2>2. CASE x # w
    BY <1>2, <1>3, <1>6, <2>2 DEF LevelInv, Same
  <2>3. QED
    BY <2>1, <2>2
<1>7. ASSUME faults' = 0, NEW u \in Users
      PROVE  level'[u] = LevelOf(exp'[u]) \/ \E x \in Workers : Lagging(x, u)'
  <2>1. faults = 0 /\ total'[w] = exp[user[w]]
    BY <1>1, <1>4, <1>7
  <2>2. ASSUME NEW x \in Workers, Lagging(x, u)
        PROVE  Lagging(x, u)'
    <3>1. CASE x = w
      BY <1>2, <2>1, <2>2, <3>1 DEF Lagging
    <3>2. CASE x # w
      BY <1>2, <1>3, <2>2, <3>2 DEF Lagging, Same
    <3>3. QED
      BY <3>1, <3>2
  <2>3. QED
    BY <1>2, <2>1, <2>2 DEF LevelInv
<1>8. QED
  BY <1>5, <1>6, <1>7 DEF LevelInv

\* Raise lifts its user's level as far as it has read, which is never too far,
\* and all the way if it has read all.
LEMMA LevelInvRaise ==
  ASSUME TypeOK, LevelInv, NEW w \in Workers, Raise(w)
  PROVE  LevelInv'
<1> DEFINE new == LevelOf(total[w])
<1>1. /\ exp \in [Users -> Nat] /\ level \in [Users -> 1..6]
      /\ user[w] \in Users /\ faults \in Nat /\ total[w] \in Nat
      /\ pc[w] = "raise" /\ total[w] <= exp[user[w]]
  BY DEF TypeOK, Raise, LevelInv
<1>2. new \in 1..6 /\ new <= LevelOf(exp[user[w]]) /\ LevelOf(exp[user[w]]) \in 1..6
  BY <1>1, LevelOfMonotone
<1>3. pc'[w] \in {"idle", "insert"} /\ exp' = exp
  BY DEF TypeOK, Raise, NextRow, Goto
<1>4. \A x \in Workers : x # w => Same(x)
  BY OthersSame DEF Continue
<1>5. \/ /\ level' = [level EXCEPT ![user[w]] = IF @ < new THEN new ELSE @]
         /\ faults' = faults
      \/ level' = level /\ faults' = faults + 1
  BY DEF Raise, Attempt, Fault
<1> HIDE DEF new
<1>6. ASSUME NEW u \in Users
      PROVE  level'[u] <= LevelOf(exp'[u])
  <2>1. level[u] \in 1..6 /\ level[u] <= LevelOf(exp[u])
    BY <1>1 DEF LevelInv
  <2>2. CASE u = user[w]
    BY <1>1, <1>2, <1>3, <1>5, <2>1, <2>2
  <2>3. CASE u # user[w]
    BY <1>1, <1>3, <1>5, <2>1, <2>3
  <2>4. QED
    BY <2>2, <2>3
<1>7. ASSUME NEW x \in Workers, pc'[x] = "raise"
      PROVE  total'[x] <= exp'[user'[x]]
  BY <1>3, <1>4, <1>7 DEF LevelInv, Same
<1>8. ASSUME faults' = 0, NEW u \in Users
      PROVE  level'[u] = LevelOf(exp'[u]) \/ \E x \in Workers : Lagging(x, u)'
  <2>1. faults = 0 /\ level' = [level EXCEPT ![user[w]] = IF @ < new THEN new ELSE @]
    BY <1>1, <1>5, <1>8
  <2>2. level[u] \in 1..6 /\ level[u] <= LevelOf(exp[u])
    BY <1>1 DEF LevelInv
  <2>3. CASE level[u] = LevelOf(exp[u])
    <3>1. CASE u = user[w]
      BY <1>1, <1>2, <1>3, <2>1, <2>2, <2>3, <3>1
    <3>2. CASE u # user[w]
      BY <1>1, <1>3, <2>1, <2>3, <3>2
    <3>3. QED
      BY <3>1, <3>2
  <2>4. CASE Lagging(w, u)
    <3>1. u = user[w] /\ total[w] = exp[u]
      BY <1>1, <2>4 DEF Lagging
    <3>2. new = LevelOf(exp[u])
      BY <3>1 DEF new
    <3>3. QED
      BY <1>1, <1>2, <1>3, <2>1, <2>2, <3>1, <3>2
  <2>5. ASSUME NEW x \in Workers, x # w, Lagging(x, u)
        PROVE  Lagging(x, u)'
    BY <1>3, <1>4, <2>5 DEF Lagging, Same
  <2>6. QED
    BY <2>1, <2>3, <2>4, <2>5 DEF LevelInv
<1>9. QED
  BY <1>6, <1>7, <1>8 DEF LevelInv

\* Every step keeps it.
LEMMA LevelInvStep == TypeOK /\ LevelInv /\ [Next]_vars => LevelInv'
<1> SUFFICES ASSUME TypeOK, LevelInv, [Next]_vars
             PROVE  LevelInv'
  OBVIOUS
<1>1. CASE UNCHANGED vars
  BY <1>1, LevelInvAside DEF vars, Same
<1>2. ASSUME NEW u \in Users, PublishPhoto(u) \/ Elsewhere(u)
      PROVE  LevelInv'
  BY <1>2, LevelInvAside DEF PublishPhoto, Elsewhere, Same
<1>3. CASE Crash
  <2>1. faults' # 0 /\ exp' = exp /\ level' = level
    BY <1>3 DEF Crash, Fault, TypeOK
  <2>2. \A x \in Workers : pc'[x] = "idle"
    BY <1>3 DEF Crash
  <2>3. QED
    BY <2>1, <2>2 DEF LevelInv
<1>4. ASSUME NEW w \in Workers, Continue(w)
      PROVE  LevelInv'
  <2>1. \A x \in Workers : x # w => Same(x)
    BY <1>4, OthersSame
  <2>2. CASE Start(w)
    BY <2>1, <2>2, LevelInvAside DEF Start, Goto, TypeOK
  <2>3. CASE Count(w)
    <3>1. pc[w] = "count" /\ pc'[w] \in {"count", "select"} /\ exp' = exp /\ level' = level
      BY <2>3 DEF Count, Goto, TypeOK
    <3>2. faults' = 0 => faults = 0
      BY <2>3 DEF Count, Fault, TypeOK
    <3>3. QED
      BY <2>1, <3>1, <3>2, LevelInvAside
  <2>4. CASE Select(w)
    <3>1. pc[w] = "select" /\ pc'[w] \in {"idle", "insert"} /\ exp' = exp /\ level' = level
      BY <2>4 DEF Select, NextRow, Goto, TypeOK
    <3>2. faults' = 0 => faults = 0
      BY <2>4 DEF Select, Fault, TypeOK
    <3>3. QED
      BY <2>1, <3>1, <3>2, LevelInvAside
  <2>5. CASE Insert(w)
    <3>1. pc[w] = "insert" /\ pc'[w] = "addExp" /\ exp' = exp /\ level' = level
      BY <2>5 DEF Insert, Goto, TypeOK
    <3>2. faults' = 0 => faults = 0
      BY <2>5 DEF Insert, Attempt, Fault, TypeOK
    <3>3. QED
      BY <2>1, <3>1, <3>2, LevelInvAside
  <2>6. CASE AddExp(w)
    BY <2>6, LevelInvAddExp
  <2>7. CASE ReadExp(w)
    BY <2>7, LevelInvReadExp
  <2>8. CASE Raise(w)
    BY <2>8, LevelInvRaise
  <2>9. QED
    BY <1>4, <2>2, <2>3, <2>4, <2>5, <2>6, <2>7, <2>8 DEF Continue
<1>5. QED
  BY <1>1, <1>2, <1>3, <1>4 DEF Next

\* The level of a user is never above what the experience is worth, and without
\* failures it is behind only while a check is on its way to raise it, however
\* many checks of the user overlap.
THEOREM LevelsFollowExperience == Spec => []LevelAccounted
<1>1. LevelInv => LevelAccounted
  BY DEF LevelInv, LevelAccounted, Lagging, OwesLevel
<1>2. QED
  BY <1>1, InitLevelInv, LevelInvStep, TypeCorrect, PTL DEF Spec

-----------------------------------------------------------------------------
(* Achievements against deeds.                                              *)

\* What u has done is enough for d, likes apart.
Earned(u, d) ==
  /\ Kind[d] \in Kinds
  /\ Kind[d] # "like_received" => done[u][Kind[d]] >= Need[d]

\* The numbers a check has seen are not above what the queries would return
\* now, and what it has to give has been earned.
SeenInv(w) ==
  \A i \in 1..Len(seen[w]) :
    Counted[i] # "like_received" => seen[w][i] <= done[user[w]][Counted[i]]

TodoInv(w) ==
  /\ pc[w] \in {"idle", "count", "select"} => todo[w] = {}
  /\ \A d \in todo[w] : Earned(user[w], d)

EarnedInv ==
  /\ \A u \in Users, d \in Defs : Has(u, d) => Earned(u, d)
  /\ \A w \in Workers : SeenInv(w) /\ TodoInv(w)

\* At the start nobody has an achievement and no check is at work.
LEMMA InitEarnedInv == Init => EarnedInv
BY DEF Init, EarnedInv, Has, SeenInv, TodoInv

\* No deed but a received like is ever taken back.
LEMMA DeedsGrow ==
  ASSUME TypeOK, [Next]_vars, NEW u \in Users, NEW k \in Kinds, k # "like_received"
  PROVE  done[u][k] <= done'[u][k]
<1>1. done \in [Users -> [Kinds -> Nat]] /\ done[u] \in [Kinds -> Nat] /\ done[u][k] \in Nat
  BY DEF TypeOK
<1>2. "photo_count" \in Kinds /\ "like_received" \in Kinds
  BY DEF Kinds, Counted
<1>3. CASE done' = done
  BY <1>1, <1>3
<1>4. ASSUME NEW v \in Users, NEW j \in Kinds, done' = [done EXCEPT ![v][j] = @ + 1]
      PROVE  done[u][k] <= done'[u][k]
  BY <1>1, <1>4
<1>5. ASSUME NEW v \in Users, Unliked(v)
      PROVE  done[u][k] <= done'[u][k]
  BY <1>1, <1>2, <1>5 DEF Unliked
<1>6. ASSUME NEW v \in Users, PublishPhoto(v)
      PROVE  done[u][k] <= done'[u][k]
  BY <1>2, <1>4, <1>6 DEF PublishPhoto
<1>7. ASSUME NEW v \in Users, Elsewhere(v)
      PROVE  done[u][k] <= done'[u][k]
  <2>1. ASSUME NEW S, More(v, S)
        PROVE  done[u][k] <= done'[u][k]
    BY <1>1, <2>1 DEF More
  <2>2. QED
    BY <1>5, <1>7, <2>1 DEF Elsewhere, Visited, Liked, Commented
<1>8. CASE \E v \in Users : PublishPhoto(v) \/ Elsewhere(v)
  BY <1>6, <1>7, <1>8
<1>9. CASE ~\E v \in Users : PublishPhoto(v) \/ Elsewhere(v)
  <2>1. done' = done
    BY <1>9 DEF Next, vars, Crash, Continue, Start, Count, Select, Insert, AddExp, ReadExp, Raise
  <2>2. QED
    BY <1>3, <2>1
<1>10. QED
  BY <1>8, <1>9

\* What has been earned stays earned.
LEMMA EarnedStays ==
  ASSUME TypeOK, [Next]_vars, NEW u \in Users, NEW d \in Defs, Earned(u, d)
  PROVE  Earned(u, d)'
<1>1. Kind[d] \in Kinds /\ Need[d] \in Nat
  BY AchievementsAssumption DEF Earned
<1>2. CASE Kind[d] = "like_received"
  BY <1>1, <1>2 DEF Earned
<1>3. CASE Kind[d] # "like_received"
  <2>1. done[u][Kind[d]] >= Need[d] /\ done[u][Kind[d]] <= done'[u][Kind[d]]
    BY <1>1, <1>3, DeedsGrow DEF Earned
  <2>2. done[u][Kind[d]] \in Nat /\ done'[u][Kind[d]] \in Nat
    <3>1. TypeOK'
      BY TypeOKStep
    <3>2. QED
      BY <1>1, <3>1 DEF TypeOK
  <2>3. QED
    BY <1>1, <2>1, <2>2 DEF Earned
<1>4. QED
  BY <1>2, <1>3

\* The i-th number of a check belongs to a query, and a check that has one has
\* a user.
LEMMA SeenOfQuery ==
  ASSUME TypeOK, NEW x \in Workers, NEW i \in 1..Len(seen[x])
  PROVE  user[x] \in Users /\ Counted[i] \in Kinds /\ seen[x][i] \in Nat
<1>1. seen[x] \in Seq(Nat) /\ Len(seen[x]) \in Nat
  <2>1. seen[x] \in Seq(Nat)
    BY DEF TypeOK
  <2>2. QED
    BY <2>1
<1>2. seen[x] # << >>
  BY <1>1
<1>3. pc[x] \in {"count", "select"}
  BY <1>2 DEF TypeOK
<1>4. \E m \in Nat : m <= 5 /\ Len(seen[x]) = m
  <2>1. Len(seen[x]) <= 4 \/ Len(seen[x]) = 5
    BY <1>3 DEF TypeOK
  <2>2. \A m \in Nat : m <= 4 \/ m = 5 => m <= 5
    OBVIOUS
  <2>3. QED
    BY <1>1, <2>1, <2>2
<1>5. i \in 1..5
  BY <1>4
<1>6. seen[x][i] \in Nat
  BY <1>1
<1>7. QED
  BY <1>3, <1>5, <1>6 DEF TypeOK, Kinds

\* A check that is where it was has seen no more than the queries return now,
\* and has only earned achievements to give.
LEMMA CheckStays ==
  ASSUME TypeOK, [Next]_vars, NEW x \in Workers, Same(x), SeenInv(x), TodoInv(x)
  PROVE  SeenInv(x)' /\ TodoInv(x)'
<1>1. ASSUME NEW i \in 1..Len(seen[x]), Counted[i] # "like_received"
      PROVE  seen[x][i] <= done'[user[x]][Counted[i]]
  <2>1. user[x] \in Users /\ Counted[i] \in Kinds /\ seen[x][i] \in Nat
    BY SeenOfQuery
  <2>2. done[user[x]][Counted[i]] <= done'[user[x]][Counted[i]]
    BY <1>1, <2>1, DeedsGrow
  <2>3. done[user[x]][Counted[i]] \in Nat /\ done'[user[x]][Counted[i]] \in Nat
    <3>1. TypeOK'
      BY TypeOKStep
    <3>2. QED
      BY <2>1, <3>1 DEF TypeOK
  <2>4. seen[x][i] <= done[user[x]][Counted[i]]
    BY <1>1 DEF SeenInv
  <2>5. QED
    BY <2>1, <2>2, <2>3, <2>4
<1>2. SeenInv(x)'
  BY <1>1 DEF SeenInv, Same
<1>3. ASSUME NEW d \in todo[x]
      PROVE  Earned(user[x], d)'
  <2>1. user[x] \in Users /\ d \in Defs
    <3>1. todo[x] \in SUBSET Defs /\ (pc[x] # "idle" => user[x] \in Users)
      BY DEF TypeOK
    <3>2. pc[x] # "idle"
      BY <1>3 DEF TodoInv
    <3>3. QED
      BY <1>3, <3>1, <3>2
  <2>2. PICK u \in Users : u = user[x] /\ u = user'[x]
    BY <2>1 DEF Same
  <2>3. Earned(u, d)
    BY <1>3, <2>2 DEF TodoInv
  <2>4. Earned(u, d)'
    BY <2>1, <2>3, EarnedStays
  <2>5. QED
    BY <2>2, <2>4 DEF Earned
<1>4. TodoInv(x)'
  BY <1>3 DEF TodoInv, Same, Earned
<1>5. QED
  BY <1>2, <1>4

\* Count adds what the query returns now, or nothing.
LEMMA CountSeesLittle ==
  ASSUME TypeOK, EarnedInv, NEW w \in Workers, Count(w)
  PROVE  SeenInv(w)'
<1>1. seen[w] \in Seq(Nat) /\ Len(seen[w]) <= 4 /\ user[w] \in Users /\ SeenInv(w)
  BY DEF TypeOK, Count, EarnedInv
<1>2. done' = done /\ user' = user
  BY DEF Count
<1> DEFINE k == Counted[Len(seen[w]) + 1]
<1>3. k \in Kinds
  <2>1. Len(seen[w]) + 1 \in 1..5
    BY <1>1, OneMore
  <2>2. QED
    BY <2>1 DEF Kinds
<1>4. done[user[w]][k] \in Nat
  BY <1>1, <1>3 DEF TypeOK
<1>5. PICK n \in Nat : seen'[w] = Append(seen[w], n) /\ n <= done[user[w]][k]
  <2>1. w \in DOMAIN seen
    BY DEF TypeOK
  <2>2. PICK m \in Nat : m = done[user[w]][k]
    BY <1>4
  <2>3. CASE seen' = [seen EXCEPT ![w] = Append(@, done[user[w]][k])]
    <3>1. seen'[w] = Append(seen[w], m) /\ m <= m
      BY <2>1, <2>2, <2>3
    <3>2. QED
      BY <2>2, <3>1
  <2>4. CASE seen' = [seen EXCEPT ![w] = Append(@, 0)]
    <3>1. seen'[w] = Append(seen[w], 0) /\ 0 <= m
      BY <2>1, <2>4
    <3>2. QED
      BY <2>2, <3>1
  <2>5. QED
    BY <2>3, <2>4 DEF Count
<1>6. ASSUME NEW i \in 1..Len(Append(seen[w], n)), Counted[i] # "like_received"
      PROVE  Append(seen[w], n)[i] <= done[user[w]][Counted[i]]
  <2>1. CASE i = Len(seen[w]) + 1
    BY <1>1, <1>5, <2>1
  <2>2. CASE i # Len(seen[w]) + 1
    <3>1. i \in 1..Len(seen[w]) /\ Append(seen[w], n)[i] = seen[w][i]
      BY <1>1, <2>2
    <3>2. QED
      BY <1>1, <1>6, <3>1 DEF SeenInv
  <2>3. QED
    BY <2>1, <2>2
<1>7. QED
  BY <1>2, <1>5, <1>6 DEF SeenInv

\* Select keeps what the numbers it has seen show to be earned.
LEMMA SelectTakesEarned ==
  ASSUME TypeOK, EarnedInv, NEW w \in Workers, Select(w)
  PROVE  SeenInv(w)' /\ TodoInv(w)'
<1>1. user[w] \in Users /\ SeenInv(w)
  BY DEF TypeOK, Select, EarnedInv
<1>2. done' = done /\ seen'[w] = << >>
  BY DEF Select, NextRow, TypeOK
<1>3. ASSUME NEW d \in Defs, Reached(w, d)
      PROVE  Earned(user[w], d)
  <2>1. PICK i \in 1..Len(seen[w]) : Counted[i] = Kind[d] /\ seen[w][i] >= Need[d]
    BY <1>3 DEF Reached
  <2>2. Kind[d] \in Kinds /\ seen[w][i] \in Nat
    BY <2>1, SeenOfQuery
  <2>3. ASSUME Kind[d] # "like_received"
        PROVE  done[user[w]][Kind[d]] >= Need[d]
    <3>1. seen[w][i] <= done[user[w]][Kind[d]]
      BY <1>1, <2>1, <2>3 DEF SeenInv
    <3>2. done[user[w]][Kind[d]] \in Nat /\ Need[d] \in Nat
      BY <1>1, <2>2, AchievementsAssumption DEF TypeOK
    <3>3. QED
      BY <2>1, <2>2, <3>1, <3>2
  <2>4. QED
    BY <2>2, <2>3 DEF Earned
<1>4. PICK rest : /\ NextRow(w, rest)
                  /\ rest = {} \/ rest = {d \in Defs : ~Has(user[w], d) /\ Reached(w, d)}
  BY DEF Select
<1>5. todo'[w] = rest /\ (rest # {} => user'[w] = user[w] /\ pc'[w] = "insert")
  BY <1>4 DEF NextRow, Goto, TypeOK
<1>6. \A d \in rest : Earned(user[w], d)
  BY <1>3, <1>4
<1>7. TodoInv(w)'
  BY <1>2, <1>5, <1>6 DEF TodoInv, Earned
<1>8. SeenInv(w)'
  BY <1>2 DEF SeenInv
<1>9. QED
  BY <1>7, <1>8

\* Every step keeps it.
LEMMA EarnedInvStep == TypeOK /\ EarnedInv /\ [Next]_vars => EarnedInv'
<1> SUFFICES ASSUME TypeOK, EarnedInv, [Next]_vars
             PROVE  EarnedInv'
  OBVIOUS
<1>1. ASSUME UNCHANGED unlocked
      PROVE  \A u \in Users, d \in Defs : Has(u, d)' => Earned(u, d)'
  BY <1>1, EarnedStays DEF EarnedInv, Has
<1>2. \A x \in Workers : Same(x) => SeenInv(x)' /\ TodoInv(x)'
  BY CheckStays DEF EarnedInv
<1>3. CASE UNCHANGED vars
  BY <1>1, <1>2, <1>3 DEF EarnedInv, vars, Same
<1>4. ASSUME NEW u \in Users, PublishPhoto(u) \/ Elsewhere(u)
      PROVE  EarnedInv'
  <2>1. UNCHANGED unlocked /\ \A x \in Workers : Same(x)
    BY <1>4 DEF PublishPhoto, Elsewhere, Same
  <2>2. QED
    BY <1>1, <1>2, <2>1 DEF EarnedInv
<1>5. CASE Crash
  <2>1. UNCHANGED unlocked /\ \A x \in Workers : seen'[x] = << >> /\ todo'[x] = {}
    BY <1>5 DEF Crash
  <2>2. \A x \in Workers : SeenInv(x)' /\ TodoInv(x)'
    BY <2>1 DEF SeenInv, TodoInv
  <2>3. QED
    BY <1>1, <2>1, <2>2 DEF EarnedInv
<1>6. ASSUME NEW w \in Workers, Continue(w)
      PROVE  EarnedInv'
  <2>1. \A x \in Workers : x # w => SeenInv(x)' /\ TodoInv(x)'
    BY <1>2, <1>6, OthersSame
  <2>2. ASSUME UNCHANGED unlocked, SeenInv(w)', TodoInv(w)'
        PROVE  EarnedInv'
    BY <1>1, <2>1, <2>2 DEF EarnedInv
  <2>4. CASE Start(w)
    <3>1. seen'[w] = << >> /\ todo'[w] = {} /\ UNCHANGED unlocked
      BY <2>4 DEF Start, TypeOK, EarnedInv, TodoInv
    <3>2. QED
      BY <2>2, <3>1 DEF SeenInv, TodoInv
  <2>5. CASE Count(w)
    <3>1. SeenInv(w)'
      BY <2>5, CountSeesLittle
    <3>2. todo'[w] = {} /\ UNCHANGED unlocked
      BY <2>5 DEF Count, EarnedInv, TodoInv
    <3>3. QED
      BY <2>2, <3>1, <3>2 DEF TodoInv
  <2>6. CASE Select(w)
    <3>1. UNCHANGED unlocked
      BY <2>6 DEF Select
    <3>2. QED
      BY <2>2, <2>6, <3>1, SelectTakesEarned
  <2>7. CASE Insert(w)
    <3>1. PICK d \in todo[w] : /\ todo' = [todo EXCEPT ![w] = @ \ {d}]
                               /\ unlocked' = unlocked \cup {<<user[w], d>>} \/ unlocked' = unlocked
      BY <2>7 DEF Insert, Attempt
    <3>2. /\ done' = done /\ user' = user /\ seen'[w] = << >> /\ pc'[w] = "addExp"
          /\ user[w] \in Users /\ d \in Defs
      BY <2>7, <3>1 DEF Insert, Goto, TypeOK
    <3>3. \A e \in todo[w] : Earned(user[w], e)
      BY DEF EarnedInv, TodoInv
    <3>4. todo'[w] = todo[w] \ {d}
      BY <3>1 DEF TypeOK
    <3>5. TodoInv(w)' /\ SeenInv(w)'
      BY <3>2, <3>3, <3>4 DEF TodoInv, Earned, SeenInv
    <3>6. ASSUME NEW u \in Users, NEW e \in Defs, Has(u, e)'
          PROVE  Earned(u, e)'
      <4>1. Has(u, e) \/ (u = user[w] /\ e = d)
        BY <3>1, <3>6 DEF Has
      <4>2. Earned(u, e)
        BY <3>3, <4>1 DEF EarnedInv
      <4>3. QED
        BY <4>2, EarnedStays
    <3>7. QED
      BY <2>1, <3>5, <3>6 DEF EarnedInv
  <2>8. CASE AddExp(w) \/ ReadExp(w)
    <3>1. /\ done' = done /\ user' = user /\ seen' = seen /\ todo' = todo
          /\ pc'[w] \in {"readExp", "raise"} /\ UNCHANGED unlocked
      BY <2>8 DEF AddExp, ReadExp, Goto, TypeOK
    <3>2. QED
      BY <2>2, <3>1 DEF EarnedInv, SeenInv, TodoInv, Earned
  <2>9. CASE Raise(w)
    <3>1. /\ done' = done /\ seen'[w] = << >> /\ todo'[w] = todo[w] /\ UNCHANGED unlocked
          /\ todo[w] # {} => user'[w] = user[w] /\ pc'[w] = "insert"
      BY <2>9 DEF Raise, NextRow, Goto, TypeOK
    <3>2. QED
      BY <2>2, <3>1 DEF EarnedInv, SeenInv, TodoInv, Earned
  <2>10. QED
    BY <1>6, <2>4, <2>5, <2>6, <2>7, <2>8, <2>9 DEF Continue
<1>7. QED
  BY <1>3, <1>4, <1>5, <1>6 DEF Next

\* Whatever fails and however checks overlap, nobody has an achievement without
\* having done what it asks, likes apart.
THEOREM AchievementsAreEarned == Spec => []UnlockedWereReached
<1>1. EarnedInv => UnlockedWereReached
  BY DEF EarnedInv, UnlockedWereReached, Earned
<1>2. QED
  BY <1>1, InitEarnedInv, EarnedInvStep, TypeCorrect, PTL DEF Spec

-----------------------------------------------------------------------------
(* The refinement of Leveling.                                              *)

\* What a step does to the rows: nothing, and something has failed; a row more; a
\* reward; or a level at most as high as the experience allows.
LEMMA StepKinds ==
  ASSUME TypeOK, [Next]_vars
  PROVE  \/ faults' = faults + 1 /\ UNCHANGED <<unlocked, exp, level>>
         \/ /\ UNCHANGED <<faults, exp, level>>
            /\ \/ unlocked' = unlocked
               \/ \E u \in Users, d \in Defs : unlocked' = unlocked \cup {<<u, d>>}
         \/ /\ UNCHANGED <<faults, unlocked, level>>
            /\ \E w \in Workers :
                 /\ pc[w] = "addExp"
                 /\ exp' = [exp EXCEPT ![user[w]] = @ + Reward[row[w]]]
         \/ UNCHANGED <<faults, unlocked, exp>>
<1>1. CASE UNCHANGED vars
  BY <1>1 DEF vars
<1>2. CASE Crash
  BY <1>2 DEF Crash, Fault
<1>3. ASSUME NEW u \in Users, PublishPhoto(u) \/ Elsewhere(u)
      PROVE  UNCHANGED <<faults, unlocked, exp>>
  BY <1>3 DEF PublishPhoto, Elsewhere
<1>4. ASSUME NEW w \in Workers, Insert(w)
      PROVE  \/ faults' = faults + 1 /\ UNCHANGED <<unlocked, exp, level>>
             \/ /\ UNCHANGED <<faults, exp, level>>
                /\ \E u \in Users, d \in Defs : unlocked' = unlocked \cup {<<u, d>>}
  BY <1>4 DEF Insert, Attempt, Fault, TypeOK
<1>5. ASSUME NEW w \in Workers, AddExp(w)
      PROVE  \/ faults' = faults + 1 /\ UNCHANGED <<unlocked, exp, level>>
             \/ /\ UNCHANGED <<faults, unlocked, level>>
                /\ pc[w] = "addExp"
                /\ exp' = [exp EXCEPT ![user[w]] = @ + Reward[row[w]]]
  BY <1>5 DEF AddExp, Attempt, Fault
<1>6. ASSUME NEW w \in Workers, Start(w) \/ Count(w) \/ Select(w) \/ ReadExp(w) \/ Raise(w)
      PROVE  \/ faults' = faults + 1 /\ UNCHANGED <<unlocked, exp, level>>
             \/ UNCHANGED <<faults, unlocked, exp>>
  BY <1>6 DEF Start, Count, Select, ReadExp, Raise, Attempt, Fault
<1>7. QED
  BY <1>1, <1>2, <1>3, <1>4, <1>5, <1>6 DEF Next, Continue

\* A check about to add a reward has seen to the row it is for, unless that failed.
GrantInv == faults = 0 => \A w \in Workers : pc[w] = "addExp" => Has(user[w], row[w])

\* No check is at work at the start.
LEMMA InitGrantInv == Init => GrantInv
BY DEF Init, GrantInv

\* Only Insert takes a check to the reward, and no row is ever removed.
LEMMA GrantInvStep == TypeOK /\ GrantInv /\ [Next]_vars => GrantInv'
<1> SUFFICES ASSUME TypeOK, GrantInv, [Next]_vars, faults' = 0,
                    NEW x \in Workers, pc'[x] = "addExp"
             PROVE  Has(user[x], row[x])'
  BY DEF GrantInv
<1>1. CASE Same(x)
  <2>1. unlocked \subseteq unlocked' /\ faults = 0
    BY StepKinds DEF TypeOK
  <2>2. QED
    BY <1>1, <2>1 DEF Same, GrantInv, Has
<1>2. CASE ~Same(x)
  <2>1. PICK w \in Workers : Continue(w)
    <3>1. ~UNCHANGED vars /\ ~Crash /\ ~\E u \in Users : PublishPhoto(u) \/ Elsewhere(u)
      BY <1>2 DEF Same, vars, Crash, PublishPhoto, Elsewhere
    <3>2. QED
      BY <3>1 DEF Next
  <2>2. w = x
    BY <1>2, <2>1, OthersSame
  <2>3. Insert(x)
    BY <2>1, <2>2 DEF TypeOK, Continue, Start, Count, Select, AddExp, ReadExp, Raise, NextRow, Goto
  <2>4. ~Fault
    BY DEF Fault, TypeOK
  <2>5. PICK d \in todo[x] : /\ row' = [row EXCEPT ![x] = d]
                             /\ unlocked' = unlocked \cup {<<user[x], d>>}
    BY <2>3, <2>4 DEF Insert, Attempt
  <2>6. QED
    BY <2>3, <2>5 DEF Insert, Has, TypeOK
<1>3. QED
  BY <1>1, <1>2

\* Nothing having failed, the level of the abstract specification is what the
\* experience is worth; after a failure it is the level in the row.
LEMMA SettledLevels ==
  ASSUME LevelInv, NEW u \in Users
  PROVE  SettledLevel(u) = IF faults = 0 THEN LevelOf(exp[u]) ELSE level[u]
BY DEF LevelInv, Lagging, SettledLevel, OwesLevel

\* Every step does what Leveling allows.
LEMMA StepSimulates ==
  TypeOK /\ TypeOK' /\ LevelInv /\ LevelInv' /\ GrantInv /\ [Next]_vars => [Abs!Next]_(Abs!vars)
<1> SUFFICES ASSUME TypeOK, TypeOK', LevelInv, LevelInv', GrantInv, [Next]_vars
             PROVE  [Abs!Next]_(Abs!vars)
  OBVIOUS
<1> DEFINE shown == [u \in Users |-> SettledLevel(u)]
<1>1. /\ shown = [u \in Users |-> IF faults = 0 THEN LevelOf(exp[u]) ELSE level[u]]
      /\ shown' = [u \in Users |-> IF faults' = 0 THEN LevelOf(exp'[u]) ELSE level'[u]]
  <2>1. \A u \in Users : SettledLevel(u) = IF faults = 0 THEN LevelOf(exp[u]) ELSE level[u]
    BY SettledLevels
  <2>2. \A u \in Users : SettledLevel(u)' = IF faults' = 0 THEN LevelOf(exp'[u]) ELSE level'[u]
    BY DEF LevelInv, Lagging, SettledLevel, OwesLevel
  <2>3. QED
    BY <2>1, <2>2
<1> HIDE DEF shown
<1>2. /\ exp \in [Users -> Nat] /\ exp' \in [Users -> Nat]
      /\ level \in [Users -> 1..6] /\ level' \in [Users -> 1..6]
      /\ faults \in Nat /\ faults' \in Nat
  BY DEF TypeOK
<1>3. \A u \in Users : LevelOf(exp[u]) \in 1..6 /\ level[u] <= LevelOf(exp[u]) /\ level'[u] <= LevelOf(exp'[u])
  BY <1>2, LevelOfMonotone DEF LevelInv
<1>4. CASE faults' = faults + 1 /\ UNCHANGED <<unlocked, exp, level>>
  <2>1. (faults' = 0) = FALSE
    BY <1>2, <1>4
  <2>2. shown' = level
    BY <1>1, <1>2, <1>4, <2>1
  <2>3. \A u \in Users : shown'[u] <= shown[u]
    BY <1>1, <1>2, <1>3, <2>2
  <2>4. Abs!Fail
    BY <1>2, <1>4, <2>1, <2>2, <2>3 DEF Abs!Fail, shown
  <2>5. QED
    BY <2>4 DEF Abs!Next
<1>5. CASE /\ UNCHANGED <<faults, exp, level>>
           /\ \/ unlocked' = unlocked
              \/ \E u \in Users, d \in Defs : unlocked' = unlocked \cup {<<u, d>>}
  <2>1. shown' = shown /\ (faults' = 0) = (faults = 0)
    BY <1>1, <1>5
  <2>2. CASE unlocked' = unlocked
    BY <1>5, <2>1, <2>2 DEF Abs!vars, shown
  <2>3. ASSUME NEW u \in Users, NEW d \in Defs, unlocked' = unlocked \cup {<<u, d>>}
        PROVE  Abs!Next
    <3>1. Abs!Unlock(u, d)
      BY <1>5, <2>1, <2>3 DEF Abs!Unlock, shown
    <3>2. QED
      BY <3>1 DEF Abs!Next
  <2>4. QED
    BY <1>5, <2>2, <2>3
<1>6. ASSUME UNCHANGED <<faults, unlocked, level>>, NEW w \in Workers, pc[w] = "addExp",
             exp' = [exp EXCEPT ![user[w]] = @ + Reward[row[w]]]
      PROVE  Abs!Next
  <2>1. user[w] \in Users /\ row[w] \in Defs /\ Reward[row[w]] \in Nat
    BY <1>6, AchievementsAssumption DEF TypeOK
  <2>2. CASE faults = 0
    <3>1. <<user[w], row[w]>> \in unlocked
      BY <1>6, <2>2 DEF GrantInv, Has
    <3>2. shown' = [shown EXCEPT ![user[w]] = LevelOf(exp'[user[w]])]
      BY <1>1, <1>2, <1>6, <2>1, <2>2
    <3>3. Abs!Award(user[w], row[w])
      BY <1>6, <2>2, <3>1, <3>2 DEF Abs!Award, shown
    <3>4. QED
      BY <2>1, <3>3 DEF Abs!Next
  <2>3. CASE faults # 0
    <3>1. shown = level /\ shown' = level
      BY <1>1, <1>2, <1>6, <2>3
    <3>2. \A u \in Users : exp[u] <= exp'[u]
      BY <1>2, <1>6, <2>1
    <3>3. Abs!GoOn
      BY <1>2, <1>3, <1>6, <2>3, <3>1, <3>2 DEF Abs!GoOn, shown
    <3>4. QED
      BY <3>3 DEF Abs!Next
  <2>4. QED
    BY <2>2, <2>3
<1>7. CASE UNCHANGED <<faults, unlocked, exp>>
  <2>1. CASE faults = 0
    <3>1. shown' = shown
      BY <1>1, <1>7, <2>1
    <3>2. QED
      BY <1>7, <3>1 DEF Abs!vars, shown
  <2>2. CASE faults # 0
    <3>1. shown = level /\ shown' = level'
      BY <1>1, <1>2, <1>7, <2>2
    <3>2. \A u \in Users : level[u] <= level'[u]
      BY <1>2, LevelStep
    <3>3. Abs!GoOn
      BY <1>2, <1>3, <1>7, <2>2, <3>1, <3>2 DEF Abs!GoOn, shown
    <3>4. QED
      BY <3>3 DEF Abs!Next
  <2>3. QED
    BY <2>1, <2>2
<1>8. QED
  BY <1>4, <1>5, <1>6, <1>7, StepKinds

\* Overlapping checks do to the rows what unlocking and rewarding in one step each
\* would do, for any number of them; a failure can only make a level lag.
THEOREM ChecksImplementLeveling == Spec => ImplementsLeveling
<1>1. Init => Abs!Init
  BY DEF Init, Abs!Init, SettledLevel, OwesLevel, LevelOf
<1>2. QED
  BY <1>1, InitLevelInv, LevelInvStep, InitGrantInv, GrantInvStep, StepSimulates, TypeCorrect, PTL
     DEF Spec, ImplementsLeveling, Abs!Spec

-----------------------------------------------------------------------------
(* Rewards: the experience of a user against the sum of the rewards of what *)
(* the user has.                                                            *)


\* The sums of the properties are sums of Reward.
LEMMA RewardsIsSum ==
  ASSUME NEW S
  PROVE  Rewards(S) = Sum(Reward, S)
BY DEF Rewards, Sum

LEMMA DefsFinite == \A S \in SUBSET Defs : IsFiniteSet(S)
BY AchievementsAssumption, FS_Subset

\* Without a failure, a step is one of a single check on its own variables, or
\* moves no check at all.
LEMMA WhoMoves ==
  ASSUME TypeOK, TypeOK', [Next]_vars, faults' = 0
  PROVE  /\ faults = 0
         /\ \/ (\A x \in Workers : Same(x)) /\ UNCHANGED <<unlocked, exp>>
            \/ \E w \in Workers : Continue(w) /\ \A x \in Workers : x # w => Same(x)
<1>1. faults \in Nat /\ faults' \in Nat
  BY DEF TypeOK
<1>2. CASE UNCHANGED vars
  BY <1>2 DEF vars, Same
<1>3. CASE Crash
  BY <1>1, <1>3 DEF Crash, Fault
<1>4. CASE \E u \in Users : PublishPhoto(u) \/ Elsewhere(u)
  BY <1>4 DEF PublishPhoto, Elsewhere, Same
<1>5. ASSUME NEW w \in Workers, Continue(w)
      PROVE  faults = 0 /\ \A x \in Workers : x # w => Same(x)
  <2>1. faults = 0
    BY <1>1, StepKinds
  <2>2. QED
    BY <1>5, <2>1, OthersSame
<1>6. QED
  BY <1>2, <1>3, <1>4, <1>5 DEF Next

\* What the step of a check does to the rows when nothing fails.
LEMMA RowsOfStep ==
  ASSUME TypeOK, TypeOK', faults = 0, faults' = 0, NEW w \in Workers, Continue(w)
  PROVE  \/ /\ pc[w] = "insert" /\ pc'[w] = "addExp" /\ user'[w] = user[w] /\ exp' = exp
            /\ \E d \in todo[w] :
                 /\ row'[w] = d /\ todo'[w] = todo[w] \ {d}
                 /\ unlocked' = unlocked \cup {<<user[w], d>>}
         \/ /\ pc[w] = "addExp" /\ pc'[w] = "readExp" /\ user'[w] = user[w]
            /\ todo'[w] = todo[w] /\ unlocked' = unlocked
            /\ exp' = [exp EXCEPT ![user[w]] = @ + Reward[row[w]]]
         \/ /\ pc[w] = "select" /\ pc'[w] # "addExp" /\ UNCHANGED <<unlocked, exp>>
            /\ todo'[w] \subseteq {d \in Defs : ~Has(user[w], d)}
            /\ user'[w] \in {user[w], None}
         \/ /\ pc[w] \notin {"insert", "addExp", "select"} /\ pc'[w] # "addExp"
            /\ UNCHANGED <<unlocked, exp>> /\ todo'[w] = todo[w]
            /\ user'[w] \in {user[w], None} \/ pc[w] = "idle"
<1>1. ~Fault
  BY DEF Fault
<1>2. CASE Start(w) \/ Count(w) \/ ReadExp(w)
  BY <1>2 DEF TypeOK, Start, Count, ReadExp, Goto
<1>3. CASE Select(w)
  BY <1>1, <1>3 DEF TypeOK, Select, NextRow, Goto
<1>4. CASE Insert(w)
  BY <1>1, <1>4 DEF TypeOK, Insert, Attempt, Goto
<1>5. CASE AddExp(w)
  BY <1>1, <1>5 DEF TypeOK, AddExp, Attempt, Goto
<1>6. CASE Raise(w)
  BY <1>6 DEF TypeOK, Raise, NextRow, Goto
<1>7. QED
  BY <1>2, <1>3, <1>4, <1>5, <1>6 DEF Continue

-----------------------------------------------------------------------------
(* No reward is lost.                                                       *)

Paid(u) == {d \in Granted(u) : ~\E w \in Workers : OwesReward(w, u, d)}

\* A row that is written is owed its reward, and a reward that is added pays for
\* one achievement more.
LEMMA CreditedStep ==
  TypeOK /\ TypeOK' /\ RewardsCredited /\ [Next]_vars => RewardsCredited'
<1> SUFFICES ASSUME TypeOK, TypeOK', RewardsCredited, [Next]_vars, faults' = 0, NEW u \in Users
             PROVE  exp'[u] >= Sum(Reward, Paid(u)')
  BY DEF RewardsCredited, Paid, Rewards, Sum, MapThenSumSet, MapThenFoldSet
<1>1. faults = 0 /\ exp[u] >= Sum(Reward, Paid(u))
  BY WhoMoves, RewardsIsSum DEF RewardsCredited, Paid
<1>2. /\ exp \in [Users -> Nat] /\ exp[u] \in Nat /\ exp'[u] \in Nat
      /\ \A d \in Defs : Reward[d] \in Nat
  BY AchievementsAssumption DEF TypeOK
<1>3. Paid(u) \in SUBSET Defs /\ Paid(u)' \in SUBSET Defs
  BY DEF Paid, Granted
<1>4. ASSUME Paid(u)' \subseteq Paid(u), exp'[u] = exp[u]
      PROVE  exp'[u] >= Sum(Reward, Paid(u)')
  <2>1. Sum(Reward, Paid(u)') <= Sum(Reward, Paid(u))
    BY <1>2, <1>3, <1>4, DefsFinite, SumPart
  <2>2. Sum(Reward, Paid(u)') \in Nat /\ Sum(Reward, Paid(u)) \in Nat
    BY <1>2, <1>3, DefsFinite, SumType
  <2>3. QED
    BY <1>1, <1>2, <1>4, <2>1, <2>2
<1>5. CASE (\A x \in Workers : Same(x)) /\ UNCHANGED <<unlocked, exp>>
  <2>1. Paid(u)' = Paid(u)
    BY <1>5 DEF Paid, Granted, Has, OwesReward, Same
  <2>2. QED
    BY <1>4, <1>5, <2>1
<1>6. ASSUME NEW w \in Workers, Continue(w), \A x \in Workers : x # w => Same(x)
      PROVE  exp'[u] >= Sum(Reward, Paid(u)')
  <2>1. ASSUME NEW d \in Defs
        PROVE  \A x \in Workers : x # w /\ OwesReward(x, u, d) => OwesReward(x, u, d)'
    BY <1>6 DEF OwesReward, Same
  <2>2. CASE pc[w] # "addExp" /\ unlocked' = unlocked /\ exp' = exp
    <3>1. Paid(u)' \subseteq Paid(u)
      BY <2>1, <2>2 DEF Paid, Granted, Has, OwesReward
    <3>2. QED
      BY <1>4, <2>2, <3>1
  <2>3. ASSUME pc[w] = "insert", pc'[w] = "addExp", user'[w] = user[w], exp' = exp,
               NEW d \in todo[w], row'[w] = d, unlocked' = unlocked \cup {<<user[w], d>>}
        PROVE  exp'[u] >= Sum(Reward, Paid(u)')
    <3>1. d \in Defs
      BY DEF TypeOK
    <3>2. user[w] = u => OwesReward(w, u, d)'
      BY <2>3 DEF OwesReward
    <3>3. \A e \in Granted(u)' : e \in Granted(u) \/ (user[w] = u /\ e = d)
      BY <2>3 DEF Granted, Has
    <3>4. \A e \in Defs : ~OwesReward(w, u, e)
      BY <2>3 DEF OwesReward
    <3>5. ASSUME NEW e \in Paid(u)'
          PROVE  e \in Paid(u)
      <4>1. e \in Granted(u)' /\ e \in Defs /\ \A x \in Workers : ~OwesReward(x, u, e)'
        BY DEF Paid, Granted
      <4>2. e \in Granted(u)
        BY <3>2, <3>3, <4>1
      <4>3. QED
        BY <2>1, <3>4, <4>1, <4>2 DEF Paid
    <3>6. QED
      BY <1>4, <2>3, <3>5
  <2>4. ASSUME pc[w] = "addExp", pc'[w] = "readExp", user'[w] = user[w], unlocked' = unlocked,
               exp' = [exp EXCEPT ![user[w]] = @ + Reward[row[w]]]
        PROVE  exp'[u] >= Sum(Reward, Paid(u)')
    <3>1. user[w] \in Users /\ row[w] \in Defs
      BY <2>4 DEF TypeOK
    <3>2. Granted(u)' = Granted(u)
      BY <2>4 DEF Granted, Has
    <3>3. ASSUME NEW e \in Paid(u)', e \notin Paid(u)
          PROVE  user[w] = u /\ row[w] = e
      <4>1. e \in Granted(u) /\ e \in Defs /\ \A x \in Workers : ~OwesReward(x, u, e)'
        BY <3>2 DEF Paid, Granted
      <4>2. OwesReward(w, u, e)
        BY <2>1, <3>3, <4>1 DEF Paid
      <4>3. QED
        BY <4>2 DEF OwesReward
    <3>4. CASE user[w] # u
      <4>1. exp'[u] = exp[u] /\ Paid(u)' \subseteq Paid(u)
        BY <1>2, <2>4, <3>3, <3>4
      <4>2. QED
        BY <1>4, <4>1
    <3>5. CASE user[w] = u
      <4> DEFINE d == row[w]
      <4>1. d \notin Paid(u)
        BY <2>4, <3>5 DEF Paid, OwesReward
      <4>2. Paid(u)' \subseteq Paid(u) \cup {d} /\ Paid(u) \cup {d} \in SUBSET Defs
        BY <1>3, <3>1, <3>3
      <4>3. Sum(Reward, Paid(u)') <= Sum(Reward, Paid(u) \cup {d})
        BY <1>2, <4>2, DefsFinite, SumPart
      <4>4. Sum(Reward, Paid(u) \cup {d}) = Sum(Reward, Paid(u)) + Reward[d]
        BY <1>2, <1>3, <4>1, <4>2, DefsFinite, SumAdds
      <4>5. /\ Sum(Reward, Paid(u)') \in Nat /\ Sum(Reward, Paid(u) \cup {d}) \in Nat
            /\ Sum(Reward, Paid(u)) \in Nat /\ Reward[d] \in Nat
        BY <1>2, <1>3, <3>1, <4>2, DefsFinite, SumType
      <4>6. exp'[u] = exp[u] + Reward[d]
        BY <1>2, <2>4, <3>5
      <4>7. QED
        BY <1>1, <1>2, <4>3, <4>4, <4>5, <4>6
    <3>6. QED
      BY <3>4, <3>5
  <2>5. QED
    BY <1>1, <1>6, <2>2, <2>3, <2>4, RowsOfStep
<1>7. QED
  BY <1>5, <1>6, WhoMoves

\* As long as nothing fails, the reward of every achievement a user has is in the
\* user's experience, or a check is about to add it, however checks overlap.
THEOREM NoRewardIsLost == Spec => []RewardsCredited
<1>1. Init => RewardsCredited
  <2> SUFFICES ASSUME Init, NEW u \in Users
               PROVE  exp[u] >= Rewards({d \in Granted(u) : ~\E w \in Workers : OwesReward(w, u, d)})
    BY DEF RewardsCredited
  <2>1. {d \in Granted(u) : ~\E w \in Workers : OwesReward(w, u, d)} = {}
    BY DEF Init, Granted, Has
  <2>2. Rewards({}) = 0 /\ exp[u] = 0
    BY RewardsIsSum, SumEmpty DEF Init
  <2>3. QED
    BY <2>1, <2>2
<1>2. QED
  BY <1>1, CreditedStep, TypeCorrect, PTL DEF Spec

-----------------------------------------------------------------------------
(* No reward is credited more often than there are goroutines.              *)

\* The checks that may still add the reward of d to the experience of u.
Pending(u, d) ==
  {w \in Workers : user[w] = u /\ (d \in todo[w] \/ (pc[w] = "addExp" /\ row[w] = d))}

\* What the others may have added.
Used(u) == [d \in Defs |-> Reward[d] * (Cardinality(Workers) - Cardinality(Pending(u, d)))]

\* A goroutine at rest has nothing left to give, and what it is giving is off
\* its list.
LeftInv ==
  \A w \in Workers :
    /\ pc[w] = "idle" => todo[w] = {}
    /\ pc[w] = "addExp" => row[w] \notin todo[w]

BoundInv == faults = 0 => \A u \in Users : exp[u] <= Sum(Used(u), Granted(u))

LEMMA LeftInvStep == TypeOK /\ LeftInv /\ [Next]_vars => LeftInv'
<1> SUFFICES ASSUME TypeOK, LeftInv, [Next]_vars, NEW x \in Workers
             PROVE  /\ pc'[x] = "idle" => todo'[x] = {}
                    /\ pc'[x] = "addExp" => row'[x] \notin todo'[x]
  BY DEF LeftInv
<1>1. CASE Same(x)
  BY <1>1 DEF Same, LeftInv
<1>2. CASE Crash
  BY <1>2 DEF Crash
<1>3. CASE ~Same(x) /\ ~Crash
  <2>1. PICK w \in Workers : Continue(w)
    <3>1. ~UNCHANGED vars /\ ~\E u \in Users : PublishPhoto(u) \/ Elsewhere(u)
      BY <1>3 DEF Same, vars, PublishPhoto, Elsewhere
    <3>2. QED
      BY <1>3, <3>1 DEF Next
  <2>2. w = x
    BY <1>3, <2>1, OthersSame
  <2>3. CASE Start(x) \/ Count(x) \/ ReadExp(x) \/ AddExp(x)
    BY <2>3 DEF TypeOK, Start, Count, ReadExp, AddExp, Goto
  <2>4. CASE Select(x) \/ Raise(x)
    BY <2>4 DEF TypeOK, Select, Raise, NextRow, Goto
  <2>5. CASE Insert(x)
    BY <2>5 DEF TypeOK, Insert, Goto
  <2>6. QED
    BY <2>1, <2>2, <2>3, <2>4, <2>5 DEF Continue
<1>4. QED
  BY <1>1, <1>2, <1>3

\* Fewer pending checks, and more used: by as much as one reward, if one has gone.
LEMMA UsedGrows ==
  ASSUME NEW P, NEW Q, P \subseteq Workers, Q \subseteq P, NEW r \in Nat
  PROVE  /\ r * (Cardinality(Workers) - Cardinality(P)) \in Nat
         /\ r * (Cardinality(Workers) - Cardinality(Q)) \in Nat
         /\ r * (Cardinality(Workers) - Cardinality(P)) <= r * (Cardinality(Workers) - Cardinality(Q))
         /\ r * (Cardinality(Workers) - Cardinality(P)) <= Cardinality(Workers) * r
         /\ P # Q => r * (Cardinality(Workers) - Cardinality(P)) + r
                       <= r * (Cardinality(Workers) - Cardinality(Q))
<1> DEFINE k == Cardinality(Workers)
           p == Cardinality(P)
           q == Cardinality(Q)
<1>1. k \in Nat /\ p \in Nat /\ q \in Nat /\ q <= p /\ p <= k /\ (P # Q => q # p)
  BY AchievementsAssumption, FS_CardinalityType, FS_Subset
<1> HIDE DEF k, p, q
<1>2. \A a, b \in Nat : /\ r * a \in Nat /\ r * (a + b) = r * a + r * b
                        /\ (b # 0 => r * (a + b) >= r * a + r)
                        /\ r * (a + b) >= r * a
  <2>1. \A a, b \in Nat : r * a \in Nat /\ r * b \in Nat /\ r * (a + b) = r * a + r * b
    OBVIOUS
  <2>2. \A b \in Nat : b # 0 => r * b >= r
    OBVIOUS
  <2>3. QED
    BY <2>1, <2>2
<1>3. k - p \in Nat /\ k - q \in Nat /\ p - q \in Nat /\ k - q = (k - p) + (p - q)
      /\ k = (k - p) + p /\ (P # Q => p - q # 0)
  BY <1>1
<1>4. r * (k - p) \in Nat /\ r * (k - q) \in Nat /\ r * (k - p) <= r * (k - q)
      /\ (P # Q => r * (k - p) + r <= r * (k - q))
  <2>1. r * ((k - p) + (p - q)) >= r * (k - p) /\ r * (k - p) \in Nat /\ r * (k - q) \in Nat
        /\ (P # Q => r * ((k - p) + (p - q)) >= r * (k - p) + r)
    BY <1>2, <1>3
  <2>2. QED
    BY <1>3, <2>1
<1>5. r * (k - p) <= k * r
  <2>1. r * ((k - p) + p) >= r * (k - p) /\ r * k = k * r
    BY <1>1, <1>2, <1>3
  <2>2. QED
    BY <1>3, <2>1
<1>6. QED
  BY <1>4, <1>5 DEF k, p, q

\* The sum of what is used, when it grows on the achievements that were there.
LEMMA SumGrows ==
  ASSUME NEW f, NEW g, NEW G \in SUBSET Defs, NEW H \in SUBSET Defs, G \subseteq H,
         \A d \in Defs : f[d] \in Nat /\ g[d] \in Nat, \A d \in G : f[d] <= g[d]
  PROVE  Sum(f, G) \in Nat /\ Sum(g, H) \in Nat /\ Sum(f, G) <= Sum(g, H)
<1>1. IsFiniteSet(G) /\ IsFiniteSet(H)
  BY DefsFinite
<1>2. Sum(f, G) \in Nat /\ Sum(g, G) \in Nat /\ Sum(g, H) \in Nat
  BY <1>1, SumType
<1>3. Sum(f, G) <= Sum(g, G)
  BY <1>1, SumAtMost
<1>4. Sum(g, G) <= Sum(g, H)
  BY <1>1, SumPart
<1>5. QED
  BY <1>2, <1>3, <1>4

\* A check is pending for no achievement the user had before its SELECT, so the
\* checks pending for one the user has only become fewer; and the one that adds
\* the reward is pending no longer.
LEMMA PendingShrinks ==
  ASSUME TypeOK, TypeOK', LeftInv, faults = 0, faults' = 0, NEW w \in Workers, Continue(w),
         \A x \in Workers : x # w => Same(x), NEW u \in Users, NEW d \in Granted(u)
  PROVE  /\ Pending(u, d)' \subseteq Pending(u, d)
         /\ pc[w] = "addExp" /\ user[w] = u /\ row[w] = d =>
              w \in Pending(u, d) /\ w \notin Pending(u, d)'
<1>1. Has(u, d) /\ d \in Defs
  BY DEF Granted
<1>2. \A x \in Workers : x # w /\ x \in Pending(u, d)' => x \in Pending(u, d)
  BY DEF Pending, Same
<1>3. u # None
  BY AchievementsAssumption
<1>4. w \in Pending(u, d)' => w \in Pending(u, d)
  BY <1>1, <1>3, RowsOfStep DEF Pending, LeftInv
<1>5. pc[w] = "addExp" /\ user[w] = u /\ row[w] = d =>
        w \in Pending(u, d) /\ w \notin Pending(u, d)'
  BY RowsOfStep DEF Pending, LeftInv
<1>6. QED
  BY <1>2, <1>4, <1>5 DEF Pending

\* What is used, as a step changes it.
LEMMA UsedStep ==
  ASSUME TypeOK, TypeOK', LeftInv, faults = 0, faults' = 0, NEW w \in Workers, Continue(w),
         \A x \in Workers : x # w => Same(x), NEW u \in Users
  PROVE  /\ \A d \in Defs : Used(u)[d] \in Nat /\ Used(u)'[d] \in Nat
         /\ \A d \in Granted(u) :
              /\ Used(u)[d] <= Used(u)'[d]
              /\ pc[w] = "addExp" /\ user[w] = u /\ row[w] = d =>
                   Used(u)[d] + Reward[d] <= Used(u)'[d]
<1>1. \A d \in Defs : Reward[d] \in Nat
  BY AchievementsAssumption
<1>2. \A d \in Defs : /\ Used(u)[d] = Reward[d] * (Cardinality(Workers) - Cardinality(Pending(u, d)))
                      /\ Used(u)'[d] = Reward[d] * (Cardinality(Workers) - Cardinality(Pending(u, d)'))
                      /\ Pending(u, d) \subseteq Workers /\ Pending(u, d)' \subseteq Workers
  BY DEF Used, Pending
<1>3. \A d \in Defs : Used(u)[d] \in Nat /\ Used(u)'[d] \in Nat
  BY <1>1, <1>2, UsedGrows
<1>4. ASSUME NEW d \in Granted(u)
      PROVE  /\ Used(u)[d] <= Used(u)'[d]
             /\ pc[w] = "addExp" /\ user[w] = u /\ row[w] = d =>
                   Used(u)[d] + Reward[d] <= Used(u)'[d]
  <2> DEFINE P == Pending(u, d)
             Q == Pending(u, d)'
  <2>1. d \in Defs
    BY DEF Granted
  <2>2. /\ Q \subseteq P
        /\ pc[w] = "addExp" /\ user[w] = u /\ row[w] = d => P # Q
    <3>1. /\ Q \subseteq P
          /\ pc[w] = "addExp" /\ user[w] = u /\ row[w] = d => w \in P /\ w \notin Q
      BY PendingShrinks
    <3>2. QED
      BY <3>1
  <2>3. Reward[d] \in Nat /\ P \subseteq Workers /\ Q \subseteq Workers
        /\ Used(u)[d] = Reward[d] * (Cardinality(Workers) - Cardinality(P))
        /\ Used(u)'[d] = Reward[d] * (Cardinality(Workers) - Cardinality(Q))
    BY <1>1, <1>2, <2>1
  <2> HIDE DEF P, Q
  <2>4. QED
    BY <2>2, <2>3, UsedGrows
<1>5. QED
  BY <1>3, <1>4

\* A reward that is added was not used by its goroutine before.
LEMMA BoundInvStep ==
  TypeOK /\ TypeOK' /\ LeftInv /\ GrantInv /\ BoundInv /\ [Next]_vars => BoundInv'
<1> SUFFICES ASSUME TypeOK, TypeOK', LeftInv, GrantInv, BoundInv, [Next]_vars, faults' = 0,
                    NEW u \in Users
             PROVE  exp'[u] <= Sum(Used(u)', Granted(u)')
  BY DEF BoundInv, Sum, MapThenSumSet, MapThenFoldSet
<1> DEFINE f == Used(u)
           g == Used(u)'
           G == Granted(u)
           H == Granted(u)'
<1>1. faults = 0 /\ exp[u] <= Sum(f, G)
  BY WhoMoves DEF BoundInv
<1>2. exp \in [Users -> Nat] /\ exp[u] \in Nat /\ exp'[u] \in Nat
  BY DEF TypeOK
<1>3. CASE (\A x \in Workers : Same(x)) /\ UNCHANGED <<unlocked, exp>>
  <2>1. \A d \in Defs : Pending(u, d)' = Pending(u, d)
    BY <1>3 DEF Pending, Same
  <2>2. g = f /\ H = G
    BY <1>3, <2>1 DEF Used, Granted, Has
  <2>3. Sum(g, H) = Sum(f, G)
    <3> HIDE DEF f, g, G, H
    <3>1. QED
      BY <2>2
  <2>4. QED
    BY <1>1, <1>3, <2>3
<1>4. ASSUME NEW w \in Workers, Continue(w), \A x \in Workers : x # w => Same(x)
      PROVE  exp'[u] <= Sum(g, H)
  <2>1. /\ \A d \in Defs : f[d] \in Nat /\ g[d] \in Nat
        /\ \A d \in G : /\ f[d] <= g[d]
                        /\ pc[w] = "addExp" /\ user[w] = u /\ row[w] = d => f[d] + Reward[d] <= g[d]
    BY <1>1, <1>4, UsedStep
  <2>2. unlocked \subseteq unlocked'
    BY <1>1, <1>4, RowsOfStep
  <2>3. G \subseteq H /\ G \in SUBSET Defs /\ H \in SUBSET Defs
    BY <2>2 DEF Granted, Has
  <2>4. CASE exp'[u] = exp[u]
    <3> HIDE DEF f, g, G, H
    <3>1. Sum(f, G) \in Nat /\ Sum(g, H) \in Nat /\ Sum(f, G) <= Sum(g, H)
      BY <2>1, <2>3, SumGrows
    <3>2. QED
      BY <1>1, <1>2, <2>4, <3>1
  <2>5. CASE exp'[u] # exp[u]
    <3>1. /\ pc[w] = "addExp" /\ user[w] \in Users /\ unlocked' = unlocked
          /\ exp' = [exp EXCEPT ![user[w]] = @ + Reward[row[w]]]
      BY <1>1, <1>4, <2>5, RowsOfStep DEF TypeOK
    <3>2. user[w] = u /\ exp'[u] = exp[u] + Reward[row[w]]
      BY <1>2, <2>5, <3>1
    <3>3. row[w] \in Defs /\ row[w] \in G /\ H = G
      BY <1>1, <3>1, <3>2 DEF TypeOK, GrantInv, Granted, Has
    <3> DEFINE d == row[w]
               T == G \ {d}
    <3>4. d \in Defs /\ d \in G /\ T \in SUBSET Defs /\ Reward[d] \in Nat /\ f[d] + Reward[d] <= g[d]
          /\ f[d] \in Nat /\ g[d] \in Nat /\ exp'[u] = exp[u] + Reward[d]
      BY <2>1, <2>3, <3>1, <3>2, <3>3, AchievementsAssumption
    <3> HIDE DEF f, g, G, H, d
    <3>5. Sum(f, G) = f[d] + Sum(f, T) /\ Sum(g, G) = g[d] + Sum(g, T)
      BY <2>1, <2>3, <3>4, DefsFinite, SumTakes
    <3>6. Sum(f, T) \in Nat /\ Sum(g, T) \in Nat /\ Sum(f, T) <= Sum(g, T)
      BY <2>1, <3>4, SumGrows
    <3> HIDE DEF T
    <3>7. exp[u] + Reward[d] <= Sum(g, G)
      BY <1>1, <1>2, <3>4, <3>5, <3>6
    <3>8. QED
      BY <3>3, <3>4, <3>7
  <2>6. QED
    BY <2>4, <2>5
<1>5. QED
  BY <1>3, <1>4, WhoMoves

\* Overlapping checks can credit one reward several times, but at most once per
\* goroutine: a check that starts after the row is there selects it no more.
THEOREM RewardsBounded == Spec => []RewardsBoundedByConcurrency
<1>1. Init => LeftInv /\ BoundInv
  <2>1. Init => LeftInv
    BY DEF Init, LeftInv
  <2>2. ASSUME Init, NEW u \in Users
        PROVE  exp[u] <= Sum(Used(u), Granted(u))
    <3>1. Granted(u) = {} /\ exp[u] = 0
      BY <2>2 DEF Init, Granted, Has
    <3>2. QED
      BY <3>1, SumEmpty
  <2>3. QED
    BY <2>1, <2>2 DEF BoundInv
<1>2. TypeOK /\ BoundInv => RewardsBoundedByConcurrency
  <2> SUFFICES ASSUME TypeOK, BoundInv, faults = 0, NEW u \in Users
               PROVE  exp[u] <= Cardinality(Workers) * Rewards(Granted(u))
    BY DEF RewardsBoundedByConcurrency
  <2> DEFINE f == Used(u)
             k == Cardinality(Workers)
             h == [d \in Defs |-> k * Reward[d]]
  <2>1. k \in Nat /\ exp[u] \in Nat /\ Granted(u) \in SUBSET Defs /\ exp[u] <= Sum(f, Granted(u))
    BY AchievementsAssumption, FS_CardinalityType DEF TypeOK, BoundInv, Granted
  <2>2. \A d \in Defs : /\ Reward[d] \in Nat /\ f[d] \in Nat /\ h[d] = k * Reward[d] /\ f[d] <= h[d]
    <3> SUFFICES ASSUME NEW d \in Defs
                 PROVE  Reward[d] \in Nat /\ f[d] \in Nat /\ f[d] <= k * Reward[d]
      OBVIOUS
    <3>1. Pending(u, d) \subseteq Workers /\ Reward[d] \in Nat
      BY AchievementsAssumption DEF Pending
    <3>2. f[d] = Reward[d] * (Cardinality(Workers) - Cardinality(Pending(u, d)))
      BY DEF Used
    <3>3. QED
      BY <3>1, <3>2, UsedGrows
  <2>3. \A d \in Defs : h[d] \in Nat
    <3>1. \A m, n \in Nat : m * n \in Nat
      OBVIOUS
    <3>2. QED
      BY <2>1, <2>2, <3>1
  <2> HIDE DEF f, k, h
  <2>4. Sum(f, Granted(u)) \in Nat /\ Sum(h, Granted(u)) \in Nat
        /\ Sum(f, Granted(u)) <= Sum(h, Granted(u))
    BY <2>1, <2>2, <2>3, SumGrows
  <2>5. Sum(h, Granted(u)) = k * Sum(Reward, Granted(u))
    BY <2>1, <2>2, DefsFinite, SumTimes
  <2>6. exp[u] <= Sum(h, Granted(u))
    BY <2>1, <2>4
  <2>7. QED
    BY <2>5, <2>6, RewardsIsSum DEF k
<1>3. QED
  BY <1>1, <1>2, LeftInvStep, BoundInvStep, InitGrantInv, GrantInvStep, TypeCorrect, PTL DEF Spec

=============================================================================
