----------------------------- MODULE SumProofs -----------------------------
(***************************************************************************)
(* Sums over finite sets, as MapThenSumSet computes them: one element is   *)
(* taken off the set after the other.  The installed provers cannot use    *)
(* the theorems of induction, which have an operator for parameter; here   *)
(* an induction is the least counterexample to a set (Least), which a      *)
(* theorem about well-founded relations provides.                          *)
(***************************************************************************)
EXTENDS Integers, FiniteSets, FiniteSetsExt, FiniteSetTheorems, WellFoundedInduction, TLAPS

Sum(f, S) == MapThenSumSet(LAMBDA x : f[x], S)

-----------------------------------------------------------------------------
(* The least element of a set.                                              *)

Below == {ss \in Nat \X Nat : ss[1] < ss[2]}

LEMMA BelowWellFounded == IsWellFoundedOn(Below, Nat)
BY NatLessThanWellFounded DEF OpToRel, Below

LEMMA Least ==
  ASSUME NEW N, N \subseteq Nat, N # {}
  PROVE  \E n \in N : \A m \in N : n <= m
<1>1. PICK n \in N : \A m \in N : ~(<<m, n>> \in Below)
  BY BelowWellFounded, WFMin
<1>2. ASSUME NEW m \in N
      PROVE  n <= m
  <2>1. m \in Nat /\ n \in Nat /\ ~(<<m, n>> \in Below)
    BY <1>1
  <2>2. m < n => <<m, n>> \in Below
    <3>1. <<m, n>> \in Nat \X Nat /\ <<m, n>>[1] = m /\ <<m, n>>[2] = n
      BY <2>1
    <3>2. QED
      BY <3>1 DEF Below
  <2>3. QED
    BY <2>1, <2>2
<1>3. QED
  BY <1>2

\* Of a set of finite sets that is not empty, one has the fewest elements.
LEMMA Smallest ==
  ASSUME NEW C, C # {}, \A S \in C : IsFiniteSet(S)
  PROVE  \E S \in C : \A T \in C : Cardinality(S) <= Cardinality(T)
<1> DEFINE N == {Cardinality(S) : S \in C}
<1>1. N \subseteq Nat /\ N # {}
  BY FS_CardinalityType
<1>2. PICK n \in N : \A m \in N : n <= m
  BY <1>1, Least
<1>3. QED
  BY <1>2

-----------------------------------------------------------------------------
(* The fold is well defined.                                                *)

First(s) == CHOOSE x \in s : TRUE
Rest(s)  == s \ {First(s)}

IsIter(f, S, g) ==
  g = [s \in SUBSET S |-> IF s = {} THEN 0 ELSE f[First(s)] + g[Rest(s)]]

Iter(f, S) == CHOOSE g : IsIter(f, S, g)

\* This is what MapThenSumSet stands for.
LEMMA SumIsIter ==
  ASSUME NEW f, NEW S
  PROVE  Sum(f, S) = Iter(f, S)[S]
BY DEF Sum, MapThenSumSet, MapThenFoldSet, Iter, IsIter, First, Rest

LEMMA RestSmaller ==
  ASSUME NEW s, IsFiniteSet(s), s # {}
  PROVE  /\ First(s) \in s /\ Rest(s) \subseteq s
         /\ IsFiniteSet(Rest(s)) /\ Cardinality(Rest(s)) = Cardinality(s) - 1
         /\ Cardinality(Rest(s)) < Cardinality(s)
<1>1. First(s) \in s
  BY DEF First
<1>2. QED
  BY <1>1, FS_RemoveElement, FS_CardinalityType DEF Rest

\* Two folds agree wherever both are defined.
LEMMA IterUnique ==
  ASSUME NEW f, NEW S, NEW T, NEW g, NEW h, IsFiniteSet(S), IsFiniteSet(T),
         IsIter(f, S, g), IsIter(f, T, h)
  PROVE  \A s \in SUBSET S : s \in SUBSET T => g[s] = h[s]
<1> DEFINE C == {s \in SUBSET S : s \in SUBSET T /\ g[s] # h[s]}
<1> SUFFICES ASSUME C # {}
             PROVE  FALSE
  OBVIOUS
<1>1. \A s \in C : IsFiniteSet(s)
  BY FS_Subset
<1>2. PICK s \in C : \A t \in C : Cardinality(s) <= Cardinality(t)
  BY <1>1, Smallest
<1>3. s # {}
  BY DEF IsIter
<1>4. Rest(s) \notin C /\ Rest(s) \in SUBSET S /\ Rest(s) \in SUBSET T
  <2>1. Rest(s) \subseteq s /\ ~(Cardinality(s) <= Cardinality(Rest(s)))
    BY <1>1, <1>3, RestSmaller, FS_CardinalityType
  <2>2. QED
    BY <1>2, <2>1
<1>5. g[s] = f[First(s)] + g[Rest(s)] /\ h[s] = f[First(s)] + h[Rest(s)]
  BY <1>3 DEF IsIter
<1>6. QED
  BY <1>4, <1>5

\* There is a fold over every finite set: for the smallest one that has none, the
\* folds of its parts would make one.
LEMMA IterExists ==
  ASSUME NEW f, NEW U, IsFiniteSet(U)
  PROVE  \E g : IsIter(f, U, g)
<1> DEFINE C == {S \in SUBSET U : ~\E g : IsIter(f, S, g)}
<1> SUFFICES ASSUME C # {}
             PROVE  FALSE
  OBVIOUS
<1>1. \A S \in SUBSET U : IsFiniteSet(S)
  BY FS_Subset
<1>2. PICK S \in C : \A T \in C : Cardinality(S) <= Cardinality(T)
  BY <1>1, Smallest
<1>3. ASSUME NEW s \in SUBSET S, s # {}
      PROVE  /\ First(s) \in s /\ Rest(s) \in SUBSET S /\ Rest(s) \in SUBSET s
             /\ IsIter(f, Rest(s), Iter(f, Rest(s)))
  <2>1. IsFiniteSet(s) /\ Cardinality(s) \in Nat /\ Cardinality(s) <= Cardinality(S)
        /\ Cardinality(S) \in Nat
    BY <1>1, FS_Subset, FS_CardinalityType
  <2>2. First(s) \in s /\ Rest(s) \subseteq s /\ Cardinality(Rest(s)) < Cardinality(s)
        /\ Cardinality(Rest(s)) \in Nat
    BY <2>1, <1>3, RestSmaller, FS_CardinalityType
  <2>3. Rest(s) \notin C /\ Rest(s) \in SUBSET U
    BY <1>2, <2>1, <2>2
  <2>4. \E g : IsIter(f, Rest(s), g)
    BY <2>3
  <2>5. QED
    BY <2>2, <2>4 DEF Iter
<1> DEFINE h(s) == Iter(f, s)[s]
           g == [s \in SUBSET S |-> IF s = {} THEN 0 ELSE f[First(s)] + h(Rest(s))]
<1>4. ASSUME NEW s \in SUBSET S, s # {}
      PROVE  g[Rest(s)] = h(Rest(s))
  <2> DEFINE t == Rest(s)
  <2>1. t \in SUBSET S /\ IsFiniteSet(t) /\ IsIter(f, t, Iter(f, t))
    BY <1>1, <1>3, <1>4
  <2>2. h(t) = IF t = {} THEN 0 ELSE f[First(t)] + Iter(f, t)[Rest(t)]
    BY <2>1 DEF IsIter
  <2>3. CASE t = {}
    BY <2>1, <2>2, <2>3
  <2>4. CASE t # {}
    <3>1. /\ Rest(t) \in SUBSET t /\ IsFiniteSet(Rest(t))
          /\ IsIter(f, Rest(t), Iter(f, Rest(t)))
      BY <1>1, <1>3, <2>1, <2>4
    <3>2. Iter(f, t)[Rest(t)] = h(Rest(t))
      BY <2>1, <3>1, IterUnique
    <3>3. QED
      BY <2>1, <2>2, <2>4, <3>2
  <2>5. QED
    BY <2>3, <2>4
<1>5. IsIter(f, S, g)
  BY <1>4 DEF IsIter
<1>6. QED
  BY <1>2, <1>5

\* The sum takes off one element after the other.
LEMMA SumUnfolds ==
  ASSUME NEW f, NEW S, IsFiniteSet(S)
  PROVE  Sum(f, S) = IF S = {} THEN 0 ELSE f[First(S)] + Sum(f, Rest(S))
<1>1. IsIter(f, S, Iter(f, S))
  BY IterExists DEF Iter
<1>2. Sum(f, S) = IF S = {} THEN 0 ELSE f[First(S)] + Iter(f, S)[Rest(S)]
  BY <1>1, SumIsIter DEF IsIter
<1>3. ASSUME S # {}
      PROVE  Iter(f, S)[Rest(S)] = Sum(f, Rest(S))
  <2>1. IsFiniteSet(Rest(S)) /\ Rest(S) \in SUBSET S
    BY <1>3, RestSmaller
  <2>2. IsIter(f, Rest(S), Iter(f, Rest(S)))
    BY <2>1, IterExists DEF Iter
  <2>3. Iter(f, S)[Rest(S)] = Iter(f, Rest(S))[Rest(S)]
    BY <1>1, <2>1, <2>2, IterUnique
  <2>4. QED
    BY <2>3, SumIsIter
<1>4. QED
  BY <1>2, <1>3

-----------------------------------------------------------------------------
(* What sums do.                                                            *)

LEMMA SumEmpty ==
  ASSUME NEW f
  PROVE  Sum(f, {}) = 0
BY SumUnfolds, FS_EmptySet

\* A sum of natural numbers is one.
LEMMA SumType ==
  ASSUME NEW f, NEW U, IsFiniteSet(U), \A x \in U : f[x] \in Nat
  PROVE  Sum(f, U) \in Nat
<1> DEFINE C == {S \in SUBSET U : Sum(f, S) \notin Nat}
<1> SUFFICES ASSUME C # {}
             PROVE  FALSE
  OBVIOUS
<1>1. \A S \in SUBSET U : IsFiniteSet(S) /\ Cardinality(S) \in Nat
  BY FS_Subset, FS_CardinalityType
<1>2. PICK S \in C : \A T \in C : Cardinality(S) <= Cardinality(T)
  BY <1>1, Smallest
<1>3. S # {}
  BY SumEmpty
<1>4. First(S) \in S /\ Rest(S) \subseteq S /\ Cardinality(Rest(S)) < Cardinality(S)
  BY <1>1, <1>3, RestSmaller
<1>5. Rest(S) \notin C /\ Rest(S) \in SUBSET U
  BY <1>1, <1>2, <1>4
<1>6. Sum(f, S) = f[First(S)] + Sum(f, Rest(S))
  BY <1>1, <1>3, SumUnfolds
<1>7. QED
  BY <1>4, <1>5, <1>6

\* A sum of zeros is zero.
LEMMA SumZero ==
  ASSUME NEW f, NEW U, IsFiniteSet(U), \A x \in U : f[x] = 0
  PROVE  Sum(f, U) = 0
<1> DEFINE C == {S \in SUBSET U : Sum(f, S) # 0}
<1> SUFFICES ASSUME C # {}
             PROVE  FALSE
  OBVIOUS
<1>1. \A S \in SUBSET U : IsFiniteSet(S) /\ Cardinality(S) \in Nat
  BY FS_Subset, FS_CardinalityType
<1>2. PICK S \in C : \A T \in C : Cardinality(S) <= Cardinality(T)
  BY <1>1, Smallest
<1>3. S # {}
  BY SumEmpty
<1>4. First(S) \in S /\ Rest(S) \subseteq S /\ Cardinality(Rest(S)) < Cardinality(S)
  BY <1>1, <1>3, RestSmaller
<1>5. Rest(S) \notin C /\ Rest(S) \in SUBSET U
  BY <1>1, <1>2, <1>4
<1>6. Sum(f, S) = f[First(S)] + Sum(f, Rest(S))
  BY <1>1, <1>3, SumUnfolds
<1>7. QED
  BY <1>4, <1>5, <1>6

\* Any element can be taken off first.
LEMMA SumTakes ==
  ASSUME NEW f, NEW U, IsFiniteSet(U), \A x \in U : f[x] \in Nat
  PROVE  \A a \in U : Sum(f, U) = f[a] + Sum(f, U \ {a})
<1> DEFINE C == {S \in SUBSET U : \E a \in S : Sum(f, S) # f[a] + Sum(f, S \ {a})}
<1> SUFFICES ASSUME C # {}
             PROVE  FALSE
  OBVIOUS
<1>1. \A S \in SUBSET U : IsFiniteSet(S) /\ Cardinality(S) \in Nat /\ Sum(f, S) \in Nat
  BY FS_Subset, FS_CardinalityType, SumType
<1>2. PICK S \in C : \A T \in C : Cardinality(S) <= Cardinality(T)
  BY <1>1, Smallest
<1>3. PICK a \in S : Sum(f, S) # f[a] + Sum(f, S \ {a})
  OBVIOUS
<1> DEFINE b == First(S)
<1>4. b \in S /\ Rest(S) = S \ {b} /\ Sum(f, S) = f[b] + Sum(f, S \ {b})
  BY <1>1, <1>3, RestSmaller, SumUnfolds DEF Rest
<1>5. a # b
  BY <1>3, <1>4
<1>6. Sum(f, S \ {b}) = f[a] + Sum(f, (S \ {b}) \ {a})
  <2>1. Cardinality(S \ {b}) = Cardinality(S) - 1
    BY <1>1, <1>4, FS_RemoveElement
  <2>2. S \ {b} \notin C /\ S \ {b} \in SUBSET U
    BY <1>1, <1>2, <2>1
  <2>3. QED
    BY <1>5, <2>2
<1>7. Sum(f, S \ {a}) = f[b] + Sum(f, (S \ {a}) \ {b})
  <2>1. Cardinality(S \ {a}) = Cardinality(S) - 1
    BY <1>1, FS_RemoveElement
  <2>2. S \ {a} \notin C /\ S \ {a} \in SUBSET U
    BY <1>1, <1>2, <2>1
  <2>3. QED
    BY <1>4, <1>5, <2>2
<1>8. (S \ {a}) \ {b} = (S \ {b}) \ {a}
  OBVIOUS
<1>9. /\ f[a] \in Nat /\ f[b] \in Nat /\ Sum(f, (S \ {b}) \ {a}) \in Nat
      /\ Sum(f, S \ {b}) \in Nat /\ Sum(f, S \ {a}) \in Nat
  BY <1>1, <1>4
<1>10. QED
  BY <1>3, <1>4, <1>6, <1>7, <1>8, <1>9

\* An element more.
LEMMA SumAdds ==
  ASSUME NEW f, NEW S, IsFiniteSet(S), NEW a, a \notin S, \A x \in S \cup {a} : f[x] \in Nat
  PROVE  Sum(f, S \cup {a}) = Sum(f, S) + f[a]
<1>1. IsFiniteSet(S \cup {a}) /\ (S \cup {a}) \ {a} = S
  BY FS_AddElement
<1>2. Sum(f, S \cup {a}) = f[a] + Sum(f, (S \cup {a}) \ {a})
  BY <1>1, SumTakes
<1>3. Sum(f, S) \in Nat /\ f[a] \in Nat
  BY SumType
<1>4. Sum(f, S \cup {a}) = f[a] + Sum(f, S)
  BY <1>1, <1>2
<1>5. QED
  BY <1>3, <1>4

\* The sum only looks at the elements of the set.
LEMMA SumSame ==
  ASSUME NEW f, NEW g, NEW U, IsFiniteSet(U), \A x \in U : f[x] = g[x]
  PROVE  Sum(f, U) = Sum(g, U)
<1> DEFINE C == {S \in SUBSET U : Sum(f, S) # Sum(g, S)}
<1> SUFFICES ASSUME C # {}
             PROVE  FALSE
  OBVIOUS
<1>1. \A S \in SUBSET U : IsFiniteSet(S) /\ Cardinality(S) \in Nat
  BY FS_Subset, FS_CardinalityType
<1>2. PICK S \in C : \A T \in C : Cardinality(S) <= Cardinality(T)
  BY <1>1, Smallest
<1>3. S # {}
  BY SumEmpty
<1>4. First(S) \in S /\ Rest(S) \subseteq S /\ Cardinality(Rest(S)) < Cardinality(S)
  BY <1>1, <1>3, RestSmaller
<1>5. Rest(S) \notin C /\ Rest(S) \in SUBSET U
  BY <1>1, <1>2, <1>4
<1>6. /\ Sum(f, S) = f[First(S)] + Sum(f, Rest(S))
      /\ Sum(g, S) = g[First(S)] + Sum(g, Rest(S))
  BY <1>1, <1>3, SumUnfolds
<1>7. QED
  BY <1>4, <1>5, <1>6

\* One element gets another value.
LEMMA SumChanges ==
  ASSUME NEW f, NEW g, NEW S, IsFiniteSet(S), NEW a \in S,
         \A x \in S : f[x] \in Nat /\ g[x] \in Nat /\ (x # a => g[x] = f[x])
  PROVE  Sum(g, S) + f[a] = Sum(f, S) + g[a]
<1>1. IsFiniteSet(S \ {a})
  BY FS_RemoveElement
<1>2. Sum(f, S \ {a}) = Sum(g, S \ {a}) /\ Sum(f, S \ {a}) \in Nat
  BY <1>1, SumSame, SumType
<1>3. Sum(f, S) = f[a] + Sum(f, S \ {a}) /\ Sum(g, S) = g[a] + Sum(g, S \ {a})
  BY SumTakes
<1>4. QED
  BY <1>2, <1>3

\* A part of the set, smaller elements: the sum is no greater.
LEMMA SumPart ==
  ASSUME NEW f, NEW U, IsFiniteSet(U), \A x \in U : f[x] \in Nat
  PROVE  \A P \in SUBSET U : Sum(f, P) <= Sum(f, U)
<1> DEFINE C == {S \in SUBSET U : \E P \in SUBSET S : ~(Sum(f, P) <= Sum(f, S))}
<1> SUFFICES ASSUME C # {}
             PROVE  FALSE
  OBVIOUS
<1>1. \A S \in SUBSET U : IsFiniteSet(S) /\ Cardinality(S) \in Nat /\ Sum(f, S) \in Nat
  BY FS_Subset, FS_CardinalityType, SumType
<1>2. PICK S \in C : \A T \in C : Cardinality(S) <= Cardinality(T)
  BY <1>1, Smallest
<1>3. PICK P \in SUBSET S : ~(Sum(f, P) <= Sum(f, S))
  OBVIOUS
<1>4. PICK a \in S : a \notin P
  <2>1. P # S
    BY <1>1, <1>3
  <2>2. QED
    BY <2>1
<1>5. Sum(f, P) <= Sum(f, S \ {a})
  <2>1. Cardinality(S \ {a}) = Cardinality(S) - 1
    BY <1>1, FS_RemoveElement
  <2>2. S \ {a} \notin C /\ S \ {a} \in SUBSET U
    BY <1>1, <1>2, <2>1
  <2>3. QED
    BY <1>4, <2>2
<1>6. Sum(f, S) = f[a] + Sum(f, S \ {a})
  BY <1>1, SumTakes
<1>7. f[a] \in Nat /\ Sum(f, S \ {a}) \in Nat /\ Sum(f, P) \in Nat
  BY <1>1
<1>8. QED
  BY <1>3, <1>5, <1>6, <1>7

LEMMA SumAtMost ==
  ASSUME NEW f, NEW g, NEW U, IsFiniteSet(U),
         \A x \in U : f[x] \in Nat /\ g[x] \in Nat /\ f[x] <= g[x]
  PROVE  Sum(f, U) <= Sum(g, U)
<1> DEFINE C == {S \in SUBSET U : ~(Sum(f, S) <= Sum(g, S))}
<1> SUFFICES ASSUME C # {}
             PROVE  FALSE
  OBVIOUS
<1>1. \A S \in SUBSET U : IsFiniteSet(S) /\ Cardinality(S) \in Nat
  BY FS_Subset, FS_CardinalityType
<1>2. PICK S \in C : \A T \in C : Cardinality(S) <= Cardinality(T)
  BY <1>1, Smallest
<1>3. S # {}
  BY SumEmpty
<1>4. First(S) \in S /\ Rest(S) \subseteq S /\ Cardinality(Rest(S)) < Cardinality(S)
  BY <1>1, <1>3, RestSmaller
<1>5. Rest(S) \notin C /\ Rest(S) \in SUBSET U
  BY <1>1, <1>2, <1>4
<1>6. /\ Sum(f, S) = f[First(S)] + Sum(f, Rest(S))
      /\ Sum(g, S) = g[First(S)] + Sum(g, Rest(S))
  BY <1>1, <1>3, SumUnfolds
<1>7. Sum(f, Rest(S)) \in Nat /\ Sum(g, Rest(S)) \in Nat
  BY <1>1, <1>5, SumType
<1>8. QED
  BY <1>4, <1>5, <1>6, <1>7

\* Every element times n.
LEMMA SumTimes ==
  ASSUME NEW f, NEW g, NEW U, IsFiniteSet(U), NEW n \in Nat,
         \A x \in U : f[x] \in Nat /\ g[x] = n * f[x]
  PROVE  Sum(g, U) = n * Sum(f, U)
<1> DEFINE C == {S \in SUBSET U : Sum(g, S) # n * Sum(f, S)}
<1> SUFFICES ASSUME C # {}
             PROVE  FALSE
  OBVIOUS
<1>1. \A S \in SUBSET U : IsFiniteSet(S) /\ Cardinality(S) \in Nat
  BY FS_Subset, FS_CardinalityType
<1>2. PICK S \in C : \A T \in C : Cardinality(S) <= Cardinality(T)
  BY <1>1, Smallest
<1>3. S # {}
  <2>1. n * 0 = 0
    OBVIOUS
  <2>2. QED
    BY <2>1, SumEmpty
<1>4. First(S) \in S /\ Rest(S) \subseteq S /\ Cardinality(Rest(S)) < Cardinality(S)
  BY <1>1, <1>3, RestSmaller
<1>5. Rest(S) \notin C /\ Rest(S) \in SUBSET U
  BY <1>1, <1>2, <1>4
<1>6. /\ Sum(f, S) = f[First(S)] + Sum(f, Rest(S))
      /\ Sum(g, S) = g[First(S)] + Sum(g, Rest(S))
  BY <1>1, <1>3, SumUnfolds
<1>7. f[First(S)] \in Nat /\ Sum(f, Rest(S)) \in Nat
  BY <1>1, <1>4, <1>5, SumType
<1>8. \A a, b \in Nat : n * (a + b) = n * a + n * b
  OBVIOUS
<1>9. QED
  BY <1>4, <1>5, <1>6, <1>7, <1>8

=============================================================================
