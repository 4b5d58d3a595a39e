----------------------------- MODULE Induction -----------------------------
(***************************************************************************)
(* Induction over naturals and finite sets, and what it gives: sums over   *)
(* finite sets, sorting, folds over sequences.  The library states         *)
(* induction for an operator P(_); here the set of the values that satisfy *)
(* P takes its place, and least elements, which exist because the          *)
(* orderings are well founded, do the work.                                *)
(***************************************************************************)
EXTENDS FiniteSetsExt, FiniteSetTheorems, FunctionTheorems, TLAPS

\* A set of naturals has a least element.
LEMMA LeastNat ==
    ASSUME NEW T \in SUBSET Nat, T # {}
    PROVE \E n \in T : \A m \in T : n <= m
  <1>1. IsWellFoundedOn(OpToRel(<, Nat), Nat)
    BY NatLessThanWellFounded
  <1>2. PICK n \in T : \A m \in T : <<m, n>> \notin OpToRel(<, Nat)
    BY <1>1, WFMin
  <1>3. \A m \in T : ~(m < n)
    BY <1>2 DEF OpToRel
  <1> QED BY <1>3

\* A set that holds 0 and the successors of its elements holds every natural.
LEMMA EveryNat ==
    ASSUME NEW T, 0 \in T, \A n \in Nat : n \in T => n + 1 \in T
    PROVE Nat \subseteq T
  <1> DEFINE Rest == Nat \ T
  <1> SUFFICES ASSUME Rest # {} PROVE FALSE
    OBVIOUS
  <1>1. PICK n \in Rest : \A m \in Rest : n <= m
    BY LeastNat
  <1>2. n - 1 \in Nat /\ n - 1 \in T
    BY <1>1
  <1> QED BY <1>1, <1>2

\* A set of subsets of a finite set has one that contains no other.
LEMMA LeastSet ==
    ASSUME NEW S, IsFiniteSet(S), NEW C \in SUBSET SUBSET S, C # {}
    PROVE \E X \in C : \A Y \in C : Y \subseteq X => Y = X
  <1>1. FiniteSubsetsOf(S) = SUBSET S
    BY FS_FiniteSubsetsOfFinite
  <1>2. IsWellFoundedOn(StrictSubsetOrdering(S), SUBSET S)
    BY <1>1, FS_StrictSubsetOrderingWellFounded
  <1>3. PICK X \in C : \A Y \in C : <<Y, X>> \notin StrictSubsetOrdering(S)
    BY <1>2, WFMin
  <1> QED BY <1>3 DEF StrictSubsetOrdering

\* What holds of the empty set, and still holds when an element is added,
\* holds of every finite set.
LEMMA EveryFiniteSet ==
    ASSUME NEW S, IsFiniteSet(S), NEW C, {} \in C,
           \A X \in SUBSET S, x \in S : X \in C /\ x \notin X => X \cup {x} \in C
    PROVE S \in C
  <1> DEFINE Rest == {X \in SUBSET S : X \notin C}
  <1> SUFFICES ASSUME Rest # {} PROVE FALSE
    OBVIOUS
  <1>1. PICK X \in Rest : \A Y \in Rest : Y \subseteq X => Y = X
    <2>1. Rest \in SUBSET SUBSET S
      OBVIOUS
    <2> HIDE DEF Rest
    <2> QED BY <2>1, LeastSet
  <1>2. PICK x \in X : TRUE
    BY <1>1
  <1>3. X \ {x} \in C
    BY <1>1
  <1>4. (X \ {x}) \cup {x} = X
    OBVIOUS
  <1> QED BY <1>1, <1>3, <1>4

----------------------------------------------------------------------------
(* Sums of f over the subsets of S, as MapThenSumSet computes them.         *)

Picked(X) == CHOOSE x \in X : TRUE

Sums(g, f, S) ==
    g = [X \in SUBSET S |-> IF X = {} THEN 0 ELSE f[Picked(X)] + g[X \ {Picked(X)}]]

IntOn(f, S) == \A x \in S : f[x] \in Int

\* The recursion is well defined on a finite set, and its values are integers.
LEMMA SumsExist ==
    ASSUME NEW S, IsFiniteSet(S), NEW f, IntOn(f, S)
    PROVE \E g \in [SUBSET S -> Int] : Sums(g, f, S)
  <1> DEFINE Upto(n) == {X \in SUBSET S : Cardinality(X) <= n}
             Next(g, X) == IF X = {} THEN 0 ELSE f[Picked(X)] + g[X \ {Picked(X)}]
             T == {n \in Nat : \E g \in [Upto(n) -> Int] : \A X \in Upto(n) : g[X] = Next(g, X)}
  <1>1. \A X \in SUBSET S : /\ IsFiniteSet(X) /\ Cardinality(X) \in Nat
                            /\ Cardinality(X) = 0 <=> X = {}
    BY FS_Subset, FS_CardinalityType, FS_EmptySet
  <1>2. \A X \in SUBSET S : X # {} => /\ Picked(X) \in X /\ f[Picked(X)] \in Int
                                      /\ X \ {Picked(X)} \in SUBSET S
                                      /\ Cardinality(X \ {Picked(X)}) = Cardinality(X) - 1
    BY <1>1, FS_RemoveElement DEF Picked, IntOn
  <1> HIDE DEF Picked
  <1>3. 0 \in T
    <2>1. Upto(0) = {{}}
      BY <1>1, FS_EmptySet
    <2> DEFINE g == [X \in Upto(0) |-> 0]
    <2>2. g \in [Upto(0) -> Int] /\ \A X \in Upto(0) : g[X] = Next(g, X)
      BY <2>1
    <2> QED BY <2>2
  <1>4. ASSUME NEW n \in Nat, n \in T PROVE n + 1 \in T
    <2>1. PICK g \in [Upto(n) -> Int] : \A X \in Upto(n) : g[X] = Next(g, X)
      BY <1>4
    <2> DEFINE h == [X \in Upto(n + 1) |-> IF X \in Upto(n) THEN g[X] ELSE Next(g, X)]
    <2>2. \A X \in Upto(n + 1) : X # {} => X \ {Picked(X)} \in Upto(n)
      BY <1>1, <1>2
    <2>3. \A X \in Upto(n) : X \in Upto(n + 1) /\ g[X] \in Int
      BY <1>1
    <2>4. h \in [Upto(n + 1) -> Int]
      <3> SUFFICES ASSUME NEW X \in Upto(n + 1) PROVE h[X] \in Int
        OBVIOUS
      <3>1. CASE X \in Upto(n)
        BY <2>3, <3>1
      <3>2. CASE X \notin Upto(n)
        <4>1. CASE X = {}
          BY <1>1, <4>1
        <4>2. CASE X # {}
          BY <1>2, <2>2, <2>3, <3>2, <4>2
        <4> QED BY <4>1, <4>2
      <3> QED BY <3>1, <3>2
    <2>5. \A X \in Upto(n + 1) : X # {} => h[X \ {Picked(X)}] = g[X \ {Picked(X)}]
      BY <2>2, <2>3
    <2>6. \A X \in Upto(n + 1) : h[X] = Next(h, X)
      <3> SUFFICES ASSUME NEW X \in Upto(n + 1) PROVE h[X] = Next(g, X) /\ Next(h, X) = Next(g, X)
        OBVIOUS
      <3>1. Next(h, X) = Next(g, X)
        <4>1. X # {} => h[X \ {Picked(X)}] = g[X \ {Picked(X)}]
          BY <2>5
        <4> HIDE DEF h
        <4> QED BY <4>1
      <3>2. CASE X \in Upto(n)
        BY <2>1, <3>1, <3>2
      <3>3. CASE X \notin Upto(n)
        BY <3>1, <3>3
      <3> QED BY <3>1, <3>2, <3>3
    <2>7. n + 1 \in Nat
      OBVIOUS
    <2> HIDE DEF h, Next, Upto
    <2> QED BY <2>4, <2>6, <2>7
  <1>5. Cardinality(S) \in T
    <2> HIDE DEF T
    <2> QED BY <1>1, <1>3, <1>4, EveryNat
  <1>6. Upto(Cardinality(S)) = SUBSET S
    BY <1>1, FS_Subset
  <1>7. PICK g \in [SUBSET S -> Int] : \A X \in SUBSET S : g[X] = Next(g, X)
    BY <1>5, <1>6
  <1>8. g = [X \in SUBSET S |-> Next(g, X)]
    BY <1>7
  <1> QED BY <1>8 DEF Sums

\* It determines the sums.
LEMMA SumsUnique ==
    ASSUME NEW S, IsFiniteSet(S), NEW f, NEW f2, \A x \in S : f[x] = f2[x],
           NEW g, NEW h, Sums(g, f, S), Sums(h, f2, S)
    PROVE g = h
  <1> DEFINE C == {X \in SUBSET S : g[X] # h[X]}
  <1>1. \A X \in SUBSET S : X # {} => Picked(X) \in X
    BY DEF Picked
  <1>2. /\ DOMAIN g = SUBSET S /\ DOMAIN h = SUBSET S
        /\ g = [X \in SUBSET S |-> g[X]] /\ h = [X \in SUBSET S |-> h[X]]
        /\ \A X \in SUBSET S : g[X] = IF X = {} THEN 0 ELSE f[Picked(X)] + g[X \ {Picked(X)}]
        /\ \A X \in SUBSET S : h[X] = IF X = {} THEN 0 ELSE f2[Picked(X)] + h[X \ {Picked(X)}]
    BY DEF Sums
  <1>3. C = {}
    <2> SUFFICES ASSUME C # {} PROVE FALSE
      OBVIOUS
    <2>1. PICK X \in C : \A Y \in C : Y \subseteq X => Y = X
      <3>1. C \in SUBSET SUBSET S
        OBVIOUS
      <3> HIDE DEF C
      <3> QED BY <3>1, LeastSet
    <2>2. X # {} /\ f[Picked(X)] = f2[Picked(X)]
      BY <1>1, <1>2, <2>1
    <2>3. X \ {Picked(X)} \in SUBSET S /\ X \ {Picked(X)} # X
      BY <1>1, <2>1, <2>2
    <2>4. g[X \ {Picked(X)}] = h[X \ {Picked(X)}]
      BY <2>1, <2>3
    <2> QED BY ZenonT(60), <1>2, <2>1, <2>2, <2>4
  <1>4. \A X \in SUBSET S : g[X] = h[X]
    BY <1>3
  <1> QED BY <1>2, <1>4

\* Any element of a set may be taken from it first.
LEMMA SumsCommute ==
    ASSUME NEW S, IsFiniteSet(S), NEW f, IntOn(f, S), NEW g \in [SUBSET S -> Int], Sums(g, f, S),
           NEW Z \in SUBSET S, NEW z \in Z
    PROVE g[Z] = f[z] + g[Z \ {z}]
  <1> DEFINE C == {X \in SUBSET S : \E x \in X : g[X] # f[x] + g[X \ {x}]}
  <1>1. \A X \in SUBSET S : X # {} => Picked(X) \in X
    BY DEF Picked
  <1>2. \A X \in SUBSET S : X # {} => g[X] = f[Picked(X)] + g[X \ {Picked(X)}]
    BY DEF Sums
  <1> SUFFICES ASSUME C # {} PROVE FALSE
    OBVIOUS
  <1>3. PICK X \in C : \A Y \in C : Y \subseteq X => Y = X
    <2>1. C \in SUBSET SUBSET S
      OBVIOUS
    <2> HIDE DEF C
    <2> QED BY <2>1, LeastSet
  <1>4. PICK x \in X : g[X] # f[x] + g[X \ {x}]
    BY <1>3
  <1> DEFINE y == Picked(X)
  <1>5. /\ X \in SUBSET S /\ x \in S /\ y \in X /\ y \in S /\ x # y
        /\ f[x] \in Int /\ f[y] \in Int
        /\ g[X] = f[y] + g[X \ {y}]
    BY <1>1, <1>2, <1>3, <1>4 DEF IntOn
  <1> HIDE DEF y
  <1>6. /\ X \ {x} \in SUBSET S /\ X \ {x} \notin C /\ y \in X \ {x}
        /\ X \ {y} \in SUBSET S /\ X \ {y} \notin C /\ x \in X \ {y}
    BY <1>3, <1>4, <1>5
  <1>7. /\ g[X \ {x}] = f[y] + g[(X \ {x}) \ {y}]
        /\ g[X \ {y}] = f[x] + g[(X \ {y}) \ {x}]
    BY <1>6
  <1>8. (X \ {x}) \ {y} = (X \ {y}) \ {x} /\ (X \ {x}) \ {y} \in SUBSET S
    BY <1>5
  <1>9. g[(X \ {x}) \ {y}] \in Int /\ g[(X \ {x}) \ {y}] = g[(X \ {y}) \ {x}]
    BY <1>8
  <1> QED BY <1>4, <1>5, <1>7, <1>9

\* The sum of f over S.
Sum(f, S) == (CHOOSE g : Sums(g, f, S))[S]

\* It is what any recursion of this form computes.
LEMMA SumIs ==
    ASSUME NEW S, IsFiniteSet(S), NEW f, IntOn(f, S)
    PROVE \E g \in [SUBSET S -> Int] :
            /\ Sums(g, f, S) /\ Sum(f, S) = g[S] /\ Sum(f, S) \in Int
            /\ \A h : Sums(h, f, S) => h = g
  <1>1. PICK g \in [SUBSET S -> Int] : Sums(g, f, S)
    BY SumsExist
  <1>2. \A h : Sums(h, f, S) => h = g
    BY <1>1, SumsUnique
  <1>3. Sums(CHOOSE h : Sums(h, f, S), f, S)
    BY <1>1
  <1>4. Sum(f, S) = g[S]
    BY <1>2, <1>3 DEF Sum
  <1> QED BY <1>1, <1>2, <1>4

\* The sums over a set are those over its subsets.
LEMMA SumOfSubset ==
    ASSUME NEW S, IsFiniteSet(S), NEW f, IntOn(f, S), NEW T \in SUBSET S,
           NEW g \in [SUBSET S -> Int], Sums(g, f, S)
    PROVE Sum(f, T) = g[T]
  <1> DEFINE h == [X \in SUBSET T |-> g[X]]
  <1>1. IsFiniteSet(T) /\ IntOn(f, T)
    BY FS_Subset DEF IntOn
  <1>2. \A X \in SUBSET T : X \in SUBSET S /\ X \ {Picked(X)} \in SUBSET T
    OBVIOUS
  <1>3. \A X \in SUBSET T : g[X] = IF X = {} THEN 0 ELSE f[Picked(X)] + g[X \ {Picked(X)}]
    BY <1>2 DEF Sums
  <1>4. \A X \in SUBSET T : h[X] = IF X = {} THEN 0 ELSE f[Picked(X)] + h[X \ {Picked(X)}]
    BY <1>2, <1>3
  <1>5. Sums(h, f, T)
    <2>1. h = [X \in SUBSET T |-> h[X]]
      OBVIOUS
    <2> HIDE DEF h
    <2> QED BY <1>4, <2>1 DEF Sums
  <1>6. h[T] = g[T]
    OBVIOUS
  <1> HIDE DEF h
  <1> QED BY <1>1, <1>5, <1>6, SumIs

\* The sum over the empty set, and over a set and one of its elements.
LEMMA SumEmpty == \A f : Sum(f, {}) = 0
  <1> TAKE f
  <1>1. IsFiniteSet({}) /\ IntOn(f, {})
    BY FS_EmptySet DEF IntOn
  <1>2. PICK g \in [SUBSET {} -> Int] : Sums(g, f, {}) /\ Sum(f, {}) = g[{}]
    BY <1>1, SumIs
  <1> QED BY <1>2 DEF Sums

LEMMA SumRemove ==
    ASSUME NEW S, IsFiniteSet(S), NEW f, IntOn(f, S), NEW x \in S
    PROVE /\ Sum(f, S) = f[x] + Sum(f, S \ {x})
          /\ f[x] \in Int /\ Sum(f, S) \in Int /\ Sum(f, S \ {x}) \in Int
  <1>1. PICK g \in [SUBSET S -> Int] : Sums(g, f, S) /\ Sum(f, S) = g[S]
    BY SumIs
  <1>2. g[S] = f[x] + g[S \ {x}]
    <2>1. Sums(g, f, S) /\ S \in SUBSET S
      BY <1>1
    <2> QED BY <2>1, SumsCommute
  <1>3. \A T \in SUBSET S : Sum(f, T) = g[T]
    BY <1>1, SumOfSubset
  <1>4. S \in SUBSET S /\ S \ {x} \in SUBSET S
    OBVIOUS
  <1> QED BY <1>2, <1>3, <1>4 DEF IntOn

\* Only the values on the set matter.
LEMMA SumEqual ==
    ASSUME NEW S, IsFiniteSet(S), NEW f, NEW f2, IntOn(f, S), \A x \in S : f[x] = f2[x]
    PROVE Sum(f, S) = Sum(f2, S)
  <1>1. IntOn(f2, S)
    BY DEF IntOn
  <1>2. PICK g : Sums(g, f, S) /\ Sum(f, S) = g[S]
    BY SumIs
  <1>3. PICK h : Sums(h, f2, S) /\ Sum(f2, S) = h[S]
    BY <1>1, SumIs
  <1>4. g = h
    BY <1>2, <1>3, SumsUnique
  <1> QED BY <1>2, <1>3, <1>4

\* A sum of naturals is a natural, and no smaller than any of them.
LEMMA SumNat ==
    ASSUME NEW S, IsFiniteSet(S), NEW f, \A x \in S : f[x] \in Nat
    PROVE Sum(f, S) \in Nat /\ \A x \in S : f[x] <= Sum(f, S)
  <1> DEFINE C == {X \in SUBSET S : Sum(f, X) \in Nat}
  <1>1. IntOn(f, S) /\ \A X \in SUBSET S : IsFiniteSet(X) /\ IntOn(f, X)
    BY FS_Subset DEF IntOn
  <1>2. \A X \in SUBSET S : Sum(f, X) \in Nat
    <2> SUFFICES ASSUME NEW Y \in SUBSET S PROVE Y \in C
      OBVIOUS
    <2>1. {} \in C
      BY SumEmpty
    <2>2. ASSUME NEW X \in SUBSET Y, NEW x \in Y, X \in C, x \notin X PROVE X \cup {x} \in C
      <3>1. X \cup {x} \in SUBSET S /\ (X \cup {x}) \ {x} = X /\ x \in X \cup {x}
        BY <2>2
      <3>2. Sum(f, X \cup {x}) = f[x] + Sum(f, X)
        BY <1>1, <3>1, SumRemove
      <3> QED BY <2>2, <3>1, <3>2
    <2> HIDE DEF C
    <2> QED BY <1>1, <2>1, <2>2, EveryFiniteSet
  <1>3. ASSUME NEW x \in S PROVE f[x] <= Sum(f, S)
    <2>1. Sum(f, S) = f[x] + Sum(f, S \ {x}) /\ Sum(f, S \ {x}) \in Nat
      BY <1>1, <1>2, SumRemove
    <2> QED BY <2>1
  <1> QED BY <1>2, <1>3

----------------------------------------------------------------------------
(* Sorting: a finite set has one sorted sequence, which starts with every   *)
(* sorted sequence of its first elements.                                   *)

\* R orders the elements of S strictly and totally.
StrictOrder(S, R) ==
    /\ \A x \in S : <<x, x>> \notin R
    /\ \A x, y \in S : x = y \/ <<x, y>> \in R \/ <<y, x>> \in R
    /\ \A x, y, z \in S : <<x, y>> \in R /\ <<y, z>> \in R => <<x, z>> \in R

\* f holds the first n elements of S in order.
FirstOf(f, n, S, R) ==
    /\ f \in [1..n -> S]
    /\ \A i, j \in 1..n : i < j => <<f[i], f[j]>> \in R
    /\ \A y \in S : (\E i \in 1..n : f[i] = y) \/ (\A i \in 1..n : <<f[i], y>> \in R)

\* f holds all of S in order.
Sorts(f, S, R) ==
    /\ f \in [1..Cardinality(S) -> S]
    /\ \A i, j \in 1..Cardinality(S) : i < j => <<f[i], f[j]>> \in R

\* How many elements of S come no later than y.
Place(y, S, R) == Cardinality({z \in S : z = y \/ <<z, y>> \in R})

\* Places are in the order of the elements, from 1 on.
LEMMA PlaceOrder ==
    ASSUME NEW S, IsFiniteSet(S), NEW R, StrictOrder(S, R), NEW x \in S
    PROVE /\ Place(x, S, R) \in 1..Cardinality(S)
          /\ \A y \in S : <<x, y>> \in R => Place(x, S, R) < Place(y, S, R)
  <1> DEFINE Upto(y) == {z \in S : z = y \/ <<z, y>> \in R}
  <1>1. \A y \in S : IsFiniteSet(Upto(y)) /\ Cardinality(Upto(y)) \in Nat
                     /\ Cardinality(Upto(y)) <= Cardinality(S)
    <2> SUFFICES ASSUME NEW y \in S
                 PROVE IsFiniteSet(Upto(y)) /\ Cardinality(Upto(y)) \in Nat
                       /\ Cardinality(Upto(y)) <= Cardinality(S)
      OBVIOUS
    <2>1. Upto(y) \in SUBSET S
      OBVIOUS
    <2> HIDE DEF Upto
    <2> QED BY <2>1, FS_Subset, FS_CardinalityType
  <1>2. Cardinality(Upto(x)) # 0
    <2>1. x \in Upto(x)
      OBVIOUS
    <2> HIDE DEF Upto
    <2> QED BY <1>1, <2>1, FS_EmptySet
  <1>3. ASSUME NEW y \in S, <<x, y>> \in R
        PROVE Cardinality(Upto(x)) < Cardinality(Upto(y))
    <2>1. Upto(x) \in SUBSET Upto(y)
      BY <1>3 DEF StrictOrder
    <2>2. y \in Upto(y) /\ y \notin Upto(x)
      BY <1>3 DEF StrictOrder
    <2> HIDE DEF Upto
    <2>3. Upto(x) # Upto(y)
      BY <2>2
    <2>4. /\ Cardinality(Upto(x)) <= Cardinality(Upto(y))
          /\ Cardinality(Upto(y)) = Cardinality(Upto(x)) => Upto(y) = Upto(x)
      BY <1>1, <2>1, FS_Subset
    <2> QED BY <1>1, <2>3, <2>4
  <1>4. \A y \in S : Place(y, S, R) = Cardinality(Upto(y))
    BY DEF Place
  <1> HIDE DEF Upto
  <1>5. Cardinality(S) \in Nat
    BY FS_CardinalityType
  <1>6. Place(x, S, R) \in 1..Cardinality(S)
    BY <1>1, <1>2, <1>4, <1>5
  <1> QED BY <1>3, <1>4, <1>6

\* An element is determined by its place.
LEMMA PlaceInj ==
    ASSUME NEW S, IsFiniteSet(S), NEW R, StrictOrder(S, R),
           NEW x \in S, NEW y \in S, Place(x, S, R) = Place(y, S, R)
    PROVE x = y
  <1>1. Place(x, S, R) \in Int /\ Place(y, S, R) \in Int
    BY PlaceOrder
  <1>2. ~(<<x, y>> \in R) /\ ~(<<y, x>> \in R)
    BY <1>1, PlaceOrder
  <1> QED BY <1>2 DEF StrictOrder

\* The first elements of S in order stand at their places.
LEMMA PlaceFirst ==
    ASSUME NEW S, IsFiniteSet(S), NEW R, StrictOrder(S, R),
           NEW n \in Nat, NEW f, FirstOf(f, n, S, R), NEW i \in 1..n
    PROVE Place(f[i], S, R) = i
  <1> DEFINE Upto == {z \in S : z = f[i] \/ <<z, f[i]>> \in R}
             g == [j \in 1..i |-> f[j]]
  <1>1. \A j \in 1..n : f[j] \in S
    BY DEF FirstOf
  <1>2. \A j, k \in 1..n : <<f[j], f[k]>> \in R => j < k
    <2> SUFFICES ASSUME NEW j \in 1..n, NEW k \in 1..n, <<f[j], f[k]>> \in R, ~(j < k) PROVE FALSE
      OBVIOUS
    <2>1. j = k \/ k < j
      OBVIOUS
    <2>2. CASE j = k
      BY <1>1, <2>2 DEF StrictOrder
    <2>3. CASE k < j
      <3>1. <<f[k], f[j]>> \in R
        BY <2>3 DEF FirstOf
      <3>2. <<f[k], f[k]>> \in R
        BY <1>1, <3>1 DEF StrictOrder
      <3> QED BY <1>1, <3>2 DEF StrictOrder
    <2> QED BY <2>1, <2>2, <2>3
  <1>3. \A j \in 1..i : j \in 1..n /\ g[j] = f[j] /\ (j = i \/ j < i)
    OBVIOUS
  <1>4. \A j \in 1..i : g[j] \in Upto
    BY <1>1, <1>3 DEF FirstOf
  <1>5. ASSUME NEW z \in Upto PROVE \E j \in 1..i : g[j] = z
    <2>1. z \in S /\ (z = f[i] \/ <<z, f[i]>> \in R)
      OBVIOUS
    <2>2. CASE z = f[i]
      BY <1>3, <2>2
    <2>3. CASE z # f[i]
      <3>1. <<z, f[i]>> \in R
        BY <2>1, <2>3
      <3>2. ~(<<f[i], z>> \in R)
        BY <1>1, <2>1, <3>1 DEF StrictOrder
      <3>3. PICK j \in 1..n : f[j] = z
        BY <2>1, <3>2 DEF FirstOf
      <3>4. j \in 1..i
        BY <1>2, <3>1, <3>3
      <3> QED BY <1>3, <3>3, <3>4
    <2> QED BY <2>2, <2>3
  <1>6. \A j, k \in 1..i : g[j] = g[k] => j = k
    <2> SUFFICES ASSUME NEW j \in 1..i, NEW k \in 1..i, f[j] = f[k], j # k PROVE FALSE
      BY <1>3
    <2>1. j \in 1..n /\ k \in 1..n /\ (j < k \/ k < j)
      OBVIOUS
    <2>2. <<f[j], f[j]>> \in R
      BY <2>1 DEF FirstOf
    <2> QED BY <1>1, <2>1, <2>2 DEF StrictOrder
  <1>7. g \in [1..i -> Upto]
    BY <1>4
  <1> HIDE DEF g, Upto
  <1>8. g \in Bijection(1..i, Upto)
    BY <1>5, <1>6, <1>7, Fun_IsBij
  <1>9. ExistsBijection(1..i, Upto) /\ i \in Nat
    BY <1>8 DEF ExistsBijection
  <1>10. Cardinality(Upto) = i
    BY <1>9, FS_CountingElements
  <1> QED BY <1>10 DEF Place, Upto

\* Every element has a place of its own.
LEMMA PlaceOnto ==
    ASSUME NEW S, IsFiniteSet(S), NEW R, StrictOrder(S, R), NEW i \in 1..Cardinality(S)
    PROVE \E x \in S : Place(x, S, R) = i
  <1> DEFINE n == Cardinality(S)
             r == [x \in S |-> Place(x, S, R)]
  <1>1. n \in Nat
    BY FS_CardinalityType
  <1>2. r \in [S -> 1..n]
    BY PlaceOrder
  <1>3. \A x, y \in S : r[x] = r[y] => x = y
    BY PlaceInj
  <1> HIDE DEF r
  <1>4. r \in Injection(S, 1..n)
    BY <1>2, <1>3, Fun_IsInj
  <1>5. IsFiniteSet(1..n) /\ Cardinality(1..n) = n
    <2>1. 1 \in Int /\ n \in Int /\ (IF 1 > n THEN 0 ELSE n - 1 + 1) = n
      BY <1>1
    <2> HIDE DEF n
    <2> QED BY <2>1, FS_Interval
  <1>6. r \in Surjection(S, 1..n)
    BY <1>4, <1>5, FS_Injection
  <1>7. PICK x \in S : r[x] = i
    BY <1>6 DEF Surjection
  <1> QED BY <1>7 DEF r

\* A finite set can be sorted.
LEMMA SortExists ==
    ASSUME NEW S, IsFiniteSet(S), NEW R, StrictOrder(S, R)
    PROVE \E f : Sorts(f, S, R)
  <1> DEFINE n == Cardinality(S)
             f == [i \in 1..n |-> CHOOSE x \in S : Place(x, S, R) = i]
  <1>1. \A i \in 1..n : f[i] \in S /\ Place(f[i], S, R) = i
    BY PlaceOnto
  <1>2. f \in [1..n -> S]
    BY <1>1
  <1> HIDE DEF f
  <1>3. ASSUME NEW i \in 1..n, NEW j \in 1..n, i < j PROVE <<f[i], f[j]>> \in R
    <2>1. f[i] # f[j]
      BY <1>1, <1>3
    <2>2. ~(<<f[j], f[i]>> \in R)
      <3> SUFFICES ASSUME <<f[j], f[i]>> \in R PROVE FALSE
        OBVIOUS
      <3>1. Place(f[j], S, R) < Place(f[i], S, R)
        BY <1>1, PlaceOrder
      <3> QED BY <1>1, <1>3, <3>1
    <2> QED BY <1>1, <2>1, <2>2 DEF StrictOrder
  <1> QED BY <1>2, <1>3 DEF Sorts

\* A sorted sequence of a set holds all its elements.
LEMMA SortsAll ==
    ASSUME NEW S, IsFiniteSet(S), NEW R, StrictOrder(S, R), NEW f, Sorts(f, S, R)
    PROVE FirstOf(f, Cardinality(S), S, R) /\ Cardinality(S) \in Nat
  <1> DEFINE n == Cardinality(S)
  <1>1. n \in Nat /\ IsFiniteSet(1..n) /\ Cardinality(1..n) = n
    <2>1. n \in Nat
      BY FS_CardinalityType
    <2>2. 1 \in Int /\ n \in Int /\ (IF 1 > n THEN 0 ELSE n - 1 + 1) = n
      BY <2>1
    <2> HIDE DEF n
    <2> QED BY <2>1, <2>2, FS_Interval
  <1>2. f \in [1..n -> S] /\ \A i, j \in 1..n : i < j => <<f[i], f[j]>> \in R
    BY DEF Sorts
  <1>3. \A i, j \in 1..n : f[i] = f[j] => i = j
    <2> SUFFICES ASSUME NEW i \in 1..n, NEW j \in 1..n, f[i] = f[j], i # j PROVE FALSE
      OBVIOUS
    <2>1. i < j \/ j < i
      OBVIOUS
    <2>2. <<f[i], f[i]>> \in R /\ f[i] \in S
      BY <1>2, <2>1
    <2> QED BY <2>2 DEF StrictOrder
  <1>4. f \in Injection(1..n, S)
    BY <1>2, <1>3, Fun_IsInj
  <1>5. f \in Surjection(1..n, S)
    BY <1>1, <1>4, FS_Injection
  <1>6. \A y \in S : \E i \in 1..n : f[i] = y
    BY <1>5 DEF Surjection
  <1> QED BY <1>1, <1>2, <1>6 DEF FirstOf

\* It starts with any sorted sequence of the set's first elements.
LEMMA SortStarts ==
    ASSUME NEW S, IsFiniteSet(S), NEW R, StrictOrder(S, R), NEW f, Sorts(f, S, R),
           NEW n \in Nat, NEW g, FirstOf(g, n, S, R)
    PROVE n <= Cardinality(S) /\ \A i \in 1..n : g[i] = f[i]
  <1> DEFINE N == Cardinality(S)
  <1>1. FirstOf(f, N, S, R) /\ N \in Nat
    BY SortsAll
  <1>2. \A i \in 1..n : g[i] \in S /\ Place(g[i], S, R) = i
    <2>1. \A i \in 1..n : g[i] \in S
      BY DEF FirstOf
    <2> QED BY <2>1, PlaceFirst
  <1>3. n <= N
    <2> SUFFICES ASSUME n > 0 PROVE n <= N
      BY <1>1
    <2>1. n \in 1..n
      OBVIOUS
    <2>2. Place(g[n], S, R) \in 1..N
      BY <1>2, <2>1, PlaceOrder
    <2> QED BY <1>1, <1>2, <2>1, <2>2
  <1>4. ASSUME NEW i \in 1..n PROVE g[i] = f[i]
    <2>1. i \in 1..N
      BY <1>1, <1>3
    <2> HIDE DEF N
    <2>2. f[i] \in S /\ Place(f[i], S, R) = i
      <3>1. f[i] \in S
        BY <1>1, <2>1 DEF FirstOf
      <3> QED BY <1>1, <2>1, <3>1, PlaceFirst
    <2> QED BY <1>2, <2>2, PlaceInj
  <1> QED BY <1>3, <1>4

\* Sorted, every element has a position.
LEMMA SortsOnto ==
    ASSUME NEW S, IsFiniteSet(S), NEW R, StrictOrder(S, R), NEW f, Sorts(f, S, R), NEW x \in S
    PROVE \E i \in 1..Cardinality(S) : f[i] = x
  <1> DEFINE n == Cardinality(S)
  <1>1. FirstOf(f, n, S, R) /\ n \in Nat
    BY SortsAll
  <1> SUFFICES ASSUME \A i \in 1..n : f[i] # x PROVE FALSE
    OBVIOUS
  <1>2. FirstOf(f, n, S \ {x}, R)
    BY <1>1 DEF FirstOf
  <1>3. IsFiniteSet(S \ {x}) /\ Cardinality(S \ {x}) = n - 1
    BY FS_RemoveElement
  <1>4. StrictOrder(S \ {x}, R)
    BY DEF StrictOrder
  <1>5. PICK g : Sorts(g, S \ {x}, R)
    BY <1>3, <1>4, SortExists
  <1>6. n <= Cardinality(S \ {x})
    BY <1>1, <1>2, <1>3, <1>4, <1>5, SortStarts
  <1> QED BY <1>1, <1>3, <1>6

\* What is in order has as many elements as positions, and is its own sort.
LEMMA OrderedSorts ==
    ASSUME NEW n \in Nat, NEW T, NEW R, \A x \in T : <<x, x>> \notin R,
           NEW f \in [1..n -> T], \A x \in T : \E i \in 1..n : f[i] = x,
           \A i, j \in 1..n : i < j => <<f[i], f[j]>> \in R
    PROVE IsFiniteSet(T) /\ Cardinality(T) = n /\ Sorts(f, T, R)
  <1>1. \A i, j \in 1..n : f[i] = f[j] => i = j
    <2> SUFFICES ASSUME NEW i \in 1..n, NEW j \in 1..n, f[i] = f[j], i < j PROVE FALSE
      <3>1. \A i, j \in 1..n : i < j \/ j < i \/ i = j
        OBVIOUS
      <3> QED BY <3>1
    <2> QED OBVIOUS
  <1>2. ExistsBijection(1..n, T)
    BY <1>1, Fun_IsBij DEF ExistsBijection
  <1>3. IsFiniteSet(T) /\ Cardinality(T) = n
    BY <1>2, FS_CountingElements, FS_NatBijection
  <1> QED BY <1>3 DEF Sorts

\* A sort by an operator, said with the relation it decides.
LEMMA SortedByIs ==
    ASSUME NEW S, IsFiniteSet(S), NEW R, StrictOrder(S, R), NEW f,
           f = CHOOSE g \in [1..Cardinality(S) -> S] :
                  \A i, j \in DOMAIN g : i < j => <<g[i], g[j]>> \in R
    PROVE Sorts(f, S, R)
  <1> DEFINE n == Cardinality(S)
             Good(g) == \A i, j \in DOMAIN g : i < j => <<g[i], g[j]>> \in R
  <1>1. PICK g : Sorts(g, S, R)
    BY SortExists
  <1>2. g \in [1..n -> S] /\ Good(g)
    BY <1>1 DEF Sorts
  <1>3. f \in [1..n -> S] /\ Good(f)
    BY <1>2
  <1> QED BY <1>3 DEF Sorts

----------------------------------------------------------------------------
(* Folds over positions.                                                    *)

\* The greatest of some of the first n naturals.
LEMMA GreatestIs ==
    ASSUME NEW n \in Nat, NEW X \in SUBSET (1..n), X # {}
    PROVE Max(X) \in X /\ \A x \in X : x <= Max(X)
  <1> DEFINE T == {n - x : x \in X}
  <1>1. T \in SUBSET Nat /\ T # {}
    <2>1. \A x \in X : n - x \in Nat /\ n - x \in T
      OBVIOUS
    <2>2. \A t \in T : t \in Nat
      BY <2>1
    <2> HIDE DEF T
    <2> QED BY <2>1, <2>2
  <1>2. PICK t \in T : \A u \in T : t <= u
    <2> HIDE DEF T
    <2> QED BY <1>1, LeastNat
  <1>3. PICK x \in X : t = n - x
    BY <1>2
  <1>4. ASSUME NEW y \in X PROVE x >= y
    <2>1. n - y \in T /\ x \in Nat /\ y \in Nat
      OBVIOUS
    <2>2. n - x <= n - y
      BY <1>2, <1>3, <2>1
    <2> QED BY <2>1, <2>2
  <1>5. \E z \in X : \A y \in X : z >= y
    BY <1>4
  <1>6. Max(X) \in X /\ \A y \in X : Max(X) >= y
    BY <1>5 DEF Max
  <1>7. \A y \in X : y \in Nat
    OBVIOUS
  <1> QED BY <1>6, <1>7

\* g has, for every set of positions, the fold of F over them in their order.
Folds(g, F, base, n) ==
    \A X \in SUBSET (1..n) : g[X] = IF X = {} THEN base ELSE F[<<g[X \ {Max(X)}], Max(X)>>]

FoldOf(g, F, A, base, n) ==
    /\ n \in Nat /\ base \in A /\ F \in [A \X (1..n) -> A]
    /\ g \in [SUBSET (1..n) -> A] /\ Folds(g, F, base, n)

LEMMA FoldsExist ==
    ASSUME NEW A, NEW base \in A, NEW N \in Nat, NEW F \in [A \X (1..N) -> A]
    PROVE \E g : FoldOf(g, F, A, base, N)
  <1> DEFINE Ok(n) == n <= N => \E g \in [SUBSET (1..n) -> A] : Folds(g, F, base, n)
             T == {n \in Nat : Ok(n)}
  <1>1. Ok(0)
    <2> DEFINE g == [X \in SUBSET (1..0) |-> base]
    <2>1. g \in [SUBSET (1..0) -> A] /\ \A X \in SUBSET (1..0) : X = {} /\ g[X] = base
      OBVIOUS
    <2> HIDE DEF g
    <2>2. Folds(g, F, base, 0)
      BY <2>1 DEF Folds
    <2> QED BY <2>1, <2>2
  <1>2. ASSUME NEW n \in Nat, Ok(n) PROVE Ok(n + 1)
    <2> SUFFICES ASSUME n + 1 <= N
                 PROVE \E h \in [SUBSET (1..(n + 1)) -> A] : Folds(h, F, base, n + 1)
      OBVIOUS
    <2>1. PICK g \in [SUBSET (1..n) -> A] : Folds(g, F, base, n)
      <3>1. n <= N
        OBVIOUS
      <3> QED BY ONLY <1>2, <3>1
    <2> DEFINE m == n + 1
               h == [X \in SUBSET (1..m) |-> IF m \in X THEN F[<<g[X \ {m}], m>>] ELSE g[X]]
    <2>2. /\ m \in 1..N /\ m \notin 1..n
          /\ \A X \in SUBSET (1..m) : /\ X \ {m} \in SUBSET (1..n)
                                      /\ m \notin X => X \in SUBSET (1..n)
      OBVIOUS
    <2>3. \A X \in SUBSET (1..n) : X \in SUBSET (1..m) /\ m \notin X
      OBVIOUS
    <2>4. ASSUME NEW X \in SUBSET (1..m), m \in X PROVE Max(X) = m
      <3>1. m \in Nat /\ X # {}
        BY <2>4
      <3>2. Max(X) \in X /\ \A x \in X : x <= Max(X)
        <4> HIDE DEF m
        <4> QED BY <3>1, GreatestIs
      <3>3. \A x \in 1..m : x \in Nat /\ x <= m
        OBVIOUS
      <3>4. Max(X) \in Nat /\ Max(X) <= m /\ m <= Max(X)
        BY ONLY <2>4, <3>2, <3>3
      <3> QED BY ONLY <3>1, <3>4
    <2>5. ASSUME NEW X \in SUBSET (1..m), m \notin X, X # {} PROVE m \notin X \ {Max(X)}
      BY <2>5
    <2> HIDE DEF m
    <2>6. \A X \in SUBSET (1..n) : g[X] \in A
      BY <2>1
    <2>7. \A a \in A : F[<<a, m>>] \in A
      BY <2>2
    <2>8. h \in [SUBSET (1..m) -> A]
      BY <2>2, <2>6, <2>7
    <2>9. \A X \in SUBSET (1..m) : h[X] = IF m \in X THEN F[<<g[X \ {m}], m>>] ELSE g[X]
      OBVIOUS
    <2> HIDE DEF h
    <2>10. ASSUME NEW X \in SUBSET (1..m)
           PROVE h[X] = IF X = {} THEN base ELSE F[<<h[X \ {Max(X)}], Max(X)>>]
      <3>1. CASE m \in X
        <4>1. X \ {m} \in SUBSET (1..m) /\ m \notin X \ {m} /\ X # {}
          BY <3>1
        <4>2. h[X \ {m}] = g[X \ {m}] /\ h[X] = F[<<g[X \ {m}], m>>]
          BY <2>9, <3>1, <4>1
        <4> QED BY <2>4, <3>1, <4>1, <4>2
      <3>2. CASE m \notin X /\ X # {}
        <4>1. X \in SUBSET (1..n) /\ X \ {Max(X)} \in SUBSET (1..m) /\ m \notin X \ {Max(X)}
          BY <2>2, <3>2
        <4>2. h[X \ {Max(X)}] = g[X \ {Max(X)}] /\ h[X] = g[X]
          BY <2>9, <3>2, <4>1
        <4> QED BY <2>1, <3>2, <4>1, <4>2 DEF Folds
      <3>3. CASE X = {}
        <4>1. m \notin X /\ X \in SUBSET (1..n)
          BY <3>3
        <4> QED BY <2>1, <2>9, <3>3, <4>1 DEF Folds
      <3> QED BY <3>1, <3>2, <3>3
    <2>11. Folds(h, F, base, m)
      BY <2>10 DEF Folds
    <2> QED BY <2>8, <2>11 DEF m
  <1> HIDE DEF Ok
  <1>3. N \in T
    <2>1. 0 \in T /\ \A n \in Nat : n \in T => n + 1 \in T
      BY <1>1, <1>2
    <2> HIDE DEF T
    <2> QED BY <2>1, EveryNat
  <1>4. Ok(N) /\ N <= N
    BY <1>3
  <1> QED BY <1>4 DEF Ok, FoldOf

\* What satisfies the equation of a fold agrees with what else does.
Agree(g, h, n) ==
    \A X \in SUBSET (1..n) :
        /\ X = {} => g[X] = h[X]
        /\ (X # {} /\ g[X \ {Max(X)}] = h[X \ {Max(X)}]) => g[X] = h[X]

LEMMA FoldsAgree ==
    ASSUME NEW n \in Nat, NEW g, NEW h, Agree(g, h, n)
    PROVE g[1..n] = h[1..n]
  <1> DEFINE S == 1..n
             C == {X \in SUBSET S : g[X] # h[X]}
  <1> SUFFICES ASSUME C # {} PROVE FALSE
    <2>1. S \in SUBSET S
      OBVIOUS
    <2> QED BY <2>1
  <1>1. IsFiniteSet(S)
    <2>1. 1 \in Int /\ n \in Int
      OBVIOUS
    <2> QED BY <2>1, FS_Interval
  <1>2. C \in SUBSET SUBSET S
    OBVIOUS
  <1>3. \A X \in SUBSET S : X # {} => Max(X) \in X
    BY GreatestIs
  <1>4. PICK X \in C : \A Y \in C : Y \subseteq X => Y = X
    <2> HIDE DEF C, S
    <2> QED BY <1>1, <1>2, LeastSet
  <1>5. X \in SUBSET S /\ g[X] # h[X] /\ X # {}
    BY <1>4 DEF Agree
  <1>6. X \ {Max(X)} \in SUBSET S /\ X \ {Max(X)} # X
    BY <1>3, <1>5
  <1>7. X \ {Max(X)} \notin C
    <2> HIDE DEF C
    <2> QED BY <1>4, <1>6
  <1> QED BY <1>5, <1>6, <1>7 DEF Agree

\* The results over the first positions follow from one another.
LEMMA FoldStarts ==
    ASSUME NEW A, NEW base, NEW n, NEW F, NEW g, FoldOf(g, F, A, base, n), NEW i \in 0..n
    PROVE /\ g[1..i] \in A
          /\ i = 0 => g[1..i] = base
          /\ i > 0 => g[1..i] = F[<<g[1..(i - 1)], i>>]
  <1> DEFINE X == 1..i
             Y == 1..(i - 1)
  <1> USE DEF FoldOf
  <1>1. X \in SUBSET (1..n) /\ (i = 0 => X = {}) /\ (i > 0 => X # {} /\ i \in X /\ X \ {i} = Y)
    OBVIOUS
  <1>2. i > 0 => Max(X) = i
    <2> SUFFICES ASSUME i > 0 PROVE Max(X) = i
      OBVIOUS
    <2>1. Max(X) \in X /\ \A x \in X : x <= Max(X)
      <3> HIDE DEF X
      <3> QED BY <1>1, GreatestIs
    <2> QED BY <1>1, <2>1
  <1> HIDE DEF X, Y
  <1>3. /\ g[X] \in A /\ (i = 0 => g[X] = base)
        /\ i > 0 => g[X] = F[<<g[Y], i>>]
    <2>1. g[X] = IF X = {} THEN base ELSE F[<<g[X \ {Max(X)}], Max(X)>>]
      BY <1>1 DEF Folds
    <2> QED BY <1>1, <1>2, <2>1
  <1> QED BY <1>3 DEF X, Y

\* A fold over all positions is the last result of a run over them.
LEMMA FoldRuns ==
    ASSUME NEW A, NEW base, NEW n, NEW F, NEW g, FoldOf(g, F, A, base, n),
           NEW h, Agree(h, g, n)
    PROVE \E r \in [0..n -> A] :
            /\ r[0] = base /\ r[n] = h[1..n]
            /\ \A k \in 1..n : r[k] = F[<<r[k - 1], k>>]
  <1> DEFINE r == [k \in 0..n |-> g[1..k]]
  <1>1. n \in Nat
    BY DEF FoldOf
  <1>2. h[1..n] = g[1..n]
    BY <1>1, FoldsAgree
  <1>3. n \in 0..n /\ 0 \in 0..n /\ \A k \in 1..n : k \in 0..n /\ k - 1 \in 0..n /\ k > 0
    BY <1>1
  <1>4. ASSUME NEW k \in 0..n
        PROVE /\ r[k] \in A /\ (k = 0 => r[k] = base)
              /\ k > 0 => r[k] = F[<<r[k - 1], k>>]
    <2>1. /\ g[1..k] \in A /\ (k = 0 => g[1..k] = base)
          /\ k > 0 => g[1..k] = F[<<g[1..(k - 1)], k>>]
      <3> HIDE DEF r
      <3> QED BY FoldStarts
    <2>2. r[k] = g[1..k] /\ (k > 0 => r[k - 1] = g[1..(k - 1)])
      BY <1>1
    <2> HIDE DEF r
    <2> QED BY <2>1, <2>2
  <1>5. r \in [0..n -> A] /\ r[n] = g[1..n]
    <2>1. r = [k \in 0..n |-> r[k]]
      OBVIOUS
    <2>2. r[n] = g[1..n]
      BY <1>3
    <2> HIDE DEF r
    <2> QED BY <1>4, <2>1, <2>2
  <1> HIDE DEF r
  <1> QED BY <1>2, <1>3, <1>4, <1>5

----------------------------------------------------------------------------
(* Sums of functions.                                                       *)

\* The library's sum of a function's values.
LEMMA SumFunctionIs ==
    ASSUME NEW S, IsFiniteSet(S), NEW f, DOMAIN f = S, IntOn(f, S)
    PROVE SumFunction(f) = Sum(f, S)
  <1> DEFINE step(g) == [X \in SUBSET S |-> IF X = {} THEN 0
                                            ELSE f[CHOOSE i \in X : TRUE]
                                                   + g[X \ {CHOOSE i \in X : TRUE}]]
             h == CHOOSE g : g = step(g)
  <1>1. SumFunction(f) = h[S]
    BY DEF SumFunction, SumFunctionOnSet, FoldFunctionOnSet, MapThenFoldSet
  <1>2. \A g : g = step(g) <=> Sums(g, f, S)
    BY DEF Sums, Picked
  <1>3. PICK g \in [SUBSET S -> Int] : Sums(g, f, S) /\ Sum(f, S) = g[S] /\ \A k : Sums(k, f, S) => k = g
    <2> HIDE DEF h, step
    <2> QED BY SumIs
  <1>4. h = g
    <2>1. h = step(h)
      <3>1. g = step(g)
        BY <1>2, <1>3
      <3> HIDE DEF step
      <3> QED BY <3>1
    <2> HIDE DEF h, step
    <2> QED BY <1>2, <1>3, <2>1
  <1> HIDE DEF h
  <1> QED BY <1>1, <1>3, <1>4

\* The sum of a function's first values.
Total(v, n) == SumFunction([i \in 1..n |-> v[i]])

LEMMA TotalIs ==
    ASSUME NEW N \in Nat, NEW v, IntOn(v, 1..N), NEW n \in 0..N
    PROVE /\ Total(v, n) = Sum(v, 1..n) /\ Total(v, n) \in Int
          /\ n = 0 => Total(v, n) = 0
          /\ n > 0 => Total(v, n) = Total(v, n - 1) + v[n] /\ Total(v, n - 1) \in Int
  <1>1. ASSUME NEW m \in 0..N PROVE Total(v, m) = Sum(v, 1..m) /\ IsFiniteSet(1..m) /\ IntOn(v, 1..m)
    <2> DEFINE f == [i \in 1..m |-> v[i]]
    <2>1. 1 \in Int /\ m \in Int /\ 1..m \subseteq 1..N
      OBVIOUS
    <2>2. IsFiniteSet(1..m)
      BY <2>1, FS_Interval
    <2>3. IntOn(v, 1..m)
      BY <2>1 DEF IntOn
    <2>4. DOMAIN f = 1..m /\ \A i \in 1..m : f[i] = v[i]
      OBVIOUS
    <2>5. Total(v, m) = SumFunction(f)
      BY DEF Total
    <2> HIDE DEF f
    <2>6. IntOn(f, 1..m)
      BY <2>3, <2>4 DEF IntOn
    <2>7. SumFunction(f) = Sum(f, 1..m)
      BY <2>2, <2>4, <2>6, SumFunctionIs
    <2>8. Sum(f, 1..m) = Sum(v, 1..m)
      BY <2>2, <2>4, <2>6, SumEqual
    <2> QED BY <2>2, <2>3, <2>5, <2>7, <2>8
  <1>2. CASE n = 0
    <2>1. 1..n = {}
      BY <1>2
    <2>2. Sum(v, 1..n) = 0
      BY <2>1, SumEmpty
    <2> QED BY <1>1, <1>2, <2>2
  <1>3. CASE n > 0
    <2> DEFINE S == 1..n
    <2>1. n \in S /\ S \ {n} = 1..(n - 1) /\ n - 1 \in 0..N
      BY <1>3
    <2>2. IsFiniteSet(S) /\ IntOn(v, S)
      BY <1>1
    <2> HIDE DEF S
    <2>3. /\ Sum(v, S) = v[n] + Sum(v, S \ {n})
          /\ v[n] \in Int /\ Sum(v, S) \in Int /\ Sum(v, S \ {n}) \in Int
      BY <2>1, <2>2, SumRemove
    <2>4. Total(v, n) = Sum(v, S) /\ Total(v, n - 1) = Sum(v, S \ {n})
      BY <1>1, <2>1 DEF S
    <2> QED BY <1>1, <1>3, <2>3, <2>4
  <1> QED BY <1>2, <1>3
=============================================================================
