--------------------------- MODULE Ordering_proofs ---------------------------
(***************************************************************************)
(* Facts about orders that the proofs of the job matrix and of the pages   *)
(* rest on: LexLess is a strict total order, Ordered() lists a finite set  *)
(* in its order, Picked() keeps the order of a sequence, and the           *)
(* recursions over positions have solutions.                               *)
(***************************************************************************)
EXTENDS Ordering, FiniteSetTheorems, WellFoundedInduction, TLAPS

\* Induction, with the claim as a set of numbers.
LEMMA SetInduction ==
  ASSUME NEW T, 0 \in T, \A n \in Nat : n \in T => n + 1 \in T
  PROVE  Nat \subseteq T
  <1> SUFFICES ASSUME Nat \ T # {} PROVE FALSE
    OBVIOUS
  <1> DEFINE R == OpToRel(<, Nat)
  <1>1. IsWellFoundedOn(R, Nat)
    BY NatLessThanWellFounded
  <1>2. \A x, y \in Nat : x < y => <<x, y>> \in R
    BY DEF OpToRel
  <1> HIDE DEF R
  <1>3. PICK x \in Nat \ T : \A y \in Nat \ T : ~(<<y, x>> \in R)
    BY <1>1, WFMin
  <1>4. x # 0 /\ x - 1 \in Nat /\ (x - 1) + 1 = x
    BY <1>3
  <1>5. x - 1 \notin T
    BY <1>4, <1>3
  <1>6. <<x - 1, x>> \in R
    BY <1>2, <1>4
  <1>7. QED
    BY <1>3, <1>4, <1>5, <1>6

\* A set of numbers that is not empty has a least one, and if it is bounded a greatest.
LEMMA LeastNumber ==
  ASSUME NEW T \in SUBSET Nat, T # {}
  PROVE  \E x \in T : \A y \in T : x <= y
  <1> SUFFICES ASSUME \A x \in T : \E y \in T : ~(x <= y) PROVE FALSE
    OBVIOUS
  <1> DEFINE U == {n \in Nat : \A m \in 0..n : m \notin T}
  <1>1. 0 \in U
    <2>1. 0 \notin T
      BY SMT
    <2>2. QED
      BY <2>1
  <1>2. \A n \in Nat : n \in U => n + 1 \in U
    BY SMT
  <1> HIDE DEF U
  <1>3. Nat \subseteq U
    BY <1>1, <1>2, SetInduction
  <1>4. PICK x \in T : TRUE
    OBVIOUS
  <1>5. x \in U /\ x \in 0..x
    BY <1>3
  <1>6. QED
    BY <1>4, <1>5 DEF U

LEMMA GreatestNumber ==
  ASSUME NEW T \in SUBSET Nat, T # {}, NEW n \in Nat, \A x \in T : x <= n
  PROVE  \E x \in T : \A y \in T : y <= x
  <1> DEFINE U == {n - x : x \in T}
  <1>1. U \in SUBSET Nat /\ U # {}
    <2>1. \A x \in T : n - x \in Nat
      BY SMT
    <2>2. QED
      BY <2>1
  <1>2. PICK u \in U : \A v \in U : u <= v
    BY <1>1, LeastNumber, Zenon
  <1>3. PICK x \in T : u = n - x
    BY <1>2
  <1>4. \A y \in T : n - y \in U
    BY SMT
  <1>5. QED
    <2>1. \A y \in T : n - x <= n - y
      BY <1>2, <1>3, <1>4
    <2>2. x \in Nat /\ \A y \in T : y \in Nat
      OBVIOUS
    <2> HIDE DEF U
    <2>3. \A y \in T : y <= x
      BY <2>1, <2>2
    <2>4. QED
      BY <2>3
-----------------------------------------------------------------------------
\* In a strict total order of a finite set, a member has as many members before it as its
\* place says, and every place is taken.
IsOrder(S, R) ==
  /\ \A x \in S : <<x, x>> \notin R
  /\ \A x, y, z \in S : <<x, y>> \in R /\ <<y, z>> \in R => <<x, z>> \in R
  /\ \A x, y \in S : x # y => <<x, y>> \in R \/ <<y, x>> \in R

Before(S, R, x) == {y \in S : <<y, x>> \in R}
Place(S, R, x) == Cardinality(Before(S, R, x)) + 1

LEMMA PlaceType ==
  ASSUME NEW S, IsFiniteSet(S), NEW R, IsOrder(S, R), NEW x \in S
  PROVE  Cardinality(Before(S, R, x)) \in Nat /\ Place(S, R, x) \in 1..Cardinality(S)
  <1>1. Before(S, R, x) \in SUBSET S /\ x \notin Before(S, R, x)
    BY DEF Before, IsOrder
  <1>2. IsFiniteSet(Before(S, R, x)) /\ Cardinality(Before(S, R, x)) <= Cardinality(S)
        /\ (Cardinality(S) = Cardinality(Before(S, R, x)) => S = Before(S, R, x))
    BY <1>1, FS_Subset
  <1>3. Cardinality(Before(S, R, x)) \in Nat /\ Cardinality(S) \in Nat
    BY <1>2, FS_CardinalityType
  <1>4. Cardinality(Before(S, R, x)) # Cardinality(S)
    BY <1>1, <1>2
  <1>5. QED
    BY <1>2, <1>3, <1>4 DEF Place

LEMMA PlaceGrows ==
  ASSUME NEW S, IsFiniteSet(S), NEW R, IsOrder(S, R), NEW x \in S, NEW y \in S, <<x, y>> \in R
  PROVE  Place(S, R, x) < Place(S, R, y)
  <1>1. /\ Before(S, R, x) \in SUBSET Before(S, R, y)
        /\ x \in Before(S, R, y) /\ x \notin Before(S, R, x)
    BY DEF Before, IsOrder
  <1>2. IsFiniteSet(Before(S, R, y))
    <2>1. Before(S, R, y) \in SUBSET S
      BY DEF Before
    <2>2. QED
      BY <2>1, FS_Subset
  <1>3. /\ Cardinality(Before(S, R, x)) <= Cardinality(Before(S, R, y))
        /\ Cardinality(Before(S, R, y)) # Cardinality(Before(S, R, x))
    BY <1>1, <1>2, FS_Subset
  <1>4. Cardinality(Before(S, R, x)) \in Nat /\ Cardinality(Before(S, R, y)) \in Nat
    BY PlaceType
  <1>5. QED
    BY <1>3, <1>4 DEF Place

LEMMA PlaceOnce ==
  ASSUME NEW S, IsFiniteSet(S), NEW R, IsOrder(S, R), NEW x \in S, NEW y \in S,
         Place(S, R, x) = Place(S, R, y)
  PROVE  x = y
  <1> SUFFICES ASSUME x # y PROVE FALSE
    OBVIOUS
  <1>1. Place(S, R, x) < Place(S, R, y) \/ Place(S, R, y) < Place(S, R, x)
    BY PlaceGrows DEF IsOrder
  <1>2. Place(S, R, x) \in Int /\ Place(S, R, y) \in Int
    BY PlaceType
  <1>3. QED
    BY <1>1, <1>2

LEMMA PlaceTaken ==
  ASSUME NEW S, IsFiniteSet(S), NEW R, IsOrder(S, R), NEW i \in 1..Cardinality(S)
  PROVE  \E x \in S : Place(S, R, x) = i
  <1> DEFINE f == [x \in S |-> Place(S, R, x)]
             n == Cardinality(S)
  <1>1. n \in Nat
    BY FS_CardinalityType
  <1>2. f \in [S -> 1..n]
    BY PlaceType
  <1>3. f \in Injection(S, 1..n)
    <2>1. \A x, y \in S : f[x] = f[y] => x = y
      BY PlaceOnce
    <2>2. QED
      BY <1>2, <2>1 DEF Injection, IsInjective
  <1>4. IsFiniteSet(1..n) /\ Cardinality(1..n) = n
    BY <1>1, FS_Interval
  <1>5. f \in Surjection(S, 1..n)
    BY <1>3, <1>4, FS_Injection
  <1>6. \E x \in S : f[x] = i
    BY <1>5 DEF Surjection
  <1>7. QED
    BY <1>6

\* The list of a finite set in its order has each member at its place.
Lists(f, S, R) ==
  \A i \in 1..Cardinality(S) : f[i] = CHOOSE x \in S : Cardinality(Before(S, R, x)) = i - 1

LEMMA ListedInOrder ==
  ASSUME NEW S, IsFiniteSet(S), NEW R, IsOrder(S, R), NEW f, Lists(f, S, R)
  PROVE  /\ \A i \in 1..Cardinality(S) : f[i] \in S
         /\ \A i \in 1..Cardinality(S) : Place(S, R, f[i]) = i
         /\ \A x \in S : f[Place(S, R, x)] = x
         /\ \A i, j \in 1..Cardinality(S) : i < j <=> <<f[i], f[j]>> \in R
  <1> DEFINE n == Cardinality(S)
  <1>1. n \in Nat
    BY FS_CardinalityType
  <1>2. \A i \in 1..n : f[i] \in S /\ Cardinality(Before(S, R, f[i])) = i - 1
    <2> TAKE i \in 1..n
    <2>1. PICK x \in S : Place(S, R, x) = i
      BY PlaceTaken
    <2>2. Cardinality(Before(S, R, x)) = i - 1
      BY <2>1, PlaceType DEF Place
    <2>3. QED
      BY <2>2, Zenon DEF Lists
  <1>3. \A i \in 1..n : f[i] \in S
    BY <1>2
  <1>4. \A i \in 1..n : Place(S, R, f[i]) = i
    <2>1. \A i \in 1..n : (i - 1) + 1 = i
      BY <1>1
    <2>2. QED
      BY <1>2, <2>1, Zenon DEF Place
  <1>5. \A x \in S : f[Place(S, R, x)] = x
    <2> SUFFICES ASSUME NEW x \in S PROVE f[Place(S, R, x)] = x
      OBVIOUS
    <2>1. Place(S, R, x) \in 1..n
      BY PlaceType
    <2>2. f[Place(S, R, x)] \in S /\ Place(S, R, f[Place(S, R, x)]) = Place(S, R, x)
      BY <1>3, <1>4, <2>1, Zenon
    <2>3. QED
      BY <2>2, PlaceOnce, Zenon
  <1>6. \A i, j \in 1..n : i < j <=> <<f[i], f[j]>> \in R
    <2> SUFFICES ASSUME NEW i \in 1..n, NEW j \in 1..n PROVE i < j <=> <<f[i], f[j]>> \in R
      OBVIOUS
    <2>1. f[i] \in S /\ f[j] \in S /\ Place(S, R, f[i]) = i /\ Place(S, R, f[j]) = j
      BY <1>3, <1>4, Zenon
    <2>2. <<f[i], f[j]>> \in R => i < j
      BY <2>1, PlaceGrows, Zenon
    <2>3. <<f[j], f[i]>> \in R => j < i
      BY <2>1, PlaceGrows, Zenon
    <2>4. ~(i < j /\ j < i) /\ ~(i < i)
      OBVIOUS
    <2>5. i < j => <<f[i], f[j]>> \in R
      BY <2>1, <2>3, <2>4, Zenon DEF IsOrder
    <2>6. QED
      BY <2>2, <2>5
  <1>7. QED
    BY <1>3, <1>4, <1>5, <1>6

-----------------------------------------------------------------------------
\* LexLess is a strict total order of the sequences of numbers.
LEMMA LexIrreflexive ==
  ASSUME NEW a \in Seq(Int) PROVE ~LexLess(a, a)
  <1>1. \A i \in 1..Len(a) : a[i] \in Int
    OBVIOUS
  <1>2. QED
    BY <1>1 DEF LexLess

LEMMA LexTransitive ==
  ASSUME NEW a \in Seq(Int), NEW b \in Seq(Int), NEW c \in Seq(Int), LexLess(a, b), LexLess(b, c)
  PROVE  LexLess(a, c)
  <1> DEFINE la == Len(a)
             lb == Len(b)
             lc == Len(c)
  <1>1. /\ \A i \in 1..la : a[i] \in Int
        /\ \A i \in 1..lb : b[i] \in Int
        /\ \A i \in 1..lc : c[i] \in Int
        /\ la \in Nat /\ lb \in Nat /\ lc \in Nat
    OBVIOUS
  <1>2. PICK i \in 1..lb : /\ i <= la + 1 /\ \A j \in 1..(i - 1) : a[j] = b[j]
                           /\ i <= la => a[i] < b[i]
    BY DEF LexLess
  <1>3. PICK k \in 1..lc : /\ k <= lb + 1 /\ \A j \in 1..(k - 1) : b[j] = c[j]
                           /\ k <= lb => b[k] < c[k]
    BY DEF LexLess
  <1>4. SUFFICES \E m \in 1..lc : /\ m <= la + 1 /\ \A j \in 1..(m - 1) : a[j] = c[j]
                                  /\ m <= la => a[m] < c[m]
    BY DEF LexLess
  <1> HIDE DEF la, lb, lc
  <1>5. CASE i < k
    <2>1. i \in 1..lc /\ i \in 1..(k - 1) /\ i \in 1..lb
      BY <1>1, <1>5
    <2>2. \A j \in 1..(i - 1) : a[j] = c[j]
      <3> TAKE j \in 1..(i - 1)
      <3>1. j \in 1..(k - 1)
        BY <1>1, <1>5
      <3>2. QED
        BY <1>2, <1>3, <3>1, Zenon
    <2>3. b[i] = c[i]
      BY <1>3, <2>1, Zenon
    <2>4. QED
      BY <1>2, <2>1, <2>2, <2>3
  <1>6. CASE k <= i
    <2>1. k \in 1..lb /\ k <= la + 1
      BY <1>1, <1>2, <1>6
    <2>2. \A j \in 1..(k - 1) : a[j] = c[j]
      <3> TAKE j \in 1..(k - 1)
      <3>1. j \in 1..(i - 1)
        BY <1>1, <1>6
      <3>2. QED
        BY <1>2, <1>3, <3>1, Zenon
    <2>3. k <= la => a[k] < c[k]
      <3> SUFFICES ASSUME k <= la PROVE a[k] < c[k]
        OBVIOUS
      <3>1. k \in 1..la /\ b[k] < c[k]
        BY <1>1, <1>3, <2>1
      <3>2. a[k] = b[k] \/ a[k] < b[k]
        <4>1. CASE k < i
          <5>1. k \in 1..(i - 1)
            BY <1>1, <4>1
          <5>2. QED
            BY <1>2, <5>1, Zenon
        <4>2. CASE k = i
          BY <1>2, <3>1, <4>2
        <4>3. QED
          BY <1>1, <1>6, <4>1, <4>2
      <3>3. a[k] \in Int /\ b[k] \in Int /\ c[k] \in Int
        BY <1>1, <2>1, <3>1, Zenon
      <3>4. QED
        BY <3>1, <3>2, <3>3
    <2>4. QED
      BY <2>1, <2>2, <2>3
  <1>7. QED
    BY <1>1, <1>5, <1>6

LEMMA LexTotal ==
  ASSUME NEW a \in Seq(Int), NEW b \in Seq(Int), a # b
  PROVE  LexLess(a, b) \/ LexLess(b, a)
  <1>1. /\ \A i \in 1..Len(a) : a[i] \in Int
        /\ \A i \in 1..Len(b) : b[i] \in Int
        /\ Len(a) \in Nat /\ Len(b) \in Nat
    OBVIOUS
  <1> DEFINE T == {i \in Nat : /\ 1 <= i /\ i <= Len(a) + 1 /\ i <= Len(b) + 1
                               /\ i <= Len(a) /\ i <= Len(b) => a[i] # b[i]}
  <1>2. T \in SUBSET Nat /\ T # {}
    <2>1. Len(a) + 1 \in T \/ Len(b) + 1 \in T
      BY <1>1
    <2>2. QED
      BY <2>1
  <1>3. PICK i \in T : \A j \in T : i <= j
    <2> HIDE DEF T
    <2> QED BY <1>2, LeastNumber, Zenon
  <1>4. i \in Nat /\ 1 <= i /\ i <= Len(a) + 1 /\ i <= Len(b) + 1
        /\ (i <= Len(a) /\ i <= Len(b) => a[i] # b[i])
    OBVIOUS
  <1>5. \A j \in 1..(i - 1) : a[j] = b[j]
    <2> SUFFICES ASSUME NEW j \in 1..(i - 1), a[j] # b[j] PROVE FALSE
      OBVIOUS
    <2>1. j \in T
      BY <1>1, <1>4
    <2>2. QED
      BY <1>3, <1>4, <2>1
  <1> HIDE DEF T
  <1>6. CASE i <= Len(a) /\ i <= Len(b)
    <2>1. a[i] < b[i] \/ b[i] < a[i]
      BY <1>1, <1>4, <1>6
    <2>2. i \in 1..Len(a) /\ i \in 1..Len(b)
      BY <1>1, <1>4, <1>6
    <2>3. QED
      BY <1>4, <1>5, <2>1, <2>2 DEF LexLess
  <1>7. CASE i > Len(a) /\ i <= Len(b)
    <2>1. i \in 1..Len(b) /\ ~(i <= Len(a))
      BY <1>1, <1>4, <1>7
    <2>2. QED
      BY <1>4, <1>5, <2>1 DEF LexLess
  <1>8. CASE i > Len(b) /\ i <= Len(a)
    <2>1. i \in 1..Len(a) /\ ~(i <= Len(b))
      BY <1>1, <1>4, <1>8
    <2>2. QED
      BY <1>4, <1>5, <2>1 DEF LexLess
  <1>9. CASE i > Len(a) /\ i > Len(b)
    <2>1. Len(a) = i - 1 /\ Len(b) = i - 1
      BY <1>1, <1>4, <1>9
    <2>2. a = b
      BY <1>5, <2>1
    <2>3. QED
      BY <2>2
  <1>10. QED
    BY <1>1, <1>4, <1>6, <1>7, <1>8, <1>9

LEMMA LexOrder ==
  ASSUME NEW S \in SUBSET Seq(Int), NEW R, R = {p \in S \X S : LexLess(p[1], p[2])}
  PROVE  IsOrder(S, R) /\ \A x, y \in S : <<x, y>> \in R <=> LexLess(x, y)
  <1>1. \A x, y \in S : <<x, y>> \in R <=> LexLess(x, y)
    OBVIOUS
  <1>2. \A x \in S : x \in Seq(Int)
    OBVIOUS
  <1>3. \A x \in S : ~LexLess(x, x)
    BY <1>2, LexIrreflexive
  <1>4. \A x, y, z \in S : LexLess(x, y) /\ LexLess(y, z) => LexLess(x, z)
    BY <1>2, LexTransitive
  <1>5. \A x, y \in S : x # y => LexLess(x, y) \/ LexLess(y, x)
    BY <1>2, LexTotal
  <1>6. QED
    BY <1>1, <1>3, <1>4, <1>5, Zenon DEF IsOrder

-----------------------------------------------------------------------------
\* The positions in I, in their order.
Positions(I) ==
  [i \in 1..Cardinality(I) |-> CHOOSE x \in I : Cardinality({y \in I : y < x}) = i - 1]

LEMMA PositionsInOrder ==
  ASSUME NEW n \in Nat, NEW I \in SUBSET (1..n), NEW at, at = Positions(I)
  PROVE  /\ IsFiniteSet(I) /\ Cardinality(I) \in Nat /\ at \in [1..Cardinality(I) -> I]
         /\ \A i, j \in 1..Cardinality(I) : i < j <=> at[i] < at[j]
         /\ \A i \in I : /\ Cardinality({j \in I : j <= i}) \in 1..Cardinality(I)
                         /\ at[Cardinality({j \in I : j <= i})] = i
  <1> DEFINE R == {p \in I \X I : p[1] < p[2]}
  <1>1. IsFiniteSet(I) /\ Cardinality(I) \in Nat
    <2>1. IsFiniteSet(1..n)
      BY FS_Interval
    <2>2. IsFiniteSet(I)
      BY <2>1, FS_Subset
    <2>3. QED
      BY <2>2, FS_CardinalityType
  <1>2. \A x, y \in I : <<x, y>> \in R <=> x < y
    OBVIOUS
  <1> HIDE DEF R
  <1>3. IsOrder(I, R)
    BY <1>2 DEF IsOrder
  <1>4. Lists(at, I, R)
    <2>1. \A x \in I : Before(I, R, x) = {y \in I : y < x}
      BY <1>2, Zenon DEF Before
    <2>2. \A i \in 1..Cardinality(I) :
            at[i] = CHOOSE x \in I : Cardinality({y \in I : y < x}) = i - 1
      BY Zenon DEF Positions
    <2>3. QED
      BY <2>1, <2>2, Zenon DEF Lists
  <1>5. /\ \A i \in 1..Cardinality(I) : at[i] \in I
        /\ \A x \in I : at[Place(I, R, x)] = x
        /\ \A i, j \in 1..Cardinality(I) : i < j <=> <<at[i], at[j]>> \in R
    BY <1>1, <1>3, <1>4, ListedInOrder
  <1>6. \A i, j \in 1..Cardinality(I) : i < j <=> at[i] < at[j]
    BY <1>2, <1>5, Zenon
  <1>7. \A i \in I : /\ Cardinality({j \in I : j <= i}) \in 1..Cardinality(I)
                     /\ at[Cardinality({j \in I : j <= i})] = i
    <2> SUFFICES ASSUME NEW i \in I
                 PROVE  Cardinality({j \in I : j <= i}) = Place(I, R, i)
                          /\ Place(I, R, i) \in 1..Cardinality(I)
      BY <1>5
    <2>1. /\ {j \in I : j <= i} = Before(I, R, i) \cup {i} /\ i \notin Before(I, R, i)
          /\ Before(I, R, i) \in SUBSET I
      <3>1. \A j \in I : j <= i <=> (j < i \/ j = i)
        OBVIOUS
      <3>2. ~(i < i)
        OBVIOUS
      <3>3. QED
        BY <1>2, <3>1, <3>2, Zenon DEF Before
    <2>2. IsFiniteSet(Before(I, R, i))
      BY <1>1, <2>1, FS_Subset
    <2>3. Cardinality({j \in I : j <= i}) = Cardinality(Before(I, R, i)) + 1
      BY <2>1, <2>2, FS_AddElement
    <2>4. QED
      BY <1>1, <1>3, <2>3, PlaceType DEF Place
  <1>8. at \in [1..Cardinality(I) -> I]
    <2> DEFINE e(i) == CHOOSE x \in I : Cardinality({y \in I : y < x}) = i - 1
    <2>0. at = [i \in 1..Cardinality(I) |-> e(i)]
      BY DEF Positions
    <2> HIDE DEF e
    <2>1. at = [i \in 1..Cardinality(I) |-> at[i]]
      BY <2>0
    <2>2. QED
      BY <1>5, <2>1
  <1>9. QED
    BY <1>1, <1>6, <1>7, <1>8

\* Picked() has one element for each position, at the place of the position.
PickedFrom(t, s, I) ==
  /\ Cardinality(I) \in Nat /\ Len(t) = Cardinality(I) /\ DOMAIN t = 1..Cardinality(I)
  /\ \A i \in I : /\ Cardinality({j \in I : j <= i}) \in 1..Cardinality(I)
                  /\ t[Cardinality({j \in I : j <= i})] = s[i]
  /\ \A k \in DOMAIN t : \E i \in I : t[k] = s[i]
  /\ \A k, l \in DOMAIN t : k < l => \E i, j \in I : i < j /\ t[k] = s[i] /\ t[l] = s[j]

LEMMA PickedElements ==
  ASSUME NEW n \in Nat, NEW I \in SUBSET (1..n), NEW s
  PROVE  PickedFrom(Picked(s, I), s, I)
  <1> DEFINE t == Picked(s, I)
  <1> DEFINE at == Positions(I)
             m == Cardinality(I)
  <1>1. /\ m \in Nat /\ at \in [1..m -> I]
        /\ \A i, j \in 1..m : i < j <=> at[i] < at[j]
        /\ \A i \in I : /\ Cardinality({j \in I : j <= i}) \in 1..m
                        /\ at[Cardinality({j \in I : j <= i})] = i
    BY PositionsInOrder
  <1>2. t = [i \in 1..m |-> s[at[i]]]
    <2>1. DOMAIN at = 1..m
      BY <1>1
    <2>2. t = [i \in DOMAIN at |-> s[at[i]]]
      BY DEF Picked, Ordered, Positions
    <2>3. QED
      BY <2>1, <2>2, Zenon
  <1> HIDE DEF at, m, t
  <1>3. DOMAIN t = 1..m /\ Len(t) = m /\ \A i \in 1..m : t[i] = s[at[i]]
    BY <1>1, <1>2
  <1>5. \A i \in I : t[Cardinality({j \in I : j <= i})] = s[i]
    BY <1>1, <1>3, Zenon
  <1>6. \A k \in 1..m : at[k] \in I
    BY <1>1
  <1>7. \A k \in DOMAIN t : \E i \in I : t[k] = s[i]
    BY <1>3, <1>6, Zenon
  <1>8. \A k, l \in DOMAIN t : k < l =>
          \E i, j \in I : i < j /\ t[k] = s[i] /\ t[l] = s[j]
    <2> SUFFICES ASSUME NEW k \in DOMAIN t, NEW l \in DOMAIN t, k < l
                 PROVE  \E i, j \in I : i < j /\ t[k] = s[i] /\ t[l] = s[j]
      OBVIOUS
    <2>1. at[k] < at[l] /\ at[k] \in I /\ at[l] \in I /\ t[k] = s[at[k]] /\ t[l] = s[at[l]]
      BY <1>1, <1>3, <1>6, Zenon
    <2>2. QED
      BY <2>1, Zenon
  <1>9. QED
    BY <1>1, <1>3, <1>5, <1>7, <1>8, Zenon DEF m, t, PickedFrom

=============================================================================
